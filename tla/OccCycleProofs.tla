--------------------------- MODULE OccCycleProofs ---------------------------
(***************************************************************************)
(* Proofs about OccCycle, for any Needs, machines, workers and inputs.     *)
(* The inductive invariant IInv joins the type invariant with the          *)
(* agreement of the two claim indexes and the exactness of the WaitGroup;  *)
(* BudgetLeft is what keeps a decremented retry budget a natural number.   *)
(*                                                                         *)
(* The second half is about what a cycle hands out: no plain Need is left  *)
(* short of what it could take, a Need is queued again at most once per    *)
(* machine it lost, and a gang with a recorded domain stays in it.  All    *)
(* three rest on claims going up only, and on one lemma, NextLocals, that  *)
(* says what each step of a worker leaves in its locals.                   *)
(***************************************************************************)
EXTENDS OccCycle, TLAPS, FiniteSetTheorems, SequenceTheorems, WellFoundedInduction

IInv == TypeOK /\ BudgetLeft /\ IndexesAgree /\ WgExact /\ DoneIsFinal

\* Units are counted by a natural number.
LEMMA SumType ==
  ASSUME TypeOK, NEW ms \in SUBSET Machines
  PROVE  Sum(ms) \in Nat
<1> DEFINE U == {u \in ms \X (1 .. MaxAlloc) : u[2] <= in.alloc[u[1]]}
<1>1. IsFiniteSet(ms) BY FiniteAssumption, FS_Subset
<1>2. IsFiniteSet(1 .. MaxAlloc) BY BoundsAssumption, FS_Interval
<1>3. IsFiniteSet(ms \X (1 .. MaxAlloc)) BY <1>1, <1>2, FS_Product
<1>4. IsFiniteSet(U) BY <1>3, FS_Subset
<1> QED BY <1>4, FS_CardinalityType DEF Sum

\* A Need's residual deficit is a natural number.
LEMMA DeficitType ==
  ASSUME TypeOK, NEW n \in Needs
  PROVE  computeDeficit(n) \in Nat
<1>1. in \in InputType BY InputsAssumption DEF TypeOK
<1>2. in.demand[n] \in Nat BY <1>1 DEF InputType
<1>3. Sum(claimedByNeed[n]) \in Nat BY SumType DEF TypeOK
<1> QED BY <1>2, <1>3 DEF computeDeficit, SubResources

LEMMA InitInv == Init => IInv
<1> SUFFICES ASSUME Init PROVE IInv OBVIOUS
<1>1. TypeOK
  BY DEF Init, TypeOK, Resting, WorkerType, Unclaimed, Claims, QueuedNeed, States
<1>2. BudgetLeft BY DEF Init, BudgetLeft, Resting, Unclaimed, IsClaimed
<1>3. IndexesAgree BY NeedsAssumption DEF Init, IndexesAgree, Unclaimed
<1>4. WgExact
  <2>1. {w \in Workers : wk[w].pc # "rest"} = {} BY DEF Init, Resting
  <2>2. Cardinality({w \in Workers : wk[w].pc # "rest"}) = 0 BY <2>1, FS_EmptySet
  <2>3. Len(work) = 0 /\ wg = 0 BY DEF Init
  <2> QED BY <2>2, <2>3 DEF WgExact
<1>5. DoneIsFinal BY DEF Init, DoneIsFinal
<1> QED BY <1>1, <1>2, <1>3, <1>4, <1>5 DEF IInv

\* The workers that hold a Need, and what one of them implies for the counter.
Busy == {w \in Workers : wk[w].pc # "rest"}

LEMMA BusyFinite == IsFiniteSet(Busy) /\ Cardinality(Busy) \in Nat
<1>1. IsFiniteSet(Busy) BY FiniteAssumption, FS_Subset DEF Busy
<1> QED BY <1>1, FS_CardinalityType

LEMMA BusyCounted ==
  ASSUME TypeOK, WgExact, NEW w \in Workers, wk[w].pc # "rest"
  PROVE  wg > 0
<1>1. Cardinality(Busy) # 0 BY BusyFinite, FS_EmptySet DEF Busy
<1>2. Cardinality(Busy) \in Nat /\ Len(work) \in Nat BY BusyFinite, LenProperties DEF TypeOK
<1> QED BY <1>1, <1>2 DEF WgExact, Busy

\* The machines of a walk are among the ones it may take.
LEMMA WalkWithin == \A s, ok, amount : Walk(s, ok, amount) \subseteq ok
BY DEF Walk

\* FindSpread chooses among the machines it collected.
LEMMA SpreadWithin == \A r : SpreadPicks(r) \subseteq r.cands
BY DEF SpreadPicks

LEMMA CreditableFree ==
  ASSUME TypeOK, NEW n \in Needs
  PROVE  /\ Creditable(n) \subseteq Machines
         /\ \A m \in Creditable(n) : claimedBy[m].need = 0
<1>1. in.credit[n] \in Seq(Machines) BY InputsAssumption DEF TypeOK, InputType
<1>2. Elems(in.credit[n]) \subseteq Machines BY <1>1, ElementOfSeq DEF Elems
<1> QED BY <1>2 DEF Creditable, IsClaimed

\* What a step of the pre-pass credits was free: both arms.
LEMMA SeededFree ==
  ASSUME TypeOK, NEW n \in Needs, SeedConfiguredSupply(n)
  PROVE  /\ \E ms \in SUBSET Machines :
               (\A m \in ms : claimedBy[m].need = 0) /\ SeedClaims(n, ms)
         /\ sameDomain' \in [Needs -> Domains \cup {0}]
         /\ consumed' \subseteq Machines
<1>1. CASE SeedPlain(n)
  <2> DEFINE ms == Walk(in.credit[n], Creditable(n), in.demand[n])
  <2>1. ms \subseteq Creditable(n) BY WalkWithin
  <2>2. SeedClaims(n, ms) BY <1>1 DEF SeedPlain
  <2>3. UNCHANGED <<sameDomain, consumed>> BY <1>1 DEF SeedPlain
  <2> QED BY <2>1, <2>2, <2>3, CreditableFree DEF TypeOK
<1>2. CASE SeedSame(n)
  <2>1. PICK d \in ChooseSameBucket(n) :
          /\ sameDomain' = [sameDomain EXCEPT ![n] = d]
          /\ SeedClaims(n, ClaimIncumbentFirst(n, d))
          /\ consumed' = consumed \cup
               Walk(Supply(n), Acquirable(n) \cap InDomain(d),
                    SubResources(in.demand[n], Sum(ClaimIncumbentFirst(n, d))))
    BY <1>2 DEF SeedSame
  <2>2. d \in Domains BY <2>1 DEF ChooseSameBucket
  <2>3. ClaimIncumbentFirst(n, d) \subseteq Creditable(n)
    BY WalkWithin DEF ClaimIncumbentFirst
  <2>4. InDomain(d) \subseteq Machines BY DEF InDomain
  <2>5. consumed' \subseteq Machines BY <2>1, <2>4, WalkWithin DEF TypeOK
  <2>6. sameDomain' \in [Needs -> Domains \cup {0}] BY <2>1, <2>2 DEF TypeOK
  <2> QED BY <2>1, <2>3, <2>5, <2>6, CreditableFree
<1>3. CASE SeedNowhere(n)
  <2>1. claimedBy' = claimedBy /\ claimedByNeed' = claimedByNeed
    BY <1>3 DEF SeedNowhere
  <2>2. SeedClaims(n, {})
    <3>1. claimedBy' = [m \in Machines |->
                          IF m \in {} THEN [need |-> n, ret |-> Retries] ELSE claimedBy[m]]
      BY <2>1 DEF TypeOK
    <3>2. claimedByNeed' = [claimedByNeed EXCEPT ![n] = @ \cup {}] BY <2>1 DEF TypeOK
    <3> QED BY <3>1, <3>2 DEF SeedClaims
  <2>3. UNCHANGED <<sameDomain, consumed>> BY <1>3 DEF SeedNowhere
  <2> QED BY <2>2, <2>3 DEF TypeOK
<1> QED BY <1>1, <1>2, <1>3 DEF SeedConfiguredSupply

\* Setting one worker's locals keeps the table of locals well formed.
LEMMA WorkerTable ==
  ASSUME TypeOK, NEW w \in Workers, NEW r \in WorkerType,
         r.pc # "rest" => r.need \in Needs,
         wk' = [wk EXCEPT ![w] = r]
  PROVE  /\ wk' \in [Workers -> WorkerType]
         /\ \A v \in Workers : wk'[v].pc # "rest" => wk'[v].need \in Needs
BY DEF TypeOK

LEMMA LocalType ==
  ASSUME TypeOK, NEW w \in Workers, NEW r \in WorkerType,
         r.pc # "rest" => r.need \in Needs, LocalStep(w, r)
  PROVE  TypeOK'
<1>1. /\ wk' \in [Workers -> WorkerType]
      /\ \A v \in Workers : wk'[v].pc # "rest" => wk'[v].need \in Needs
  BY WorkerTable DEF LocalStep
<1> QED BY <1>1 DEF TypeOK, LocalStep, state

\* What the provers need to know of the two literals in a worker's locals.
LEMMA One == 1 \in Nat \ {0} /\ 0 \in Nat
OBVIOUS

LEMMA RestingType == Resting \in WorkerType
BY DEF Resting, WorkerType, States

LEMMA RetryType ==
  ASSUME NEW r, r.need \in Needs, NEW st \in States, NEW ret \in Nat
  PROVE  /\ Retry(r, st, ret) \in WorkerType
         /\ Retry(r, st, ret).need \in Needs
         /\ Retry(r, st, ret).ret = ret
         /\ Retry(r, st, ret).pc = "check"
<1>1. Retry(r, st, ret) \in WorkerType
  BY RestingType, One, Zenon DEF Retry, WorkerType
<1>2. Retry(r, st, ret).need = r.need BY RestingType DEF Retry, WorkerType
<1>3. Retry(r, st, ret).ret = ret BY RestingType DEF Retry, WorkerType
<1>4. Retry(r, st, ret).pc = "check" BY RestingType DEF Retry, WorkerType
<1> QED BY <1>1, <1>2, <1>3, <1>4

LEMMA NextStateType ==
  ASSUME NEW r \in WorkerType, r.need \in Needs
  PROVE  /\ NextState(r) \in WorkerType
         /\ NextState(r).need \in Needs
         /\ NextState(r).pc \in {"check", "finish"}
<1>1. r.ret \in Nat BY DEF WorkerType
<1>2. CASE r.st = "Idle"
  BY <1>1, <1>2, RetryType DEF NextState, States
<1>3. CASE r.st # "Idle"
  BY <1>3 DEF NextState, WorkerType
<1> QED BY <1>2, <1>3

\* A machine of the pool a worker walks.
LEMMA PoolMember ==
  ASSUME TypeOK, NEW w \in Workers, wk[w].pc # "rest", ~PassEnded(wk[w])
  PROVE  PoolOf(wk[w])[wk[w].i] \in Machines
<1> DEFINE r == wk[w]
<1>1. r \in WorkerType /\ r.need \in Needs BY DEF TypeOK
<1>2. r.st \in States /\ r.i \in Nat \ {0} BY <1>1 DEF WorkerType
<1>3. in.pool[r.need][r.st] \in Seq(Machines)
  BY <1>1, <1>2, InputsAssumption DEF TypeOK, InputType
<1>4. PoolOf(r) \in Seq(Machines) BY <1>3 DEF PoolOf
<1>5. r.i \in 1 .. Len(PoolOf(r)) BY <1>2, <1>4, LenProperties DEF PassEnded
<1> HIDE DEF r
<1> QED BY <1>4, <1>5, ElementOfSeq DEF r

LEMMA BucketType ==
  ASSUME TypeOK, NEW r \in WorkerType, r.need \in Needs
  PROVE  Bucket(r) \in Buckets
<1>1. in.fp[r.need] \in Profiles BY InputsAssumption DEF TypeOK, InputType
<1>2. r.st \in States /\ r.dom \in Domains \cup {0} BY DEF WorkerType
<1> QED BY <1>1, <1>2 DEF Bucket, Buckets

\* A proposal wins machines of the snapshot; an evicted claim had a Need.
LEMMA PlanType ==
  ASSUME TypeOK, NEW r \in WorkerType, r.need \in Needs
  PROVE  /\ newClaim(r) \subseteq Machines /\ displace(r) \subseteq Machines
         /\ \A m \in newClaim(r) : claimedBy[m].need = 0
         /\ \A m \in displace(r) : /\ claimedBy[m].need \in Needs
                                   /\ Less(claimedBy[m].need, r.need)
<1>1. r.cands \subseteq Machines BY DEF WorkerType
<1> QED BY <1>1 DEF newClaim, displace, IsClaimed, TypeOK, Claims

LEMMA DisplacedType ==
  ASSUME TypeOK, BudgetLeft, NEW r \in WorkerType, r.need \in Needs
  PROVE  Displaced(r) \subseteq QueuedNeed
<1>1. \A m \in displace(r) : /\ claimedBy[m].need \in Needs
                             /\ claimedBy[m].ret \in Nat /\ claimedBy[m].ret > 0
  BY PlanType DEF displace, IsClaimed, BudgetLeft, TypeOK, Claims
<1>2. \A m \in displace(r) : claimedBy[m].ret - 1 \in Nat BY <1>1
<1> QED BY <1>1, <1>2 DEF Displaced, QueuedNeed

-----------------------------------------------------------------------------
(* Types.                                                                  *)

LEMMA TypeSeed ==
  ASSUME IInv, NEW n \in Needs, SeedConfiguredSupply(n)
  PROVE  TypeOK'
<1>0. TypeOK BY DEF IInv
<1>1. PICK ms \in SUBSET Machines : SeedClaims(n, ms) BY <1>0, SeededFree
<1>2. claimedBy' \in [Machines -> Claims]
  BY <1>0, <1>1, BoundsAssumption DEF SeedClaims, TypeOK, Claims
<1>3. claimedByNeed' \in [Needs -> SUBSET Machines]
  BY <1>0, <1>1 DEF SeedClaims, TypeOK
<1>4. sameDomain' \in [Needs -> Domains \cup {0}] /\ consumed' \subseteq Machines
  BY <1>0, SeededFree
<1>5. main' \in {"seed", "feed", "wait", "done"} /\ todo' \subseteq Needs
  BY <1>0 DEF SeedConfiguredSupply, TypeOK
<1>6. UNCHANGED <<in, bucketSeq, work, wg, wk, spent, requeues>>
  BY DEF SeedConfiguredSupply
<1> QED BY <1>0, <1>2, <1>3, <1>4, <1>5, <1>6 DEF TypeOK

LEMMA PushType ==
  ASSUME TypeOK, NEW qn \in QueuedNeed, Push(qn)
  PROVE  work' \in Seq(QueuedNeed) /\ wg' \in Nat
BY AppendProperties DEF Push, TypeOK

LEMMA TypeFeed ==
  ASSUME IInv, NEW n \in Needs, Feed(n)
  PROVE  TypeOK'
<1>0. TypeOK BY DEF IInv
<1>1. work' \in Seq(QueuedNeed) /\ wg' \in Nat
  <2>1. [need |-> n, ret |-> Retries] \in QueuedNeed BY BoundsAssumption DEF QueuedNeed
  <2>2. CASE computeDeficit(n) = 0 BY <1>0, <2>2 DEF Feed, TypeOK
  <2>3. CASE computeDeficit(n) # 0
    <3>1. Push([need |-> n, ret |-> Retries]) BY <2>3 DEF Feed
    <3> QED BY <1>0, <2>1, <3>1, PushType
  <2> QED BY <2>2, <2>3
<1>2. main' \in {"seed", "feed", "wait", "done"} /\ todo' \subseteq Needs
  BY <1>0 DEF Feed, TypeOK
<1>3. UNCHANGED <<in, state, consumed, wk, spent, requeues>> BY DEF Feed
<1> QED BY <1>0, <1>1, <1>2, <1>3 DEF TypeOK, state

LEMMA TypeWorker ==
  ASSUME IInv, NEW w \in Workers, processNeed(w)
  PROVE  TypeOK'
<1> DEFINE r == wk[w]
<1>0. TypeOK /\ BudgetLeft /\ WgExact BY DEF IInv
<1>r. r \in WorkerType /\ (r.pc # "rest" => r.need \in Needs) BY <1>0 DEF TypeOK
<1>f. r.ret \in Nat /\ r.st \in States BY <1>r DEF WorkerType
<1>1. CASE Take(w)
  <2>1. Head(work) \in QueuedNeed /\ Tail(work) \in Seq(QueuedNeed)
    BY <1>0, <1>1, HeadTailProperties DEF Take, TypeOK
  <2> DEFINE q == [Resting EXCEPT !.pc = "check", !.need = Head(work).need,
                                  !.ret = Head(work).ret]
  <2>3. Head(work).need \in Needs /\ Head(work).ret \in Nat BY <2>1 DEF QueuedNeed
  <2>4. q \in WorkerType BY <2>3, RestingType, Zenon DEF WorkerType
  <2>5. q.need \in Needs BY <2>3, RestingType DEF WorkerType
  <2>6. wk' = [wk EXCEPT ![w] = q] BY <1>1 DEF Take
  <2> HIDE DEF q
  <2>7. /\ wk' \in [Workers -> WorkerType]
        /\ \A v \in Workers : wk'[v].pc # "rest" => wk'[v].need \in Needs
    BY <1>0, <2>4, <2>5, <2>6, WorkerTable
  <2>8. /\ work' = Tail(work)
        /\ UNCHANGED <<in, state, consumed, main, todo, wg, spent, requeues>>
    BY <1>1 DEF Take
  <2> QED BY <1>0, <2>1, <2>7, <2>8 DEF TypeOK, state
<1>2. CASE CheckDeficit(w)
  <2>1. r.need \in Needs /\ r.pc = "check" BY <1>2, <1>r DEF CheckDeficit, AtPC
  <2>2. computeDeficit(r.need) \in Nat BY <1>0, <2>1, DeficitType
  <2>3. sameDomain[r.need] \in Domains \cup {0} BY <1>0, <2>1 DEF TypeOK
  <2>4. FirstPass(r.need) \in {"unclaimed", "displaceable", "score", "spread", "domain"}
    BY DEF FirstPass
  <2> DEFINE a == [r EXCEPT !.pc = "finish"]
             b == [r EXCEPT !.pc = "scan", !.left = computeDeficit(r.need),
                            !.pass = FirstPass(r.need), !.i = 1, !.cands = {},
                            !.dom = sameDomain[r.need]]
  <2>5. a \in WorkerType /\ a.need \in Needs BY <1>r, <2>1 DEF WorkerType
  <2>6. b \in WorkerType /\ b.need \in Needs
    <3>1. b \in WorkerType BY <1>r, <2>2, <2>3, <2>4, One, Zenon DEF WorkerType
    <3>2. b.need \in Needs BY <1>r, <2>1, Zenon DEF WorkerType
    <3> QED BY <3>1, <3>2
  <2>7. LocalStep(w, a) \/ LocalStep(w, b) BY <1>2 DEF CheckDeficit
  <2> HIDE DEF a, b
  <2> QED BY <1>0, <2>5, <2>6, <2>7, LocalType
<1>3. CASE ScanMachine(w)
  <2> DEFINE m == PoolOf(r)[r.i]
             a == [r EXCEPT !.i = @ + 1]
             b == [r EXCEPT !.i = @ + 1, !.cands = @ \cup {m},
                            !.left = IF r.pass \in {"score", "spread"} THEN @
                                     ELSE SubResources(@, in.alloc[m])]
  <2>1. r.need \in Needs /\ r.pc = "scan" /\ ~PassEnded(r)
    BY <1>3, <1>r DEF ScanMachine, AtPC
  <2>2. m \in Machines BY <1>0, <2>1, PoolMember
  <2>3. in.alloc[m] \in Nat
    BY <1>0, <2>2, InputsAssumption, BoundsAssumption DEF TypeOK, InputType
  <2>4. r.left \in Nat /\ r.i \in Nat \ {0} /\ r.cands \subseteq Machines
    BY <1>r DEF WorkerType
  <2>5. SubResources(r.left, in.alloc[m]) \in Nat BY <2>3, <2>4 DEF SubResources
  <2> HIDE DEF m
  <2>6. a \in WorkerType /\ a.need \in Needs BY <1>r, <2>1, <2>4 DEF WorkerType
  <2>7. b \in WorkerType /\ b.need \in Needs
    <3>1. r.i + 1 \in Nat \ {0} /\ r.cands \cup {m} \subseteq Machines BY <2>2, <2>4
    <3>2. (IF r.pass \in {"score", "spread"} THEN r.left
           ELSE SubResources(r.left, in.alloc[m])) \in Nat
      BY <2>4, <2>5
    <3>3. b \in WorkerType BY <1>r, <3>1, <3>2, Zenon DEF WorkerType
    <3>4. b.need \in Needs BY <1>r, <2>1, Zenon DEF WorkerType
    <3> QED BY <3>3, <3>4
  <2>8. LocalStep(w, a) \/ LocalStep(w, b) BY <1>3 DEF ScanMachine, m
  <2> HIDE DEF a, b
  <2> QED BY <1>0, <2>6, <2>7, <2>8, LocalType
<1>4. CASE SecondPass(w)
  <2> DEFINE a == [r EXCEPT !.pass = "displaceable", !.i = 1]
  <2>1. r.need \in Needs BY <1>4, <1>r DEF SecondPass, AtPC
  <2>2. a \in WorkerType /\ a.need \in Needs BY <1>r, <2>1, One, Zenon DEF WorkerType
  <2>3. LocalStep(w, a) BY <1>4 DEF SecondPass
  <2> HIDE DEF a
  <2> QED BY <1>0, <2>2, <2>3, LocalType
<1>5. CASE ChooseFallback(w)
  <2>1. r.need \in Needs /\ r.cands \subseteq Machines
    BY <1>5, <1>r DEF ChooseFallback, AtPC, WorkerType
  <2>2. PICK d \in {in.dom[m] : m \in r.cands} :
          LocalStep(w, [r EXCEPT !.pass = "domain", !.i = 1, !.cands = {}, !.dom = d])
    BY <1>5 DEF ChooseFallback
  <2>3. d \in Domains BY <1>0, <2>1, <2>2, InputsAssumption DEF TypeOK, InputType
  <2> DEFINE a == [r EXCEPT !.pass = "domain", !.i = 1, !.cands = {}, !.dom = d]
  <2>4. a \in WorkerType /\ a.need \in Needs BY <1>r, <2>1, <2>3, One, Zenon DEF WorkerType
  <2>5. LocalStep(w, a) BY <2>2
  <2> HIDE DEF a
  <2> QED BY <1>0, <2>4, <2>5, LocalType
<1>13. CASE ChooseSpread(w)
  <2> DEFINE a == [r EXCEPT !.pass = "domain", !.cands = SpreadPicks(r)]
  <2>1. r.need \in Needs /\ r.cands \subseteq Machines
    BY <1>13, <1>r DEF ChooseSpread, AtPC, WorkerType
  <2>2. SpreadPicks(r) \in SUBSET Machines BY <2>1, SpreadWithin
  <2>3. a \in WorkerType /\ a.need \in Needs BY <1>r, <2>1, <2>2, Zenon DEF WorkerType
  <2>4. LocalStep(w, a) BY <1>13 DEF ChooseSpread
  <2> HIDE DEF a
  <2> QED BY <1>0, <2>3, <2>4, LocalType
<1>6. CASE NoCandidates(w)
  <2>1. r.need \in Needs BY <1>6, <1>r DEF NoCandidates, AtPC
  <2>2. LocalStep(w, NextState(r)) BY <1>6 DEF NoCandidates
  <2> QED BY <1>0, <1>r, <2>1, <2>2, NextStateType, LocalType
<1>7. CASE ReadBucketSeq(w)
  <2>1. r.need \in Needs BY <1>7, <1>r DEF ReadBucketSeq, AtPC
  <2>2. bucketSeq[Bucket(r)] \in Nat BY <1>0, <1>r, <2>1, BucketType DEF TypeOK
  <2> DEFINE a == [r EXCEPT !.pc = "propose", !.obs = bucketSeq[Bucket(r)]]
  <2>3. a \in WorkerType /\ a.need \in Needs BY <1>r, <2>1, <2>2 DEF WorkerType
  <2>4. LocalStep(w, a) BY <1>7 DEF ReadBucketSeq
  <2> HIDE DEF a
  <2> QED BY <1>0, <2>3, <2>4, LocalType
<1>8. CASE ProposeConflict(w)
  <2>1. r.need \in Needs /\ r.pc = "propose" BY <1>8, <1>r DEF ProposeConflict, AtPC
  <2>2. r.ret - 1 \in Nat BY <1>0, <1>f, <2>1 DEF BudgetLeft
  <2>3. /\ Retry(r, r.st, r.ret - 1) \in WorkerType
        /\ Retry(r, r.st, r.ret - 1).need \in Needs
    BY <1>f, <2>1, <2>2, RetryType
  <2>4. wk' = [wk EXCEPT ![w] = Retry(r, r.st, r.ret - 1)] BY <1>8 DEF ProposeConflict
  <2>5. /\ wk' \in [Workers -> WorkerType]
        /\ \A v \in Workers : wk'[v].pc # "rest" => wk'[v].need \in Needs
    BY <1>0, <2>3, <2>4, WorkerTable
  <2>6. spent' \subseteq Needs BY <1>0, <1>8, <2>1 DEF ProposeConflict, TypeOK
  <2>7. UNCHANGED <<in, state, consumed, main, todo, work, wg, requeues>>
    BY <1>8 DEF ProposeConflict
  <2> QED BY <1>0, <2>5, <2>6, <2>7 DEF TypeOK, state
<1>9. CASE ProposeCommit(w)
  <2> DEFINE out == Displaced(r)
             a == [Retry(r, r.st, r.ret) EXCEPT !.pc = "push", !.disp = {q \in out : q.ret > 0}]
  <2>1. r.need \in Needs BY <1>9, <1>r DEF ProposeCommit, AtPC
  <2>2. out \subseteq QueuedNeed BY <1>0, <1>r, <2>1, DisplacedType
  <2> HIDE DEF out
  <2>3. /\ Retry(r, r.st, r.ret) \in WorkerType
        /\ Retry(r, r.st, r.ret).need \in Needs
    BY <1>f, <2>1, RetryType
  <2>4. a \in WorkerType /\ a.need \in Needs BY <2>2, <2>3 DEF WorkerType
  <2>5. wk' = [wk EXCEPT ![w] = a] BY <1>9 DEF ProposeCommit, out
  <2> HIDE DEF a
  <2>6. /\ wk' \in [Workers -> WorkerType]
        /\ \A v \in Workers : wk'[v].pc # "rest" => wk'[v].need \in Needs
    BY <1>0, <2>4, <2>5, WorkerTable
  <2>7. newClaim(r) \subseteq Machines /\ displace(r) \subseteq Machines
    BY <1>0, <1>r, <2>1, PlanType
  <2>8. Commit(r) BY <1>9 DEF ProposeCommit
  <2>9. claimedBy' \in [Machines -> Claims]
    BY <1>0, <1>f, <2>1, <2>8 DEF Commit, TypeOK, Claims
  <2>10. claimedByNeed' \in [Needs -> SUBSET Machines]
    BY <1>0, <2>7, <2>8 DEF Commit, TypeOK
  <2>11. bucketSeq' \in [Buckets -> Nat]
    BY <1>0, <1>r, <2>1, <2>8, BucketType DEF Commit, TypeOK
  <2>12. spent' \subseteq Needs
    BY <1>0, <1>9, <2>2 DEF ProposeCommit, TypeOK, QueuedNeed, out
  <2>13. UNCHANGED <<in, sameDomain, consumed, main, todo, work, wg, requeues>>
    BY <1>9 DEF ProposeCommit
  <2> QED BY <1>0, <2>6, <2>9, <2>10, <2>11, <2>12, <2>13 DEF TypeOK
<1>10. CASE PushDisplaced(w)
  <2>1. r.need \in Needs /\ r.disp \subseteq QueuedNeed
    BY <1>10, <1>r DEF PushDisplaced, AtPC, WorkerType
  <2>2. PICK q \in r.disp : /\ Push(q)
                            /\ wk' = [wk EXCEPT ![w].disp = @ \ {q}]
                            /\ requeues' = [requeues EXCEPT ![q.need] = @ + 1]
    BY <1>10 DEF PushDisplaced
  <2>3. q \in QueuedNeed /\ q.need \in Needs BY <2>1, <2>2 DEF QueuedNeed
  <2>4. work' \in Seq(QueuedNeed) /\ wg' \in Nat BY <1>0, <2>2, <2>3, PushType
  <2>5. requeues' \in [Needs -> Nat] BY <1>0, <2>2, <2>3 DEF TypeOK
  <2> DEFINE a == [r EXCEPT !.disp = @ \ {q}]
  <2>6. a \in WorkerType /\ a.need \in Needs BY <1>r, <2>1 DEF WorkerType
  <2>7. wk' = [wk EXCEPT ![w] = a] BY <2>2
  <2> HIDE DEF a
  <2>8. /\ wk' \in [Workers -> WorkerType]
        /\ \A v \in Workers : wk'[v].pc # "rest" => wk'[v].need \in Needs
    BY <1>0, <2>6, <2>7, WorkerTable
  <2>9. UNCHANGED <<in, state, consumed, main, todo, spent>> BY <1>10 DEF PushDisplaced
  <2> QED BY <1>0, <2>4, <2>5, <2>8, <2>9 DEF TypeOK, state
<1>11. CASE AfterCommit(w)
  <2>1. r.need \in Needs BY <1>11, <1>r DEF AfterCommit, AtPC
  <2>2. LocalStep(w, NextState(r)) \/ LocalStep(w, Retry(r, r.st, r.ret))
    BY <1>11 DEF AfterCommit
  <2>3. Retry(r, r.st, r.ret) \in WorkerType /\ Retry(r, r.st, r.ret).need \in Needs
    BY <1>f, <2>1, RetryType
  <2> QED BY <1>0, <1>r, <2>1, <2>2, <2>3, NextStateType, LocalType
<1>12. CASE Finish(w)
  <2>1. wg > 0 BY <1>0, <1>12, BusyCounted DEF Finish, AtPC
  <2>2. wg' \in Nat BY <1>0, <1>12, <2>1 DEF Finish, TypeOK
  <2>3. wk' = [wk EXCEPT ![w] = Resting] BY <1>12 DEF Finish
  <2>4. Resting.pc = "rest" BY DEF Resting
  <2>5. /\ wk' \in [Workers -> WorkerType]
        /\ \A v \in Workers : wk'[v].pc # "rest" => wk'[v].need \in Needs
    BY <1>0, <2>3, <2>4, RestingType, WorkerTable
  <2>6. UNCHANGED <<in, state, consumed, main, todo, work, spent, requeues>>
    BY <1>12 DEF Finish
  <2> QED BY <1>0, <2>2, <2>5, <2>6 DEF TypeOK, state
<1> QED BY <1>1, <1>2, <1>3, <1>4, <1>5, <1>6, <1>7, <1>8, <1>9, <1>10, <1>11, <1>12, <1>13
        DEF processNeed

LEMMA TypeStep == IInv /\ [Next]_vars => TypeOK'
<1> SUFFICES ASSUME IInv, [Next]_vars PROVE TypeOK' OBVIOUS
<1>0. TypeOK BY DEF IInv
<1>1. CASE \E n \in Needs : SeedConfiguredSupply(n) BY <1>1, TypeSeed
<1>2. CASE \E n \in Needs : Feed(n) BY <1>2, TypeFeed
<1>3. CASE Barrier BY <1>0, <1>3 DEF Barrier, TypeOK, state
<1>4. CASE \E w \in Workers : processNeed(w) BY <1>4, TypeWorker
<1>5. CASE UNCHANGED vars BY <1>0, <1>5 DEF vars, state, TypeOK
<1> QED BY <1>1, <1>2, <1>3, <1>4, <1>5 DEF Next, RunCycle, Returned

-----------------------------------------------------------------------------
(* Claims.                                                                 *)

\* The claimed set changes in two ways only: the pre-pass credits free
\* machines, and the broker commits a worker's proposal.
LEMMA ClaimChange ==
  ASSUME IInv, [Next]_vars
  PROVE  \/ UNCHANGED <<claimedBy, claimedByNeed>>
         \/ \E n \in Needs, ms \in SUBSET Machines :
               (\A m \in ms : claimedBy[m].need = 0) /\ SeedClaims(n, ms)
         \/ \E w \in Workers : ProposeCommit(w)
<1>0. TypeOK BY DEF IInv
<1>1. CASE \E n \in Needs : SeedConfiguredSupply(n) BY <1>0, <1>1, SeededFree
<1>2. CASE \E n \in Needs : Feed(n) BY <1>2 DEF Feed, state
<1>3. CASE Barrier BY <1>3 DEF Barrier, state
<1>4. CASE \E w \in Workers : processNeed(w)
  <2>1. PICK w \in Workers : processNeed(w) BY <1>4
  <2>2. ~ProposeCommit(w) => UNCHANGED state
    BY <2>1 DEF processNeed, Take, CheckDeficit, ScanMachine, SecondPass, ChooseFallback,
       ChooseSpread, NoCandidates, ReadBucketSeq, ProposeConflict, PushDisplaced, AfterCommit,
       Finish, LocalStep
  <2> QED BY <2>1, <2>2 DEF state
<1>5. CASE UNCHANGED vars BY <1>5 DEF vars, state
<1> QED BY <1>1, <1>2, <1>3, <1>4, <1>5 DEF Next, RunCycle, Returned

\* What the broker knows of the worker whose proposal it commits.
LEMMA Committer ==
  ASSUME IInv, NEW w \in Workers, ProposeCommit(w)
  PROVE  /\ wk[w] \in WorkerType /\ wk[w].need \in Needs
         /\ wk[w].ret \in Nat /\ wk[w].ret > 0
         /\ Commit(wk[w])
<1>1. wk[w].pc = "propose" /\ Commit(wk[w]) BY DEF ProposeCommit, AtPC
<1>2. wk[w] \in WorkerType /\ wk[w].need \in Needs BY <1>1 DEF IInv, TypeOK
<1>3. wk[w].ret \in Nat BY <1>2 DEF WorkerType
<1> QED BY <1>1, <1>2, <1>3 DEF IInv, BudgetLeft

LEMMA IndexStep == IInv /\ [Next]_vars => IndexesAgree'
<1> SUFFICES ASSUME IInv, [Next]_vars PROVE IndexesAgree' OBVIOUS
<1>0. TypeOK /\ IndexesAgree BY DEF IInv
<1>1. CASE UNCHANGED <<claimedBy, claimedByNeed>> BY <1>0, <1>1 DEF IndexesAgree
<1>2. CASE \E n \in Needs, ms \in SUBSET Machines :
             (\A m \in ms : claimedBy[m].need = 0) /\ SeedClaims(n, ms)
  <2>1. PICK n \in Needs, ms \in SUBSET Machines :
          (\A m \in ms : claimedBy[m].need = 0) /\ SeedClaims(n, ms)
    BY <1>2
  <2> SUFFICES ASSUME NEW m \in Machines, NEW o \in Needs
               PROVE  m \in claimedByNeed'[o] <=> claimedBy'[m].need = o
    BY DEF IndexesAgree
  <2>2. m \in claimedByNeed[o] <=> claimedBy[m].need = o BY <1>0 DEF IndexesAgree
  <2>3. claimedBy'[m].need = IF m \in ms THEN n ELSE claimedBy[m].need
    BY <2>1 DEF SeedClaims
  <2>4. claimedByNeed'[o] = IF o = n THEN claimedByNeed[o] \cup ms ELSE claimedByNeed[o]
    BY <1>0, <2>1 DEF SeedClaims, TypeOK
  <2>5. o # 0 BY NeedsAssumption
  <2> QED BY <2>1, <2>2, <2>3, <2>4, <2>5
<1>3. CASE \E w \in Workers : ProposeCommit(w)
  <2>1. PICK w \in Workers : ProposeCommit(w) BY <1>3
  <2> DEFINE r == wk[w]
  <2>2. r \in WorkerType /\ r.need \in Needs /\ Commit(r) BY <2>1, Committer
  <2> HIDE DEF r
  <2>3. /\ newClaim(r) \subseteq Machines /\ displace(r) \subseteq Machines
        /\ \A m \in newClaim(r) : claimedBy[m].need = 0
        /\ \A m \in displace(r) : claimedBy[m].need \in Needs
    BY <1>0, <2>2, PlanType
  <2> SUFFICES ASSUME NEW m \in Machines, NEW o \in Needs
               PROVE  m \in claimedByNeed'[o] <=> claimedBy'[m].need = o
    BY DEF IndexesAgree
  <2>4. m \in claimedByNeed[o] <=> claimedBy[m].need = o BY <1>0 DEF IndexesAgree
  <2>5. claimedBy'[m].need =
          IF m \in newClaim(r) \cup displace(r) THEN r.need ELSE claimedBy[m].need
    BY <2>2 DEF Commit
  <2>6. claimedByNeed'[o] =
          IF o = r.need THEN claimedByNeed[o] \cup (newClaim(r) \cup displace(r))
          ELSE claimedByNeed[o] \ {x \in displace(r) : claimedBy[x].need = o}
    BY <2>2 DEF Commit
  <2>7. o # 0 BY NeedsAssumption
  <2>8. CASE o = r.need BY <2>4, <2>5, <2>6, <2>8
  <2>9. CASE o # r.need BY <2>3, <2>4, <2>5, <2>6, <2>7, <2>9
  <2> QED BY <2>8, <2>9
<1> QED BY <1>1, <1>2, <1>3, ClaimChange

LEMMA EvictStep ==
  ASSUME IInv, [Next]_vars, NEW m \in Machines,
         IsClaimed(m), claimedBy'[m] # claimedBy[m]
  PROVE  claimedBy'[m].need # 0 /\ Less(claimedBy[m].need, claimedBy'[m].need)
<1>0. TypeOK BY DEF IInv
<1>1. ASSUME NEW n \in Needs, NEW ms \in SUBSET Machines,
             \A x \in ms : claimedBy[x].need = 0, SeedClaims(n, ms)
      PROVE  FALSE
  BY <1>1 DEF SeedClaims, IsClaimed
<1>2. ASSUME NEW w \in Workers, ProposeCommit(w)
      PROVE  claimedBy'[m].need # 0 /\ Less(claimedBy[m].need, claimedBy'[m].need)
  <2> DEFINE r == wk[w]
  <2>1. r \in WorkerType /\ r.need \in Needs /\ Commit(r) BY <1>2, Committer
  <2> HIDE DEF r
  <2>2. m \in newClaim(r) \cup displace(r) BY <2>1 DEF Commit
  <2>3. m \in displace(r) BY <2>2 DEF newClaim
  <2>4. claimedBy'[m].need = r.need BY <2>1, <2>2 DEF Commit
  <2>5. Less(claimedBy[m].need, r.need) BY <2>3 DEF displace
  <2> QED BY <2>1, <2>4, <2>5, NeedsAssumption
<1> QED BY <1>1, <1>2, ClaimChange

-----------------------------------------------------------------------------
(* Retry budgets.                                                          *)

\* The locals a worker step may write: a search or a proposal keeps a budget.
LEMMA BudgetTable ==
  ASSUME TypeOK, BudgetLeft, NEW w \in Workers, NEW r,
         r.pc \in {"scan", "propose", "push"} => r.ret > 0,
         wk' = [wk EXCEPT ![w] = r]
  PROVE  \A v \in Workers : wk'[v].pc \in {"scan", "propose", "push"} => wk'[v].ret > 0
<1> SUFFICES ASSUME NEW v \in Workers, wk'[v].pc \in {"scan", "propose", "push"}
             PROVE  wk'[v].ret > 0
  OBVIOUS
<1>1. CASE v = w BY <1>1 DEF TypeOK
<1>2. CASE v # w
  <2>1. wk'[v] = wk[v] BY <1>2 DEF TypeOK
  <2> QED BY <2>1 DEF BudgetLeft
<1> QED BY <1>1, <1>2

\* Every step of a worker but its last leaves it holding a Need, with a
\* budget if it is searching or proposing.
LEMMA WorkerHolds ==
  ASSUME IInv, NEW w \in Workers, processNeed(w), ~Finish(w)
  PROVE  \E q : /\ q.pc \in {"scan", "propose", "push"} => q.ret > 0
               /\ q.pc # "rest"
               /\ wk' = [wk EXCEPT ![w] = q]
<1> DEFINE r == wk[w]
           Kept(q) == q.pc \in {"scan", "propose", "push"} => q.ret > 0
<1>0. TypeOK /\ BudgetLeft BY DEF IInv
<1>r. r \in WorkerType /\ Kept(r) BY <1>0 DEF TypeOK, BudgetLeft
<1>f. r.ret \in Nat /\ r.st \in States BY <1>r DEF WorkerType
<1>n. r.pc # "rest" => r.need \in Needs BY <1>0 DEF TypeOK
<1> SUFFICES \E q : Kept(q) /\ q.pc # "rest" /\ wk' = [wk EXCEPT ![w] = q]
  OBVIOUS
<1>1. CASE Take(w)
  <2> DEFINE q == [Resting EXCEPT !.pc = "check", !.need = Head(work).need,
                                  !.ret = Head(work).ret]
  <2>1. q.pc = "check" BY RestingType DEF WorkerType
  <2>2. wk' = [wk EXCEPT ![w] = q] BY <1>1 DEF Take
  <2> QED BY <2>1, <2>2
<1>2. CASE CheckDeficit(w)
  <2> DEFINE a == [r EXCEPT !.pc = "finish"]
             b == [r EXCEPT !.pc = "scan", !.left = computeDeficit(r.need),
                            !.pass = FirstPass(r.need), !.i = 1, !.cands = {},
                            !.dom = sameDomain[r.need]]
  <2>1. a.pc = "finish" BY <1>r DEF WorkerType
  <2>2. b.ret = r.ret /\ b.pc = "scan" BY <1>r, Zenon DEF WorkerType
  <2>3. CASE r.ret = 0 \/ computeDeficit(r.need) = 0
    <3>1. wk' = [wk EXCEPT ![w] = a] BY <1>2, <2>3 DEF CheckDeficit, LocalStep
    <3> QED BY <2>1, <3>1
  <2>4. CASE ~(r.ret = 0 \/ computeDeficit(r.need) = 0)
    <3>1. wk' = [wk EXCEPT ![w] = b] BY <1>2, <2>4 DEF CheckDeficit, LocalStep
    <3>2. b.ret > 0 BY <1>f, <2>2, <2>4
    <3> HIDE DEF b
    <3> QED BY <2>2, <3>1, <3>2
  <2> QED BY <2>3, <2>4
<1>3. CASE ScanMachine(w)
  <2> DEFINE m == PoolOf(r)[r.i]
             a == [r EXCEPT !.i = @ + 1]
             b == [r EXCEPT !.i = @ + 1, !.cands = @ \cup {m},
                            !.left = IF r.pass \in {"score", "spread"} THEN @
                                     ELSE SubResources(@, in.alloc[m])]
  <2>1. a.pc = r.pc /\ a.ret = r.ret BY <1>r, Zenon DEF WorkerType
  <2>2. b.pc = r.pc /\ b.ret = r.ret BY <1>r, Zenon DEF WorkerType
  <2>3. wk' = [wk EXCEPT ![w] = a] \/ wk' = [wk EXCEPT ![w] = b]
    BY <1>3 DEF ScanMachine, LocalStep
  <2>4. r.pc = "scan" BY <1>3 DEF ScanMachine, AtPC
  <2> HIDE DEF a, b
  <2> QED BY <1>r, <2>1, <2>2, <2>3, <2>4
<1>4. CASE SecondPass(w)
  <2> DEFINE a == [r EXCEPT !.pass = "displaceable", !.i = 1]
  <2>1. a.pc = r.pc /\ a.ret = r.ret BY <1>r, Zenon DEF WorkerType
  <2>2. wk' = [wk EXCEPT ![w] = a] /\ r.pc = "scan"
    BY <1>4 DEF SecondPass, LocalStep, AtPC
  <2> HIDE DEF a
  <2> QED BY <1>r, <2>1, <2>2
<1>5. CASE ChooseFallback(w)
  <2>1. PICK d : wk' = [wk EXCEPT ![w] =
                          [r EXCEPT !.pass = "domain", !.i = 1, !.cands = {}, !.dom = d]]
    BY <1>5 DEF ChooseFallback, LocalStep
  <2> DEFINE a == [r EXCEPT !.pass = "domain", !.i = 1, !.cands = {}, !.dom = d]
  <2>2. a.pc = r.pc /\ a.ret = r.ret BY <1>r, Zenon DEF WorkerType
  <2>3. wk' = [wk EXCEPT ![w] = a] BY <2>1
  <2>4. r.pc = "scan" BY <1>5 DEF ChooseFallback, AtPC
  <2> HIDE DEF a
  <2> QED BY <1>r, <2>2, <2>3, <2>4
<1>13. CASE ChooseSpread(w)
  <2> DEFINE a == [r EXCEPT !.pass = "domain", !.cands = SpreadPicks(r)]
  <2>1. a.pc = r.pc /\ a.ret = r.ret BY <1>r, Zenon DEF WorkerType
  <2>2. wk' = [wk EXCEPT ![w] = a] /\ r.pc = "scan"
    BY <1>13 DEF ChooseSpread, LocalStep, AtPC
  <2> HIDE DEF a
  <2> QED BY <1>r, <2>1, <2>2
<1>6. CASE NoCandidates(w)
  <2>1. r.need \in Needs BY <1>6, <1>n DEF NoCandidates, AtPC
  <2>2. NextState(r).pc \in {"check", "finish"} BY <1>r, <2>1, NextStateType
  <2>3. wk' = [wk EXCEPT ![w] = NextState(r)] BY <1>6 DEF NoCandidates, LocalStep
  <2> QED BY <2>2, <2>3
<1>7. CASE ReadBucketSeq(w)
  <2> DEFINE a == [r EXCEPT !.pc = "propose", !.obs = bucketSeq[Bucket(r)]]
  <2>1. a.ret = r.ret /\ a.pc = "propose" BY <1>r, Zenon DEF WorkerType
  <2>2. wk' = [wk EXCEPT ![w] = a] BY <1>7 DEF ReadBucketSeq, LocalStep
  <2>3. r.ret > 0 BY <1>7, <1>r DEF ReadBucketSeq, AtPC
  <2> HIDE DEF a
  <2> QED BY <2>1, <2>2, <2>3
<1>8. CASE ProposeConflict(w)
  <2>1. r.need \in Needs /\ r.pc = "propose" BY <1>8, <1>n DEF ProposeConflict, AtPC
  <2>2. r.ret - 1 \in Nat BY <1>r, <1>f, <2>1
  <2>3. Retry(r, r.st, r.ret - 1).pc = "check" BY <1>f, <2>1, <2>2, RetryType
  <2>4. wk' = [wk EXCEPT ![w] = Retry(r, r.st, r.ret - 1)] BY <1>8 DEF ProposeConflict
  <2> QED BY <2>3, <2>4
<1>9. CASE ProposeCommit(w)
  <2> DEFINE q == Retry(r, r.st, r.ret)
             a == [q EXCEPT !.pc = "push", !.disp = {x \in Displaced(r) : x.ret > 0}]
  <2>1. r.need \in Needs /\ r.pc = "propose" BY <1>9, <1>n DEF ProposeCommit, AtPC
  <2>2. q \in WorkerType /\ q.ret = r.ret BY <1>f, <2>1, RetryType
  <2>3. wk' = [wk EXCEPT ![w] = a] BY <1>9 DEF ProposeCommit
  <2> HIDE DEF q
  <2>4. a.ret = q.ret /\ a.pc = "push" BY <2>2, Zenon DEF WorkerType
  <2>5. r.ret > 0 BY <1>r, <2>1
  <2> HIDE DEF a
  <2> QED BY <2>2, <2>3, <2>4, <2>5
<1>10. CASE PushDisplaced(w)
  <2>1. PICK x : wk' = [wk EXCEPT ![w].disp = @ \ {x}] BY <1>10 DEF PushDisplaced
  <2> DEFINE a == [r EXCEPT !.disp = @ \ {x}]
  <2>2. a.pc = r.pc /\ a.ret = r.ret BY <1>r, Zenon DEF WorkerType
  <2>3. wk' = [wk EXCEPT ![w] = a] BY <2>1
  <2>4. r.pc = "push" BY <1>10 DEF PushDisplaced, AtPC
  <2> HIDE DEF a
  <2> QED BY <1>r, <2>2, <2>3, <2>4
<1>11. CASE AfterCommit(w)
  <2>1. r.need \in Needs BY <1>11, <1>n DEF AfterCommit, AtPC
  <2>2. NextState(r).pc \in {"check", "finish"} BY <1>r, <2>1, NextStateType
  <2>3. Retry(r, r.st, r.ret).pc = "check" BY <1>f, <2>1, RetryType
  <2>4. \/ wk' = [wk EXCEPT ![w] = NextState(r)]
        \/ wk' = [wk EXCEPT ![w] = Retry(r, r.st, r.ret)]
    BY <1>11 DEF AfterCommit, LocalStep
  <2> QED BY <2>2, <2>3, <2>4
<1> QED BY <1>1, <1>2, <1>3, <1>4, <1>5, <1>6, <1>7, <1>8, <1>9, <1>10, <1>11, <1>13
        DEF processNeed

LEMMA BudgetWorker ==
  ASSUME IInv, NEW w \in Workers, processNeed(w)
  PROVE  \A v \in Workers : wk'[v].pc \in {"scan", "propose", "push"} => wk'[v].ret > 0
<1>0. TypeOK /\ BudgetLeft BY DEF IInv
<1>1. CASE Finish(w)
  <2>1. Resting.pc = "rest" BY DEF Resting
  <2>2. wk' = [wk EXCEPT ![w] = Resting] BY <1>1 DEF Finish
  <2> QED BY <1>0, <2>1, <2>2, BudgetTable
<1>2. CASE ~Finish(w)
  <2>1. PICK q : /\ q.pc \in {"scan", "propose", "push"} => q.ret > 0
                 /\ wk' = [wk EXCEPT ![w] = q]
    BY <1>2, WorkerHolds
  <2> QED BY <1>0, <2>1, BudgetTable
<1> QED BY <1>1, <1>2

LEMMA BudgetStep == IInv /\ [Next]_vars => BudgetLeft'
<1> SUFFICES ASSUME IInv, [Next]_vars PROVE BudgetLeft' OBVIOUS
<1>0. TypeOK /\ BudgetLeft BY DEF IInv
<1>1. \A v \in Workers : wk'[v].pc \in {"scan", "propose", "push"} => wk'[v].ret > 0
  <2>1. CASE \E w \in Workers : processNeed(w) BY <2>1, BudgetWorker
  <2>2. CASE wk' = wk BY <1>0, <2>2 DEF BudgetLeft
  <2> QED BY <2>1, <2>2 DEF Next, RunCycle, Returned, SeedConfiguredSupply, Feed, Barrier, vars
<1>2. \A m \in Machines : claimedBy'[m].need # 0 => claimedBy'[m].ret > 0
  <2>1. CASE UNCHANGED <<claimedBy, claimedByNeed>>
    BY <1>0, <2>1 DEF BudgetLeft, IsClaimed
  <2>2. ASSUME NEW n \in Needs, NEW ms \in SUBSET Machines, SeedClaims(n, ms)
        PROVE  \A m \in Machines : claimedBy'[m].need # 0 => claimedBy'[m].ret > 0
    BY <1>0, <2>2, BoundsAssumption DEF SeedClaims, BudgetLeft, IsClaimed
  <2>3. ASSUME NEW w \in Workers, ProposeCommit(w)
        PROVE  \A m \in Machines : claimedBy'[m].need # 0 => claimedBy'[m].ret > 0
    <3>1. wk[w].ret > 0 /\ Commit(wk[w]) BY <2>3, Committer
    <3> QED BY <1>0, <3>1 DEF Commit, BudgetLeft, IsClaimed
  <2> QED BY <2>1, <2>2, <2>3, ClaimChange
<1> QED BY <1>1, <1>2 DEF BudgetLeft, IsClaimed

-----------------------------------------------------------------------------
(* The WaitGroup and the barrier.                                          *)

LEMMA WgStep == IInv /\ [Next]_vars => WgExact'
<1> SUFFICES ASSUME IInv, [Next]_vars PROVE WgExact' OBVIOUS
<1>0. TypeOK /\ WgExact BY DEF IInv
<1>e. wg = Len(work) + Cardinality(Busy) BY <1>0 DEF WgExact, Busy
<1>t. Len(work) \in Nat /\ Cardinality(Busy) \in Nat /\ IsFiniteSet(Busy)
  BY <1>0, BusyFinite, LenProperties DEF TypeOK
<1> SUFFICES wg' = Len(work') + Cardinality(Busy') BY DEF WgExact, Busy
<1>1. CASE UNCHANGED <<work, wg, wk>> BY <1>1, <1>e DEF Busy
<1>2. ASSUME NEW n \in Needs, Feed(n)
      PROVE  wg' = Len(work') + Cardinality(Busy')
  <2>1. Busy' = Busy BY <1>2 DEF Feed, Busy
  <2>2. CASE Push([need |-> n, ret |-> Retries])
    <3>1. Len(work') = Len(work) + 1 /\ wg' = wg + 1
      BY <1>0, <2>2, AppendProperties, BoundsAssumption DEF Push, TypeOK, QueuedNeed
    <3> QED BY <1>e, <1>t, <2>1, <3>1
  <2>3. CASE UNCHANGED <<work, wg>> BY <1>e, <2>1, <2>3
  <2> QED BY <1>2, <2>2, <2>3 DEF Feed
<1>3. ASSUME NEW w \in Workers, Take(w)
      PROVE  wg' = Len(work') + Cardinality(Busy')
  <2>1. ~Finish(w) /\ processNeed(w) BY <1>3 DEF Take, Finish, AtPC, processNeed
  <2>2. PICK q : q.pc # "rest" /\ wk' = [wk EXCEPT ![w] = q] BY <2>1, WorkerHolds
  <2>3. w \notin Busy BY <1>3 DEF Take, AtPC, Busy
  <2>4. Busy' = Busy \cup {w} BY <1>0, <2>2 DEF Busy, TypeOK
  <2>5. Cardinality(Busy') = Cardinality(Busy) + 1 BY <1>t, <2>3, <2>4, FS_AddElement
  <2>6. Len(work') = Len(work) - 1 /\ wg' = wg
    BY <1>0, <1>3, HeadTailProperties DEF Take, TypeOK
  <2> QED BY <1>e, <1>t, <2>5, <2>6
<1>4. ASSUME NEW w \in Workers, Finish(w)
      PROVE  wg' = Len(work') + Cardinality(Busy')
  <2>1. w \in Busy BY <1>4 DEF Finish, AtPC, Busy
  <2>2. Resting.pc = "rest" BY DEF Resting
  <2>3. Busy' = Busy \ {w} BY <1>0, <1>4, <2>2 DEF Finish, Busy, TypeOK
  <2>4. Cardinality(Busy') = Cardinality(Busy) - 1 BY <1>t, <2>1, <2>3, FS_RemoveElement
  <2>5. work' = work /\ wg' = wg - 1 BY <1>4 DEF Finish
  <2> QED BY <1>e, <1>t, <2>4, <2>5
<1>5. ASSUME NEW w \in Workers, processNeed(w), ~Take(w), ~Finish(w)
      PROVE  wg' = Len(work') + Cardinality(Busy')
  <2>1. PICK q : q.pc # "rest" /\ wk' = [wk EXCEPT ![w] = q] BY <1>5, WorkerHolds
  <2>2. wk[w].pc # "rest"
    BY <1>5 DEF processNeed, CheckDeficit, ScanMachine, SecondPass, ChooseFallback,
       ChooseSpread, NoCandidates, ReadBucketSeq, ProposeConflict, ProposeCommit, PushDisplaced,
       AfterCommit, AtPC
  <2>3. Busy' = Busy BY <1>0, <2>1, <2>2 DEF Busy, TypeOK
  <2>4. CASE PushDisplaced(w)
    <3>1. wk[w].disp \subseteq QueuedNeed BY <1>0 DEF TypeOK, WorkerType
    <3>2. PICK x \in wk[w].disp : Push(x) BY <2>4 DEF PushDisplaced
    <3>3. Len(work') = Len(work) + 1 /\ wg' = wg + 1
      BY <1>0, <3>1, <3>2, AppendProperties DEF Push, TypeOK
    <3> QED BY <1>e, <1>t, <2>3, <3>3
  <2>5. CASE ~PushDisplaced(w)
    <3>1. UNCHANGED <<work, wg>>
      BY <1>5, <2>5 DEF processNeed, CheckDeficit, ScanMachine, SecondPass, ChooseFallback,
         ChooseSpread, NoCandidates, ReadBucketSeq, ProposeConflict, ProposeCommit,
         AfterCommit, LocalStep
    <3> QED BY <1>e, <2>3, <3>1
  <2> QED BY <2>4, <2>5
<1>6. \/ UNCHANGED <<work, wg, wk>>
      \/ \E n \in Needs : Feed(n)
      \/ \E w \in Workers : processNeed(w)
  BY DEF Next, RunCycle, Returned, SeedConfiguredSupply, Barrier, vars
<1> QED BY <1>1, <1>2, <1>3, <1>4, <1>5, <1>6

\* Past the barrier every worker rests and the channel is empty.
LEMMA QuietWhenDone == IInv => BarrierQuiet
<1> SUFFICES ASSUME IInv, main = "done"
             PROVE  work = <<>> /\ \A w \in Workers : wk[w].pc = "rest"
  BY DEF BarrierQuiet
<1>0. TypeOK /\ WgExact /\ wg = 0 BY DEF IInv, DoneIsFinal
<1>1. Len(work) \in Nat /\ Cardinality(Busy) \in Nat
  BY <1>0, BusyFinite, LenProperties DEF TypeOK
<1>2. Len(work) = 0 BY <1>0, <1>1 DEF WgExact, Busy
<1>3. work = <<>> BY <1>0, <1>2, EmptySeq DEF TypeOK
<1>4. \A w \in Workers : wk[w].pc = "rest" BY <1>0, BusyCounted
<1> QED BY <1>3, <1>4

LEMMA DoneStep == IInv /\ [Next]_vars => DoneIsFinal'
<1> SUFFICES ASSUME IInv, [Next]_vars, main' = "done" PROVE wg' = 0 BY DEF DoneIsFinal
<1>1. CASE main = "done"
  <2>0. wg = 0 BY <1>1 DEF IInv, DoneIsFinal
  <2>1. work = <<>> /\ \A w \in Workers : wk[w].pc = "rest"
    BY <1>1, QuietWhenDone DEF BarrierQuiet
  <2>2. \A w \in Workers : ~processNeed(w)
    BY <2>1 DEF processNeed, Take, CheckDeficit, ScanMachine, SecondPass, ChooseFallback,
       ChooseSpread, NoCandidates, ReadBucketSeq, ProposeConflict, ProposeCommit, PushDisplaced,
       AfterCommit, Finish, AtPC
  <2> QED BY <1>1, <2>0, <2>2
          DEF Next, RunCycle, Returned, SeedConfiguredSupply, Feed, Barrier, vars
<1>2. CASE main # "done"
  <2>1. CASE Barrier BY <2>1 DEF Barrier
  <2>2. CASE \E w \in Workers : processNeed(w)
    BY <1>2, <2>2 DEF processNeed, Take, CheckDeficit, ScanMachine, SecondPass,
       ChooseFallback, ChooseSpread, NoCandidates, ReadBucketSeq, ProposeConflict, ProposeCommit,
       PushDisplaced, AfterCommit, Finish, LocalStep
  <2> QED BY <1>2, <2>1, <2>2
          DEF Next, RunCycle, Returned, SeedConfiguredSupply, Feed, vars
<1> QED BY <1>1, <1>2

-----------------------------------------------------------------------------
(* The theorems.                                                           *)

LEMMA Inductive == IInv /\ [Next]_vars => IInv'
BY TypeStep, IndexStep, BudgetStep, WgStep, DoneStep DEF IInv

LEMMA Invariance == Spec => []IInv
BY InitInv, Inductive, PTL DEF Spec

\* Whatever the Needs, the machines and the number of workers, the state of a
\* cycle keeps its type: RunCycle, processNeed and Broker.Propose never write
\* a claim, a queued Need or a budget that is not one.
THEOREM OccTypeCorrect == Spec => []TypeOK
<1>1. IInv => TypeOK BY DEF IInv
<1> QED BY <1>1, Invariance, PTL

\* The forward and the reverse index of SharedState agree after every step of
\* every interleaving, displacement of several Needs by one proposal included,
\* so no machine is handed to two Needs.
THEOREM ClaimIndexesAgree == Spec => []IndexesAgree
<1>1. IInv => IndexesAgree BY DEF IInv
<1> QED BY <1>1, Invariance, PTL

\* When wg.Wait lets RunCycle go on, no worker runs and nothing is queued:
\* every push, the ones made by workers too, is counted before the push of
\* which it is a consequence is marked done.
THEOREM BarrierIsQuiet == Spec => []BarrierQuiet
BY QuietWhenDone, Invariance, PTL

\* No interleaving of pre-pass, workers and broker frees a claimed machine
\* or hands it to a Need that does not strictly outrank its holder.
THEOREM EvictionsGoUp == Spec => EvictionOnlyUpward
<1>1. IInv /\ [Next]_vars =>
        [\A m \in Machines :
           IsClaimed(m) /\ claimedBy'[m] # claimedBy[m]
              => claimedBy'[m].need # 0 /\ Less(claimedBy[m].need, claimedBy'[m].need)]_vars
  BY EvictStep
<1> QED BY <1>1, Invariance, PTL DEF Spec, EvictionOnlyUpward

-----------------------------------------------------------------------------
(* Precedence, and what a step keeps.                                      *)

LEMMA InputShape ==
  ASSUME TypeOK
  PROVE  /\ in.prio \in [Needs -> Nat] /\ in.pen \in [Needs -> Nat]
         /\ in.dom \in [Machines -> Domains]
         /\ \A n \in Needs, st \in States : in.pool[n][st] \in Seq(Machines)
BY InputsAssumption DEF TypeOK, InputType

\* Less is a strict order.
LEMMA LessOrder ==
  ASSUME TypeOK, NEW n \in Needs, NEW o \in Needs, NEW p \in Needs
  PROVE  /\ ~Less(n, n)
         /\ Less(n, o) /\ Less(o, p) => Less(n, p)
<1>1. \A x \in Needs : in.prio[x] \in Nat /\ in.pen[x] \in Nat  BY InputShape
<1> QED  BY <1>1 DEF Less

LEMMA SameInput ==
  ASSUME [Next]_vars
  PROVE  in' = in /\ spent \subseteq spent'
BY DEF Next, RunCycle, processNeed, vars, SeedConfiguredSupply, Feed, Barrier, Returned, Take,
   CheckDeficit, ScanMachine, SecondPass, ChooseFallback, ChooseSpread, NoCandidates,
   ReadBucketSeq, ProposeConflict, ProposeCommit, PushDisplaced, AfterCommit, Finish, LocalStep

\* A claimed machine stays claimed, and one that a Need cannot take stays out of
\* its reach: this is what makes a walk that reads machine after machine sound.
LEMMA Monotone ==
  ASSUME IInv, [Next]_vars, NEW m \in Machines
  PROVE  /\ IsClaimed(m) => IsClaimed(m)'
         /\ \A n \in Needs : ~DisplaceableBy(m, n) => ~DisplaceableBy(m, n)'
<1>0. TypeOK /\ TypeOK' /\ in' = in  BY TypeStep, SameInput DEF IInv
<1>1. IsClaimed(m) => /\ claimedBy'[m].need # 0
                      /\ \/ claimedBy'[m].need = claimedBy[m].need
                         \/ Less(claimedBy[m].need, claimedBy'[m].need)
  BY EvictStep DEF IsClaimed
<1>2. ASSUME NEW n \in Needs, ~DisplaceableBy(m, n)
      PROVE  ~DisplaceableBy(m, n)'
  <2>1. IsClaimed(m) /\ ~Less(claimedBy[m].need, n)  BY <1>2 DEF DisplaceableBy
  <2>2. claimedBy[m].need \in Needs /\ claimedBy'[m].need \in Needs
    BY <1>0, <1>1, <2>1 DEF TypeOK, Claims, IsClaimed
  <2>3. ~Less(claimedBy'[m].need, n)  BY <1>0, <1>1, <2>1, <2>2, LessOrder
  <2>4. ~Less(claimedBy[m].need, n)'
    BY <1>0, <2>3 DEF Less
  <2> QED  BY <1>1, <2>1, <2>4 DEF DisplaceableBy, IsClaimed
<1> QED  BY <1>1, <1>2 DEF IsClaimed

\* Need n can take none of the machines of its pool in state st.
Exhausted(n, st) == \A m \in Elems(in.pool[n][st]) : ~DisplaceableBy(m, n)

LEMMA PoolElems ==
  ASSUME TypeOK, NEW n \in Needs, NEW st \in States
  PROVE  Elems(in.pool[n][st]) \subseteq Machines
<1>1. in.pool[n][st] \in Seq(Machines)  BY InputShape
<1> QED  BY <1>1, ElementOfSeq DEF Elems

LEMMA ExhaustedStays ==
  ASSUME IInv, [Next]_vars, NEW n \in Needs, NEW st \in States, Exhausted(n, st)
  PROVE  Exhausted(n, st)'
<1>0. TypeOK /\ in' = in  BY SameInput DEF IInv
<1>1. Elems(in.pool[n][st])' = Elems(in.pool[n][st])  BY <1>0 DEF Elems
<1>2. \A m \in Elems(in.pool[n][st]) : ~DisplaceableBy(m, n)'
  BY <1>0, PoolElems, Monotone DEF Exhausted
<1> QED  BY <1>1, <1>2 DEF Exhausted

-----------------------------------------------------------------------------
(* A worker's next locals.                                                 *)

LEMMA FieldsOf ==
  ASSUME NEW q \in WorkerType
  PROVE  /\ q.ret \in Nat /\ q.left \in Nat /\ q.i \in Nat \ {0} /\ q.st \in States
         /\ q.cands \subseteq Machines /\ q.disp \subseteq QueuedNeed
BY DEF WorkerType

LEMMA RetryFields ==
  ASSUME NEW r \in WorkerType, NEW st, NEW ret
  PROVE  /\ Retry(r, st, ret).pc = "check" /\ Retry(r, st, ret).need = r.need
         /\ Retry(r, st, ret).st = st /\ Retry(r, st, ret).ret = ret
BY DEF Retry, Resting

\* What `break` leaves: the Speculative state is tried after the Idle one.
Broken(q, r) ==
  \/ r.st = "Idle" /\ q.pc = "check" /\ q.st = "Speculative" /\ q.ret = r.ret
  \/ r.st = "Speculative" /\ q.pc = "finish" /\ q.st = r.st

LEMMA NextStateFields ==
  ASSUME NEW r \in WorkerType
  PROVE  NextState(r).need = r.need /\ Broken(NextState(r), r)
<1>1. CASE r.st = "Idle"  BY <1>1, RetryFields DEF NextState, Broken
<1>2. CASE r.st = "Speculative"  BY <1>2 DEF NextState, Broken, WorkerType
<1> QED  BY <1>1, <1>2, FieldsOf DEF States

\* The locals of a worker after each of its steps, field by field where a proof
\* asks for them.
LEMMA NextLocals ==
  ASSUME TypeOK, NEW w \in Workers, NEW r, r = wk[w], NEW q, q = wk'[w]
  PROVE
  /\ Take(w) => /\ q.pc = "check" /\ q.st = "Idle"
                /\ q.need = Head(work).need /\ q.ret = Head(work).ret
  /\ CheckDeficit(w) =>
       /\ r.pc = "check" /\ q.need = r.need /\ q.st = r.st
       /\ \/ q.pc = "finish" /\ (r.ret = 0 \/ computeDeficit(r.need) = 0)
          \/ /\ q.pc = "scan" /\ r.ret # 0 /\ computeDeficit(r.need) # 0
             /\ q.left = computeDeficit(r.need) /\ q.pass = FirstPass(r.need)
             /\ q.i = 1 /\ q.cands = {} /\ q.dom = sameDomain[r.need]
  /\ ScanMachine(w) =>
       /\ r.pc = "scan" /\ ~PassEnded(r)
       /\ q.need = r.need /\ q.st = r.st /\ q.pc = "scan" /\ q.pass = r.pass
       /\ q.i = r.i + 1 /\ q.dom = r.dom
       /\ \/ Picks(r, PoolOf(r)[r.i]) /\ q.cands = r.cands \cup {PoolOf(r)[r.i]}
          \/ ~Picks(r, PoolOf(r)[r.i]) /\ q.cands = r.cands /\ q.left = r.left
  /\ SecondPass(w) =>
       /\ r.pc = "scan" /\ r.pass = "unclaimed" /\ PassEnded(r) /\ r.left > 0
       /\ q.need = r.need /\ q.st = r.st /\ q.pc = "scan" /\ q.pass = "displaceable"
       /\ q.i = 1 /\ q.cands = r.cands /\ q.left = r.left
  /\ ChooseFallback(w) =>
       r.pc = "scan" /\ r.pass = "score" /\ q.pc = "scan" /\ q.need = r.need
  /\ ChooseSpread(w) =>
       r.pc = "scan" /\ r.pass = "spread" /\ q.pc = "scan" /\ q.need = r.need
  /\ NoCandidates(w) =>
       /\ r.pc = "scan" /\ r.pass # "unclaimed" /\ PassEnded(r) /\ r.cands = {}
       /\ q.need = r.need /\ Broken(q, r)
  /\ ReadBucketSeq(w) =>
       /\ r.pc = "scan"
       /\ q.need = r.need /\ q.st = r.st /\ q.pc = "propose" /\ q.cands = r.cands
  /\ ProposeConflict(w) =>
       /\ r.pc = "propose"
       /\ q.need = r.need /\ q.st = r.st /\ q.pc = "check" /\ q.ret = r.ret - 1
  /\ ProposeCommit(w) =>
       /\ r.pc = "propose"
       /\ q.need = r.need /\ q.st = r.st /\ q.pc = "push"
       /\ q.disp = {x \in Displaced(r) : x.ret > 0}
  /\ PushDisplaced(w) =>
       /\ r.pc = "push" /\ q.need = r.need /\ q.st = r.st /\ q.pc = "push"
       /\ \E x \in r.disp : /\ Push(x) /\ q.disp = r.disp \ {x}
                            /\ requeues' = [requeues EXCEPT ![x.need] = @ + 1]
  /\ AfterCommit(w) =>
       /\ r.pc = "push" /\ r.disp = {} /\ q.need = r.need
       /\ \/ r.need \in in.same \cup Spreads /\ Broken(q, r)
          \/ /\ r.need \notin in.same \cup Spreads
             /\ q.pc = "check" /\ q.st = r.st /\ q.ret = r.ret
  /\ Finish(w) => r.pc = "finish" /\ q.pc = "rest" /\ q.disp = {}
<1>r. r \in WorkerType /\ wk \in [Workers -> WorkerType]  BY DEF TypeOK
<1>l. \A x : wk' = [wk EXCEPT ![w] = x] => q = x  BY <1>r
<1>1. ASSUME Take(w)
      PROVE  /\ q.pc = "check" /\ q.st = "Idle"
             /\ q.need = Head(work).need /\ q.ret = Head(work).ret
  <2> DEFINE x == [Resting EXCEPT !.pc = "check", !.need = Head(work).need,
                                  !.ret = Head(work).ret]
  <2>1. wk' = [wk EXCEPT ![w] = x]  BY <1>1 DEF Take
  <2>2. q = x  BY <1>l, <2>1
  <2>3. x.pc = "check" /\ x.st = "Idle" /\ x.need = Head(work).need /\ x.ret = Head(work).ret
    BY DEF Resting
  <2> QED  BY <2>2, <2>3
<1>2. ASSUME CheckDeficit(w)
      PROVE  /\ r.pc = "check" /\ q.need = r.need /\ q.st = r.st
             /\ \/ q.pc = "finish" /\ (r.ret = 0 \/ computeDeficit(r.need) = 0)
                \/ /\ q.pc = "scan" /\ r.ret # 0 /\ computeDeficit(r.need) # 0
                   /\ q.left = computeDeficit(r.need) /\ q.pass = FirstPass(r.need)
                   /\ q.i = 1 /\ q.cands = {} /\ q.dom = sameDomain[r.need]
  <2> DEFINE b == [r EXCEPT !.pc = "scan", !.left = computeDeficit(r.need),
                            !.pass = FirstPass(r.need), !.i = 1, !.cands = {},
                            !.dom = sameDomain[r.need]]
  <2>0. r.pc = "check"  BY <1>2 DEF CheckDeficit, AtPC
  <2>1. CASE r.ret = 0 \/ computeDeficit(r.need) = 0
    <3>1. q = [r EXCEPT !.pc = "finish"]  BY <1>2, <1>l, <2>1 DEF CheckDeficit, LocalStep
    <3>2. q.pc = "finish" /\ q.need = r.need /\ q.st = r.st  BY <1>r, <3>1 DEF WorkerType
    <3> QED  BY <2>0, <2>1, <3>2
  <2>2. CASE ~(r.ret = 0 \/ computeDeficit(r.need) = 0)
    <3>1. q = b  BY <1>2, <1>l, <2>2 DEF CheckDeficit, LocalStep
    <3>2. /\ q.need = r.need /\ q.st = r.st /\ q.pc = "scan"
          /\ q.left = computeDeficit(r.need) /\ q.pass = FirstPass(r.need)
          /\ q.i = 1 /\ q.cands = {} /\ q.dom = sameDomain[r.need]
      BY <1>r, <3>1, Zenon DEF WorkerType
    <3> QED  BY <2>0, <2>2, <3>2
  <2> QED  BY <2>1, <2>2
<1>3. ASSUME ScanMachine(w)
      PROVE  /\ r.pc = "scan" /\ ~PassEnded(r)
             /\ q.need = r.need /\ q.st = r.st /\ q.pc = "scan" /\ q.pass = r.pass
             /\ q.i = r.i + 1 /\ q.dom = r.dom
             /\ \/ Picks(r, PoolOf(r)[r.i]) /\ q.cands = r.cands \cup {PoolOf(r)[r.i]}
                \/ ~Picks(r, PoolOf(r)[r.i]) /\ q.cands = r.cands /\ q.left = r.left
  <2> DEFINE m == PoolOf(r)[r.i]
             a == [r EXCEPT !.i = @ + 1]
             b == [r EXCEPT !.i = @ + 1, !.cands = @ \cup {m},
                            !.left = IF r.pass \in {"score", "spread"} THEN @
                                     ELSE SubResources(@, in.alloc[m])]
  <2>0. r.pc = "scan" /\ ~PassEnded(r)  BY <1>3 DEF ScanMachine, AtPC
  <2>1. CASE Picks(r, m)
    <3>1. q = b  BY <1>3, <1>l, <2>1 DEF ScanMachine, LocalStep
    <3> HIDE DEF m
    <3>2. /\ q.need = r.need /\ q.st = r.st /\ q.pc = r.pc /\ q.pass = r.pass
          /\ q.i = r.i + 1 /\ q.dom = r.dom /\ q.cands = r.cands \cup {m}
      BY <1>r, <3>1, Zenon DEF WorkerType
    <3> QED  BY <2>0, <2>1, <3>2 DEF m
  <2>2. CASE ~Picks(r, m)
    <3>1. q = a  BY <1>3, <1>l, <2>2 DEF ScanMachine, LocalStep
    <3>2. /\ q.need = r.need /\ q.st = r.st /\ q.pc = r.pc /\ q.pass = r.pass
          /\ q.i = r.i + 1 /\ q.dom = r.dom /\ q.cands = r.cands /\ q.left = r.left
      BY <1>r, <3>1, Zenon DEF WorkerType
    <3> HIDE DEF m
    <3> QED  BY <2>0, <2>2, <3>2 DEF m
  <2> QED  BY <2>1, <2>2
<1>4. ASSUME SecondPass(w)
      PROVE  /\ r.pc = "scan" /\ r.pass = "unclaimed" /\ PassEnded(r) /\ r.left > 0
             /\ q.need = r.need /\ q.st = r.st /\ q.pc = "scan" /\ q.pass = "displaceable"
             /\ q.i = 1 /\ q.cands = r.cands /\ q.left = r.left
  <2>1. /\ r.pc = "scan" /\ r.pass = "unclaimed" /\ PassEnded(r) /\ r.left > 0
        /\ q = [r EXCEPT !.pass = "displaceable", !.i = 1]
    BY <1>4, <1>l DEF SecondPass, LocalStep, AtPC
  <2>2. /\ q.need = r.need /\ q.st = r.st /\ q.pc = r.pc /\ q.pass = "displaceable"
        /\ q.i = 1 /\ q.cands = r.cands /\ q.left = r.left
    BY <1>r, <2>1, Zenon DEF WorkerType
  <2> QED  BY <2>1, <2>2
<1>5. ASSUME ChooseFallback(w)
      PROVE  r.pc = "scan" /\ r.pass = "score" /\ q.pc = "scan" /\ q.need = r.need
  <2>1. PICK d : q = [r EXCEPT !.pass = "domain", !.i = 1, !.cands = {}, !.dom = d]
    BY <1>5, <1>l DEF ChooseFallback, LocalStep
  <2>2. q.pc = r.pc /\ q.need = r.need  BY <1>r, <2>1, Zenon DEF WorkerType
  <2> QED  BY <1>5, <2>2 DEF ChooseFallback, AtPC
<1>6. ASSUME ChooseSpread(w)
      PROVE  r.pc = "scan" /\ r.pass = "spread" /\ q.pc = "scan" /\ q.need = r.need
  <2>1. q = [r EXCEPT !.pass = "domain", !.cands = SpreadPicks(r)]
    BY <1>6, <1>l DEF ChooseSpread, LocalStep
  <2>2. q.pc = r.pc /\ q.need = r.need  BY <1>r, <2>1, Zenon DEF WorkerType
  <2> QED  BY <1>6, <2>2 DEF ChooseSpread, AtPC
<1>7. ASSUME NoCandidates(w)
      PROVE  /\ r.pc = "scan" /\ r.pass # "unclaimed" /\ PassEnded(r) /\ r.cands = {}
             /\ q.need = r.need /\ Broken(q, r)
  <2>1. q = NextState(r)  BY <1>7, <1>l DEF NoCandidates, LocalStep
  <2> QED  BY <1>7, <1>r, <2>1, NextStateFields DEF NoCandidates, AtPC
<1>8. ASSUME ReadBucketSeq(w)
      PROVE  /\ r.pc = "scan"
             /\ q.need = r.need /\ q.st = r.st /\ q.pc = "propose" /\ q.cands = r.cands
  <2>1. q = [r EXCEPT !.pc = "propose", !.obs = bucketSeq[Bucket(r)]]
    BY <1>8, <1>l DEF ReadBucketSeq, LocalStep
  <2>2. q.need = r.need /\ q.st = r.st /\ q.pc = "propose" /\ q.cands = r.cands
    BY <1>r, <2>1, Zenon DEF WorkerType
  <2> QED  BY <1>8, <2>2 DEF ReadBucketSeq, AtPC
<1>9. ASSUME ProposeConflict(w)
      PROVE  /\ r.pc = "propose"
             /\ q.need = r.need /\ q.st = r.st /\ q.pc = "check" /\ q.ret = r.ret - 1
  <2>1. q = Retry(r, r.st, r.ret - 1)  BY <1>9, <1>l DEF ProposeConflict
  <2> QED  BY <1>9, <1>r, <2>1, RetryFields DEF ProposeConflict, AtPC
<1>10. ASSUME ProposeCommit(w)
       PROVE  /\ r.pc = "propose"
              /\ q.need = r.need /\ q.st = r.st /\ q.pc = "push"
              /\ q.disp = {x \in Displaced(r) : x.ret > 0}
  <2> DEFINE y == Retry(r, r.st, r.ret)
  <2>1. r.pc = "propose" /\ q = [y EXCEPT !.pc = "push",
                                          !.disp = {x \in Displaced(r) : x.ret > 0}]
    BY <1>10, <1>l DEF ProposeCommit, AtPC
  <2>2. y \in WorkerType /\ y.need = r.need /\ y.st = r.st
    <3>1. r.need \in Needs  BY <2>1 DEF TypeOK
    <3> QED  BY <1>r, <3>1, FieldsOf, RetryType, RetryFields
  <2> HIDE DEF y
  <2>3. /\ q.pc = "push" /\ q.need = y.need /\ q.st = y.st
        /\ q.disp = {x \in Displaced(r) : x.ret > 0}
    BY <2>1, <2>2, Zenon DEF WorkerType
  <2> QED  BY <2>1, <2>2, <2>3
<1>11. ASSUME PushDisplaced(w)
       PROVE  /\ r.pc = "push" /\ q.need = r.need /\ q.st = r.st /\ q.pc = "push"
              /\ \E x \in r.disp : /\ Push(x) /\ q.disp = r.disp \ {x}
                                   /\ requeues' = [requeues EXCEPT ![x.need] = @ + 1]
  <2>1. PICK x \in r.disp : /\ Push(x) /\ wk' = [wk EXCEPT ![w].disp = @ \ {x}]
                            /\ requeues' = [requeues EXCEPT ![x.need] = @ + 1]
    BY <1>11 DEF PushDisplaced
  <2>2. q = [r EXCEPT !.disp = @ \ {x}]  BY <1>r, <2>1
  <2>3. q.pc = r.pc /\ q.need = r.need /\ q.st = r.st /\ q.disp = r.disp \ {x}
    BY <1>r, <2>2, Zenon DEF WorkerType
  <2> QED  BY <1>11, <2>1, <2>3 DEF PushDisplaced, AtPC
<1>12. ASSUME AfterCommit(w)
       PROVE  /\ r.pc = "push" /\ r.disp = {} /\ q.need = r.need
              /\ \/ r.need \in in.same \cup Spreads /\ Broken(q, r)
                 \/ /\ r.need \notin in.same \cup Spreads
                    /\ q.pc = "check" /\ q.st = r.st /\ q.ret = r.ret
  <2>1. r.pc = "push" /\ r.disp = {}  BY <1>12 DEF AfterCommit, AtPC
  <2>2. CASE r.need \in in.same \cup Spreads
    <3>1. q = NextState(r)  BY <1>12, <1>l, <2>2 DEF AfterCommit, LocalStep
    <3> QED  BY <1>r, <2>1, <2>2, <3>1, NextStateFields
  <2>3. CASE r.need \notin in.same \cup Spreads
    <3>1. q = Retry(r, r.st, r.ret)  BY <1>12, <1>l, <2>3 DEF AfterCommit, LocalStep
    <3> QED  BY <1>r, <2>1, <2>3, <3>1, RetryFields
  <2> QED  BY <2>2, <2>3
<1>13. ASSUME Finish(w)
       PROVE  r.pc = "finish" /\ q.pc = "rest" /\ q.disp = {}
  <2>1. r.pc = "finish" /\ wk' = [wk EXCEPT ![w] = Resting]  BY <1>13 DEF Finish, AtPC
  <2>2. q = Resting  BY <1>l, <2>1
  <2> QED  BY <2>1, <2>2 DEF Resting
<1> QED
  BY <1>1, <1>2, <1>3, <1>4, <1>5, <1>6, <1>7, <1>8, <1>9, <1>10, <1>11, <1>12, <1>13

-----------------------------------------------------------------------------
(* What a worker that finds nothing has seen.                              *)

\* A plain Need, and the machines its worker walks in the state it is in.
Plain == Needs \ (in.same \cup Spreads)

\* Queued and displaced Needs still have a retry.
BudgetQueued ==
  /\ \A k \in DOMAIN work : work[k].ret > 0
  /\ \A w \in Workers : wk[w].pc = "push" => \A q \in wk[w].disp : q.ret > 0

\* As long as a walk has not picked anything, what is behind it was claimed, in
\* the second pass by a Need that does not give way.
Walked(r) ==
  /\ r.left > 0
  /\ \A j \in DOMAIN in.pool[r.need][r.st] :
       /\ j < r.i \/ r.pass = "displaceable" => IsClaimed(in.pool[r.need][r.st][j])
       /\ j < r.i /\ r.pass = "displaceable"
            => ~DisplaceableBy(in.pool[r.need][r.st][j], r.need)

\* A plain Need's worker is in the Speculative state only when the Idle machines
\* are out of its reach, and without retries only when that was recorded.
SearchOf(r) ==
  /\ r.pc = "check" /\ r.ret = 0 => r.need \in spent
  /\ r.st = "Speculative" => Exhausted(r.need, "Idle")
  /\ r.pc = "scan" => r.pass \in {"unclaimed", "displaceable"}
  /\ r.pc = "scan" /\ r.cands = {} => Walked(r)

SearchSound == \A w \in Workers : wk[w].pc # "rest" /\ wk[w].need \in Plain => SearchOf(wk[w])

LEMMA PlainPool ==
  ASSUME TypeOK, NEW r \in WorkerType, r.need \in Plain
  PROVE  /\ r.need \in Needs /\ r.need \notin in.same \cup Spreads
         /\ PoolOf(r) = in.pool[r.need][r.st]
         /\ in.pool[r.need][r.st] \in Seq(Machines)
<1>1. r.need \in Needs /\ r.need \notin in.same \cup Spreads  BY DEF Plain
<1>2. r.st \in States  BY DEF WorkerType
<1> QED  BY <1>1, <1>2, InputShape DEF PoolOf

\* What a walk has seen stays so.
LEMMA WalkedStays ==
  ASSUME IInv, [Next]_vars, NEW r \in WorkerType, r.need \in Plain, Walked(r)
  PROVE  Walked(r)'
<1>0. TypeOK /\ in' = in  BY SameInput DEF IInv
<1>1. r.need \in Needs /\ in.pool[r.need][r.st] \in Seq(Machines)  BY <1>0, PlainPool
<1>2. \A j \in DOMAIN in.pool[r.need][r.st] : in.pool[r.need][r.st][j] \in Machines
  BY <1>1, ElementOfSeq
<1>3. ASSUME NEW j \in DOMAIN in.pool[r.need][r.st]
      PROVE  /\ j < r.i \/ r.pass = "displaceable" => IsClaimed(in.pool[r.need][r.st][j])'
             /\ j < r.i /\ r.pass = "displaceable"
                  => ~DisplaceableBy(in.pool[r.need][r.st][j], r.need)'
  <2> DEFINE m == in.pool[r.need][r.st][j]
  <2>0. m' = m  BY <1>0
  <2>1. m \in Machines  BY <1>2
  <2>2. PICK x \in Machines : x = m  BY <2>1
  <2>3. /\ j < r.i \/ r.pass = "displaceable" => IsClaimed(x)
        /\ j < r.i /\ r.pass = "displaceable" => ~DisplaceableBy(x, r.need)
    BY <2>2 DEF Walked
  <2>4. /\ IsClaimed(x) => IsClaimed(x)'
        /\ ~DisplaceableBy(x, r.need) => ~DisplaceableBy(x, r.need)'
    BY <1>1, Monotone
  <2>5. x = m'  BY <2>0, <2>2
  <2> HIDE DEF m
  <2>6. /\ IsClaimed(m)' <=> IsClaimed(x)'
        /\ DisplaceableBy(m, r.need)' <=> DisplaceableBy(x, r.need)'
    BY <2>5 DEF IsClaimed, DisplaceableBy
  <2> QED  BY <2>3, <2>4, <2>6 DEF m
<1> QED  BY <1>0, <1>3 DEF Walked

LEMMA SearchStays ==
  ASSUME IInv, [Next]_vars, NEW r \in WorkerType, r.need \in Plain, SearchOf(r)
  PROVE  SearchOf(r)'
<1>1. r.need \in Needs /\ "Idle" \in States  BY DEF Plain, States
<1>2. Exhausted(r.need, "Idle") => Exhausted(r.need, "Idle")'  BY <1>1, ExhaustedStays
<1>3. Walked(r) => Walked(r)'  BY WalkedStays
<1>4. r.need \in spent => r.need \in spent'  BY SameInput
<1> QED  BY <1>2, <1>3, <1>4 DEF SearchOf

\* The places of a sequence are numbers.
LEMMA PlacesAreNumbers ==
  ASSUME NEW S, NEW s \in Seq(S)
  PROVE  Len(s) \in Nat /\ \A j \in DOMAIN s : j \in Nat /\ j <= Len(s)
<1>1. DOMAIN s = 1..Len(s) /\ Len(s) \in Nat  BY LenProperties
<1> QED  BY <1>1

\* A walk that has ended without a pick has seen the whole pool.
LEMMA WalkedAll ==
  ASSUME TypeOK, NEW r \in WorkerType, r.need \in Plain, Walked(r), PassEnded(r)
  PROVE  /\ \A j \in DOMAIN in.pool[r.need][r.st] : j < r.i
         /\ r.pass = "displaceable" => Exhausted(r.need, r.st)
<1>1. PoolOf(r) = in.pool[r.need][r.st] /\ in.pool[r.need][r.st] \in Seq(Machines)
  BY PlainPool
<1>2. \A j \in DOMAIN in.pool[r.need][r.st] : j < r.i
  <2>1. r.i > Len(PoolOf(r)) /\ r.i \in Nat  BY FieldsOf DEF PassEnded, Walked
  <2>2. /\ Len(PoolOf(r)) \in Nat
        /\ \A j \in DOMAIN PoolOf(r) : j \in Nat /\ j <= Len(PoolOf(r))
    BY <1>1, PlacesAreNumbers
  <2>3. \A j \in DOMAIN PoolOf(r) : j < r.i  BY <2>1, <2>2
  <2> QED  BY <1>1, <2>3
<1> QED  BY <1>2 DEF Walked, Exhausted, Elems

\* What a worker's next locals satisfy, if the present ones do.
LEMMA SearchOwn ==
  ASSUME IInv, BudgetQueued, NEW w \in Workers, processNeed(w),
         wk[w].pc # "rest" /\ wk[w].need \in Plain => SearchOf(wk[w]),
         NEW q \in WorkerType, q = wk'[w], q.pc # "rest", q.need \in Plain
  PROVE  SearchOf(q)'
<1>0. TypeOK /\ BudgetLeft /\ [Next]_vars /\ in' = in /\ spent \subseteq spent'
  <2>1. [Next]_vars  BY DEF Next
  <2> QED  BY <2>1, SameInput DEF IInv
<1>1. PICK r \in WorkerType : r = wk[w]  BY <1>0 DEF TypeOK
<1>n. q.need \in Needs /\ q.need \notin in.same \cup Spreads  BY DEF Plain
<1>s. r.pc # "rest" /\ r.need = q.need => SearchOf(r)  BY <1>1
<1>e. \A st \in States : Exhausted(q.need, st) => Exhausted(q.need, st)'
  BY <1>0, <1>n, ExhaustedStays
\* Locals outside a walk.
<1>o. ASSUME q.pc # "scan", q.pc = "check" /\ q.ret = 0 => q.need \in spent',
             q.st = "Speculative" => Exhausted(q.need, "Idle")
      PROVE  SearchOf(q)'
  BY <1>e, <1>o DEF SearchOf, States
\* The same walk, further on.
<1>w. ASSUME q.pc = "scan", r.pc # "rest", q.need = r.need, q.st = r.st,
             q.pass \in {"unclaimed", "displaceable"}, q.cands = {} => Walked(q)
      PROVE  SearchOf(q)'
  <2>1. q.cands = {} => Walked(q)'  BY <1>0, <1>w, WalkedStays
  <2>2. q.st = "Speculative" => Exhausted(q.need, "Idle")  BY <1>s, <1>w DEF SearchOf
  <2> QED  BY <1>e, <1>w, <2>1, <2>2 DEF SearchOf, States
<1>2. CASE Take(w)
  <2>1. q.pc = "check" /\ q.st = "Idle" /\ q.ret = Head(work).ret /\ work # <<>>
    BY <1>0, <1>1, <1>2, NextLocals DEF Take
  <2>2. Head(work) = work[1] /\ 1 \in DOMAIN work
    BY <1>0, <2>1, HeadTailProperties, LenProperties, EmptySeq DEF TypeOK
  <2>3. q.ret > 0  BY <2>1, <2>2 DEF BudgetQueued
  <2> QED  BY <1>o, <2>1, <2>3
<1>3. CASE CheckDeficit(w)
  <2>1. /\ r.pc = "check" /\ q.need = r.need /\ q.st = r.st
        /\ \/ q.pc = "finish"
           \/ /\ q.pc = "scan" /\ computeDeficit(r.need) # 0 /\ q.i = 1
              /\ q.left = computeDeficit(r.need) /\ q.pass = FirstPass(r.need)
    BY <1>0, <1>1, <1>3, NextLocals
  <2>2. CASE q.pc = "finish"  BY <1>o, <1>s, <2>1, <2>2 DEF SearchOf
  <2>3. CASE q.pc = "scan"
    <3>1. q.pass = "unclaimed"  BY <1>n, <2>1, <2>3 DEF FirstPass
    <3>2. q.left > 0
      <4>1. computeDeficit(q.need) \in Nat  BY <1>0, <1>n, DeficitType
      <4> QED  BY <2>1, <2>3, <4>1
    <3>3. \A j \in DOMAIN in.pool[q.need][q.st] : ~(j < q.i)
      <4>1. in.pool[q.need][q.st] \in Seq(Machines)  BY <1>0, PlainPool
      <4> QED  BY <2>1, <2>3, <4>1, LenProperties
    <3>4. Walked(q)  BY <3>1, <3>2, <3>3 DEF Walked
    <3> QED  BY <1>w, <2>1, <2>3, <3>1, <3>4
  <2> QED  BY <2>1, <2>2, <2>3
<1>4. CASE ScanMachine(w)
  <2> DEFINE m == PoolOf(r)[r.i]
  <2>1. /\ r.pc = "scan" /\ ~PassEnded(r) /\ q.pc = "scan"
        /\ q.need = r.need /\ q.st = r.st /\ q.pass = r.pass /\ q.i = r.i + 1
        /\ \/ Picks(r, m) /\ q.cands = r.cands \cup {m}
           \/ ~Picks(r, m) /\ q.cands = r.cands /\ q.left = r.left
    BY <1>0, <1>1, <1>4, NextLocals
  <2>2. q.pass \in {"unclaimed", "displaceable"}  BY <1>s, <2>1 DEF SearchOf
  <2>3. ASSUME q.cands = {} PROVE Walked(q)
    <3>1. Walked(r) /\ ~Picks(r, m) /\ q.left = r.left  BY <1>s, <2>1, <2>3 DEF SearchOf
    <3>2. PoolOf(r) = in.pool[q.need][q.st] /\ in.pool[q.need][q.st] \in Seq(Machines)
      BY <1>0, <2>1, PlainPool
    <3>3. r.i \in Nat /\ m = in.pool[q.need][q.st][r.i]  BY <3>2, FieldsOf
    <3> HIDE DEF m
    <3>4. /\ r.pass = "unclaimed" => IsClaimed(m)
          /\ r.pass = "displaceable" => ~(IsClaimed(m) /\ DisplaceableBy(m, r.need))
      BY <3>1 DEF Picks
    <3>n. \A j \in DOMAIN in.pool[q.need][q.st] : j \in Nat
      <4>1. in.pool[q.need][q.st] \in Seq(Machines)  BY <3>2
      <4> QED  BY <4>1, PlacesAreNumbers
    <3> SUFFICES ASSUME NEW j \in DOMAIN in.pool[q.need][q.st]
                 PROVE  /\ j < q.i \/ q.pass = "displaceable"
                             => IsClaimed(in.pool[q.need][q.st][j])
                        /\ j < q.i /\ q.pass = "displaceable"
                             => ~DisplaceableBy(in.pool[q.need][q.st][j], q.need)
      BY <3>1 DEF Walked
    <3>5. CASE j = r.i  BY <2>1, <2>2, <3>1, <3>3, <3>4, <3>5 DEF Walked
    <3>6. CASE j # r.i
      <4>1. j \in Nat  BY <3>n
      <4>2. j < q.i => j < r.i  BY <2>1, <3>3, <3>6, <4>1
      <4> QED  BY <2>1, <3>1, <4>2 DEF Walked
    <3> QED  BY <3>5, <3>6
  <2> QED  BY <1>w, <2>1, <2>2, <2>3
<1>5. CASE SecondPass(w)
  <2>1. /\ r.pc = "scan" /\ r.pass = "unclaimed" /\ PassEnded(r)
        /\ q.pc = "scan" /\ q.need = r.need /\ q.st = r.st /\ q.pass = "displaceable"
        /\ q.i = 1 /\ q.cands = r.cands /\ q.left = r.left
    BY <1>0, <1>1, <1>5, NextLocals
  <2>2. ASSUME q.cands = {} PROVE Walked(q)
    <3>1. Walked(r)  BY <1>s, <2>1, <2>2 DEF SearchOf
    <3>2. \A j \in DOMAIN in.pool[r.need][r.st] : j < r.i  BY <1>0, <2>1, <3>1, WalkedAll
    <3>3. \A j \in DOMAIN in.pool[r.need][r.st] : ~(j < q.i)
      <4>1. in.pool[r.need][r.st] \in Seq(Machines)  BY <1>0, <2>1, PlainPool
      <4> QED  BY <2>1, <4>1, LenProperties
    <3> QED  BY <2>1, <3>1, <3>2, <3>3 DEF Walked
  <2> QED  BY <1>w, <2>1, <2>2
<1>6. CASE ChooseFallback(w) \/ ChooseSpread(w)
  <2>1. r.pc = "scan" /\ r.pass \in {"score", "spread"} /\ q.need = r.need
    BY <1>0, <1>1, <1>6, NextLocals
  <2> QED  BY <1>s, <2>1 DEF SearchOf
<1>7. CASE NoCandidates(w)
  <2>1. /\ r.pc = "scan" /\ r.pass # "unclaimed" /\ PassEnded(r) /\ r.cands = {}
        /\ q.need = r.need /\ Broken(q, r)
    BY <1>0, <1>1, <1>7, NextLocals
  <2>2. SearchOf(r) /\ Walked(r) /\ r.pass = "displaceable"  BY <1>s, <2>1 DEF SearchOf
  <2>3. Exhausted(r.need, r.st)  BY <1>0, <2>1, <2>2, WalkedAll
  <2>4. r.ret > 0  BY <1>0, <1>1, <2>1 DEF BudgetLeft
  <2> QED  BY <1>o, <2>1, <2>2, <2>3, <2>4 DEF Broken, SearchOf
<1>8. CASE ReadBucketSeq(w) \/ ProposeCommit(w) \/ PushDisplaced(w)
  <2>1. /\ r.pc # "rest" /\ q.need = r.need /\ q.st = r.st
        /\ q.pc \in {"propose", "push"}
    BY <1>0, <1>1, <1>8, NextLocals
  <2> QED  BY <1>o, <1>s, <2>1 DEF SearchOf
<1>9. CASE ProposeConflict(w)
  <2>1. /\ r.pc = "propose" /\ q.need = r.need /\ q.st = r.st /\ q.pc = "check"
        /\ q.ret = r.ret - 1
    BY <1>0, <1>1, <1>9, NextLocals
  <2>2. spent' = IF r.ret = 1 THEN spent \cup {r.need} ELSE spent
    BY <1>1, <1>9 DEF ProposeConflict
  <2>3. r.ret \in Nat  BY FieldsOf
  <2>4. q.ret = 0 => q.need \in spent'  BY <2>1, <2>2, <2>3
  <2> QED  BY <1>o, <1>s, <2>1, <2>4 DEF SearchOf
<1>10. CASE AfterCommit(w)
  <2>1. /\ r.pc = "push" /\ q.need = r.need /\ q.pc = "check" /\ q.st = r.st
        /\ q.ret = r.ret
    BY <1>0, <1>1, <1>n, <1>10, NextLocals
  <2>2. r.ret > 0  BY <1>0, <1>1, <2>1 DEF BudgetLeft
  <2> QED  BY <1>o, <1>s, <2>1, <2>2 DEF SearchOf
<1>11. CASE Finish(w)  BY <1>0, <1>1, <1>11, NextLocals
<1> QED  BY <1>2, <1>3, <1>4, <1>5, <1>6, <1>7, <1>8, <1>9, <1>10, <1>11 DEF processNeed

LEMMA OthersKeep ==
  ASSUME TypeOK, NEW w \in Workers, processNeed(w), NEW v \in Workers, v # w
  PROVE  wk'[v] = wk[v]
BY DEF TypeOK, processNeed, Take, CheckDeficit, ScanMachine, SecondPass, ChooseFallback,
   ChooseSpread, NoCandidates, ReadBucketSeq, ProposeConflict, ProposeCommit, PushDisplaced,
   AfterCommit, Finish, LocalStep

\* How a step changes the work channel.
LEMMA WorkChange ==
  ASSUME IInv, [Next]_vars
  PROVE  \/ work' = work
         \/ work # <<>> /\ work' = Tail(work)
         \/ \E n \in Needs : work' = Append(work, [need |-> n, ret |-> Retries])
         \/ \E w \in Workers : wk[w].pc = "push" /\ \E q \in wk[w].disp : work' = Append(work, q)
<1>1. ASSUME NEW n \in Needs, Feed(n)
      PROVE  work' = work \/ work' = Append(work, [need |-> n, ret |-> Retries])
  BY <1>1 DEF Feed, Push
<1>2. ASSUME NEW w \in Workers, PushDisplaced(w)
      PROVE  wk[w].pc = "push" /\ \E q \in wk[w].disp : work' = Append(work, q)
  BY <1>2 DEF PushDisplaced, Push, AtPC
<1>3. ASSUME NEW w \in Workers, processNeed(w), ~PushDisplaced(w)
      PROVE  work' = work \/ (work # <<>> /\ work' = Tail(work))
  <2>1. CASE Take(w)  BY <2>1 DEF Take
  <2>2. CASE ~Take(w)
    BY <1>3, <2>2 DEF processNeed, CheckDeficit, ScanMachine, SecondPass, ChooseFallback,
       ChooseSpread, NoCandidates, ReadBucketSeq, ProposeConflict, ProposeCommit, AfterCommit,
       Finish, LocalStep
  <2> QED  BY <2>1, <2>2
<1>4. ASSUME NEW n \in Needs, SeedConfiguredSupply(n)
      PROVE  work' = work
  BY <1>4 DEF SeedConfiguredSupply
<1>5. Barrier => work' = work  BY DEF Barrier
<1>6. UNCHANGED vars => work' = work  BY DEF vars
<1> QED  BY <1>1, <1>2, <1>3, <1>4, <1>5, <1>6 DEF Next, RunCycle, Returned

\* A worker's pushes to make are written by its commit only.
LEMMA DispChange ==
  ASSUME IInv, [Next]_vars, NEW v \in Workers, wk'[v].pc = "push"
  PROVE  \/ wk[v].pc = "push" /\ wk'[v].disp \subseteq wk[v].disp
         \/ ProposeCommit(v) /\ wk'[v].disp = {x \in Displaced(wk[v]) : x.ret > 0}
<1>0. TypeOK  BY DEF IInv
<1>1. CASE wk'[v] = wk[v]  BY <1>1
<1>2. CASE ProposeCommit(v)  BY <1>0, <1>2, NextLocals
<1>3. CASE PushDisplaced(v)
  <2>1. wk[v].pc = "push" /\ \E x \in wk[v].disp : wk'[v].disp = wk[v].disp \ {x}
    BY <1>0, <1>3, NextLocals
  <2> QED  BY <2>1
<1>4. ASSUME processNeed(v), ~ProposeCommit(v), ~PushDisplaced(v) PROVE FALSE
  BY <1>0, <1>4, NextLocals DEF processNeed, Broken
<1> QED
  BY <1>0, <1>1, <1>2, <1>3, <1>4, OthersKeep
  DEF Next, RunCycle, Returned, SeedConfiguredSupply, Feed, Barrier, vars

LEMMA BudgetQueuedStep == IInv /\ BudgetQueued /\ [Next]_vars => BudgetQueued'
<1> SUFFICES ASSUME IInv, BudgetQueued, [Next]_vars PROVE BudgetQueued' OBVIOUS
<1>0. TypeOK  BY DEF IInv
<1>1. \A k \in DOMAIN work' : work'[k].ret > 0
  <2> SUFFICES ASSUME NEW k \in DOMAIN work' PROVE work'[k].ret > 0  OBVIOUS
  <2>1. CASE work' = work  BY <2>1 DEF BudgetQueued
  <2>2. CASE work # <<>> /\ work' = Tail(work)
    <3>1. k + 1 \in DOMAIN work /\ work'[k] = work[k + 1]
      BY <1>0, <2>2, HeadTailProperties, LenProperties DEF TypeOK
    <3> QED  BY <3>1 DEF BudgetQueued
  <2>3. ASSUME NEW q \in QueuedNeed, q.ret > 0, work' = Append(work, q)
        PROVE  work'[k].ret > 0
    <3>1. work \in Seq(QueuedNeed)  BY <1>0 DEF TypeOK
    <3>2. (k \in DOMAIN work /\ work'[k] = work[k]) \/ work'[k] = q
      BY <2>3, <3>1, AppendProperties, LenProperties
    <3> QED  BY <2>3, <3>2 DEF BudgetQueued
  <2>4. ASSUME NEW n \in Needs, work' = Append(work, [need |-> n, ret |-> Retries])
        PROVE  work'[k].ret > 0
    <3>1. [need |-> n, ret |-> Retries] \in QueuedNeed /\ Retries > 0
      BY BoundsAssumption DEF QueuedNeed
    <3> QED  BY <2>3, <2>4, <3>1
  <2>5. ASSUME NEW w \in Workers, wk[w].pc = "push", NEW q \in wk[w].disp,
               work' = Append(work, q)
        PROVE  work'[k].ret > 0
    <3>1. q \in QueuedNeed  BY <1>0, FieldsOf DEF TypeOK
    <3>2. q.ret > 0  BY <2>5 DEF BudgetQueued
    <3> QED  BY <2>3, <2>5, <3>1, <3>2
  <2> QED  BY <2>1, <2>2, <2>4, <2>5, WorkChange
<1>2. ASSUME NEW w \in Workers, wk'[w].pc = "push", NEW q \in wk'[w].disp
      PROVE  q.ret > 0
  BY <1>2, DispChange DEF BudgetQueued
<1> QED  BY <1>1, <1>2 DEF BudgetQueued

LEMMA SearchStep == IInv /\ BudgetQueued /\ SearchSound /\ [Next]_vars => SearchSound'
<1> SUFFICES ASSUME IInv, BudgetQueued, SearchSound, [Next]_vars,
                    NEW v \in Workers, (wk[v].pc # "rest" /\ wk[v].need \in Plain)'
             PROVE  SearchOf(wk[v])'
  BY DEF SearchSound
<1>0. TypeOK /\ TypeOK' /\ in' = in  BY TypeStep, SameInput DEF IInv
<1>1. PICK q \in WorkerType : q = wk'[v]  BY <1>0 DEF TypeOK
<1>2. q.pc # "rest" /\ q.need \in Plain  BY <1>0, <1>1 DEF Plain, Spreads
<1>3. SearchOf(q)'
  <2>1. CASE wk'[v] = wk[v]
    <3>1. q = wk[v]  BY <1>1, <2>1
    <3>2. SearchOf(q)  BY <1>2, <3>1 DEF SearchSound
    <3> QED  BY <1>2, <3>2, SearchStays
  <2>2. CASE processNeed(v)
    <3>1. wk[v].pc # "rest" /\ wk[v].need \in Plain => SearchOf(wk[v])  BY DEF SearchSound
    <3> QED  BY <1>1, <1>2, <2>2, <3>1, SearchOwn
  <2> QED  BY <1>0, <2>1, <2>2, OthersKeep
           DEF Next, RunCycle, Returned, SeedConfiguredSupply, Feed, Barrier, vars
<1> QED  BY <1>1, <1>3 DEF SearchOf, Walked

-----------------------------------------------------------------------------
(* No short Need is forgotten.                                             *)

\* A set of numbers has a least one.
LEMMA LeastNumber ==
  ASSUME NEW T \in SUBSET Nat, T # {}
  PROVE  \E x \in T : \A y \in T : x <= y
<1> DEFINE R == OpToRel(<, Nat)
<1>1. PICK x \in T : \A y \in T : ~ (<<y, x>> \in R)  BY WFMin, NatLessThanWellFounded
<1>2. \A y \in T : <<y, x>> \in R <=> y < x  BY DEF OpToRel
<1> HIDE DEF R
<1>3. \A y \in T : ~(y < x)  BY <1>1, <1>2
<1> QED  BY <1>3

\* The feeding loop has passed n.
Fed(n) == main # "seed" /\ n \notin todo

\* Somebody is going to look at n's deficit again: n is queued, a worker has it,
\* or a worker is about to queue it.
EngagedIn(r, n) == r.need = n /\ r.pc \in {"check", "scan", "propose", "push"}
PushIn(r, n) == r.pc = "push" /\ \E q \in r.disp : q.need = n
Queued(n) == \E k \in DOMAIN work : work[k].need = n
Active(n) == Queued(n) \/ \E w \in Workers : EngagedIn(wk[w], n) \/ PushIn(wk[w], n)

\* n is covered, or nothing is left that it could take.
Served(n) == computeDeficit(n) = 0 \/ \A st \in States : Exhausted(n, st)

NobodyForgotten == \A n \in Plain \ spent : Fed(n) => Served(n) \/ Active(n)

LEMMA ServedStays ==
  ASSUME IInv, [Next]_vars, NEW n \in Needs, Served(n), claimedByNeed'[n] = claimedByNeed[n]
  PROVE  Served(n)'
<1>1. in' = in  BY SameInput
<1>2. computeDeficit(n)' = computeDeficit(n)  BY <1>1 DEF computeDeficit, Sum
<1>3. \A st \in States : Exhausted(n, st) => Exhausted(n, st)'  BY ExhaustedStays
<1> QED  BY <1>2, <1>3 DEF Served

\* The broker reports every Need from which a commit takes a machine.
LEMMA LossReported ==
  ASSUME IInv, NEW w \in Workers, ProposeCommit(w), NEW n \in Needs, n # wk[w].need
  PROVE  \/ claimedByNeed'[n] = claimedByNeed[n]
         \/ \E q \in Displaced(wk[w]) : q.need = n
<1> DEFINE r == wk[w]
           S == {m \in displace(r) : claimedBy[m].need = n}
<1>0. TypeOK  BY DEF IInv
<1>1. r \in WorkerType /\ r.need \in Needs /\ Commit(r)  BY Committer
<1> HIDE DEF r
<1>2. displace(r) \subseteq Machines  BY <1>0, <1>1, PlanType
<1>3. claimedByNeed'[n] = claimedByNeed[n] \ S  BY <1>1 DEF Commit, r
<1>4. CASE S = {}  BY <1>3, <1>4
<1>5. CASE S # {}
  <2> DEFINE T == {claimedBy[m].ret : m \in S}
  <2>0. \A m \in S : claimedBy[m].ret \in Nat  BY <1>0, <1>2 DEF TypeOK, Claims
  <2> HIDE DEF S
  <2>1. T \in SUBSET Nat /\ T # {}  BY <1>5, <2>0
  <2>2. PICK x \in T : \A y \in T : x <= y  BY <2>1, LeastNumber
  <2>3. PICK m \in S : claimedBy[m].ret = x  BY <2>2
  <2> USE DEF S
  <2>4. \A y \in displace(r) : claimedBy[y].need = claimedBy[m].need
                                  => claimedBy[m].ret <= claimedBy[y].ret
    BY <2>2, <2>3
  <2>5. [need |-> n, ret |-> x - 1] \in Displaced(r)  BY <2>3, <2>4 DEF Displaced
  <2> QED  BY <2>5 DEF r
<1> QED  BY <1>4, <1>5

LEMMA QueuedStays ==
  ASSUME TypeOK, NEW n, Queued(n),
         work' = work \/ \E q \in QueuedNeed : work' = Append(work, q)
  PROVE  Queued(n)'
<1>1. CASE work' = work  BY <1>1 DEF Queued
<1>2. ASSUME NEW q \in QueuedNeed, work' = Append(work, q) PROVE Queued(n)'
  <2>1. work \in Seq(QueuedNeed)  BY DEF TypeOK
  <2>2. PICK k \in DOMAIN work : work[k].need = n  BY DEF Queued
  <2>3. k \in DOMAIN work' /\ work'[k] = work[k]
    BY <1>2, <2>1, AppendProperties, LenProperties
  <2> QED  BY <2>2, <2>3 DEF Queued
<1> QED  BY <1>1, <1>2

\* The claims of a Need change in a worker's step only by a commit.
LEMMA ClaimsKept ==
  ASSUME NEW w \in Workers, processNeed(w), ~ProposeCommit(w)
  PROVE  claimedByNeed' = claimedByNeed
BY DEF processNeed, Take, CheckDeficit, ScanMachine, SecondPass, ChooseFallback, ChooseSpread,
   NoCandidates, ReadBucketSeq, ProposeConflict, PushDisplaced, AfterCommit, Finish, LocalStep,
   state

\* A worker that has a plain Need keeps it, or has served it.
LEMMA EngagedKeeps ==
  ASSUME IInv, SearchSound, NEW w \in Workers, processNeed(w), ~ProposeCommit(w),
         NEW n \in Plain, n \notin spent, EngagedIn(wk[w], n)
  PROVE  EngagedIn(wk'[w], n) \/ Served(n)
<1>0. TypeOK  BY DEF IInv
<1>1. PICK r \in WorkerType : r = wk[w]  BY <1>0 DEF TypeOK
<1>2. PICK q : q = wk'[w]  OBVIOUS
<1>n. r.need = n /\ n \notin in.same \cup Spreads /\ r.pc # "rest" /\ SearchOf(r)
  BY <1>1 DEF EngagedIn, Plain, SearchSound
<1>e. q.need = n /\ q.pc \in {"check", "scan", "propose", "push"} => EngagedIn(wk'[w], n)
  BY <1>2 DEF EngagedIn
<1>3. CASE CheckDeficit(w)
  <2>1. /\ r.pc = "check" /\ q.need = r.need
        /\ q.pc = "scan" \/ (q.pc = "finish" /\ (r.ret = 0 \/ computeDeficit(r.need) = 0))
    BY <1>0, <1>1, <1>2, <1>3, NextLocals
  <2>2. r.ret # 0  BY <1>n, <2>1 DEF SearchOf
  <2> QED  BY <1>e, <1>n, <2>1, <2>2 DEF Served
<1>4. CASE NoCandidates(w)
  <2>1. /\ r.pc = "scan" /\ r.pass # "unclaimed" /\ PassEnded(r) /\ r.cands = {}
        /\ q.need = r.need /\ Broken(q, r)
    BY <1>0, <1>1, <1>2, <1>4, NextLocals
  <2>2. Walked(r) /\ r.pass = "displaceable"  BY <1>n, <2>1 DEF SearchOf
  <2>3. Exhausted(r.need, r.st)  BY <1>0, <1>n, <2>1, <2>2, WalkedAll
  <2>4. r.st = "Speculative" => Exhausted(n, "Idle")  BY <1>n DEF SearchOf
  <2> QED  BY <1>e, <1>n, <2>1, <2>3, <2>4 DEF Broken, Served, States
<1>5. CASE ScanMachine(w) \/ SecondPass(w) \/ ReadBucketSeq(w) \/ ProposeConflict(w)
             \/ PushDisplaced(w) \/ AfterCommit(w)
  <2>1. q.need = r.need /\ q.pc \in {"check", "scan", "propose", "push"}
    BY <1>0, <1>1, <1>2, <1>n, <1>5, NextLocals
  <2> QED  BY <1>e, <1>n, <2>1
<1>6. ASSUME ChooseFallback(w) \/ ChooseSpread(w) \/ Take(w) \/ Finish(w) PROVE FALSE
  BY <1>1, <1>n, <1>6 DEF ChooseFallback, ChooseSpread, Take, Finish, AtPC, SearchOf, EngagedIn
<1> QED  BY <1>3, <1>4, <1>5, <1>6 DEF processNeed

\* A Need that a worker is about to queue is queued next, or stays on its list.
LEMMA PushKeeps ==
  ASSUME IInv, NEW w \in Workers, processNeed(w), NEW n \in Needs, PushIn(wk[w], n)
  PROVE  PushIn(wk'[w], n) \/ Queued(n)'
<1>0. TypeOK  BY DEF IInv
<1>1. wk[w].pc = "push" /\ wk[w].disp # {}  BY DEF PushIn
<1>2. PushDisplaced(w)
  BY <1>1 DEF processNeed, Take, CheckDeficit, ScanMachine, SecondPass, ChooseFallback,
     ChooseSpread, NoCandidates, ReadBucketSeq, ProposeConflict, ProposeCommit, AfterCommit,
     Finish, AtPC
<1>3. PICK x \in wk[w].disp : Push(x) /\ wk'[w].disp = wk[w].disp \ {x} /\ wk'[w].pc = "push"
  BY <1>0, <1>2, NextLocals
<1>4. x \in QueuedNeed  BY <1>0, FieldsOf DEF TypeOK
<1>5. CASE x.need = n
  <2>1. work \in Seq(QueuedNeed) /\ work' = Append(work, x)  BY <1>0, <1>3 DEF TypeOK, Push
  <2>2. Len(work') = Len(work) + 1 /\ work'[Len(work) + 1] = x /\ work' \in Seq(QueuedNeed)
    BY <1>4, <2>1, AppendProperties
  <2>3. Len(work) + 1 \in DOMAIN work'  BY <2>1, <2>2, LenProperties
  <2> QED  BY <1>5, <2>2, <2>3 DEF Queued
<1>6. CASE x.need # n  BY <1>3, <1>6 DEF PushIn
<1> QED  BY <1>5, <1>6

\* A queued Need stays queued until a worker takes it.
LEMMA QueuedKeeps ==
  ASSUME IInv, NEW w \in Workers, processNeed(w), NEW n \in Needs, Queued(n)
  PROVE  Queued(n)' \/ EngagedIn(wk'[w], n)
<1>0. TypeOK /\ work \in Seq(QueuedNeed) /\ wk \in [Workers -> WorkerType]
  BY DEF IInv, TypeOK
<1>1. CASE Take(w)
  <2>1. PICK k \in DOMAIN work : work[k].need = n  BY DEF Queued
  <2>2. /\ work # <<>> /\ work' = Tail(work)
        /\ wk' = [wk EXCEPT ![w] = [Resting EXCEPT !.pc = "check",
                                      !.need = Head(work).need, !.ret = Head(work).ret]]
    BY <1>1 DEF Take
  <2>3. CASE k = 1
    <3>1. Head(work) = work[1]  BY <1>0, <2>2, HeadTailProperties
    <3>2. wk'[w].pc = "check" /\ wk'[w].need = n
      BY <1>0, <2>1, <2>2, <2>3, <3>1 DEF Resting
    <3> QED  BY <3>2 DEF EngagedIn
  <2>4. CASE k # 1
    <3>1. k - 1 \in DOMAIN work' /\ work'[k - 1] = work[k]
      BY <1>0, <2>1, <2>2, <2>4, HeadTailProperties, LenProperties
    <3> QED  BY <2>1, <3>1 DEF Queued
  <2> QED  BY <2>3, <2>4
<1>2. CASE PushDisplaced(w)
  <2>1. wk[w].disp \subseteq QueuedNeed  BY <1>0, FieldsOf
  <2>2. \E q \in QueuedNeed : work' = Append(work, q)  BY <1>2, <2>1 DEF PushDisplaced, Push
  <2> QED  BY <1>0, <2>2, QueuedStays
<1>3. CASE ~Take(w) /\ ~PushDisplaced(w)
  <2>1. work' = work
    BY <1>3 DEF processNeed, CheckDeficit, ScanMachine, SecondPass, ChooseFallback,
       ChooseSpread, NoCandidates, ReadBucketSeq, ProposeConflict, ProposeCommit, AfterCommit,
       Finish, LocalStep
  <2> QED  BY <1>0, <2>1, QueuedStays
<1> QED  BY <1>1, <1>2, <1>3

LEMMA ForgottenWorker ==
  ASSUME IInv, SearchSound, NEW w \in Workers, processNeed(w), NEW n \in Plain, n \notin spent',
         Served(n) \/ Active(n)
  PROVE  Served(n)' \/ Active(n)'
<1> DEFINE r == wk[w]
<1>0. TypeOK /\ BudgetLeft /\ [Next]_vars /\ n \in Needs /\ n \notin spent
  <2>1. [Next]_vars  BY DEF Next
  <2> QED  BY <2>1, SameInput DEF IInv, Plain
<1>r. r \in WorkerType /\ wk \in [Workers -> WorkerType]  BY <1>0 DEF TypeOK
<1>a. /\ Queued(n)' => Active(n)'
      /\ \A v \in Workers : EngagedIn(wk'[v], n) \/ PushIn(wk'[v], n) => Active(n)'
  BY DEF Active, Queued, EngagedIn, PushIn
<1>1. CASE claimedByNeed'[n] = claimedByNeed[n] /\ (ProposeCommit(w) => n # r.need)
  <2>1. Served(n) => Served(n)'  BY <1>0, <1>1, ServedStays
  <2>2. Queued(n) => Queued(n)' \/ EngagedIn(wk'[w], n)  BY <1>0, QueuedKeeps
  <2>3. ASSUME NEW v \in Workers, EngagedIn(wk[v], n) \/ PushIn(wk[v], n)
        PROVE  Served(n) \/ Active(n)'
    <3>1. CASE v # w
      <4>1. wk'[v] = wk[v]  BY <1>0, <3>1, OthersKeep
      <4> QED  BY <1>a, <2>3, <4>1
    <3>2. CASE v = w /\ PushIn(r, n)  BY <1>0, <1>a, <3>2, PushKeeps
    <3>3. CASE v = w /\ EngagedIn(r, n)
      <4>1. ~ProposeCommit(w)  BY <1>1, <3>3 DEF EngagedIn
      <4> QED  BY <1>0, <1>a, <3>3, <4>1, EngagedKeeps
    <3> QED  BY <2>3, <3>1, <3>2, <3>3
  <2> QED  BY <1>a, <2>1, <2>2, <2>3 DEF Active
<1>2. CASE ProposeCommit(w)
  <2>0. spent' = spent \cup {x.need : x \in {z \in Displaced(r) : z.ret = 0}}
    BY <1>2 DEF ProposeCommit
  <2>3. /\ r.pc = "propose" /\ wk'[w].pc = "push" /\ wk'[w].need = r.need
        /\ wk'[w].disp = {x \in Displaced(r) : x.ret > 0}
    BY <1>0, <1>2, NextLocals
  <2>2. r.need \in Needs  BY <1>0, <2>3 DEF TypeOK
  <2>4. CASE n = r.need
    <3>1. EngagedIn(wk'[w], n)  BY <2>3, <2>4 DEF EngagedIn
    <3> QED  BY <1>a, <3>1
  <2>5. ASSUME n # r.need, NEW q \in Displaced(r), q.need = n
        PROVE  Active(n)'
    <3>1. q \in QueuedNeed  BY <1>0, <1>r, <2>2, DisplacedType
    <3>2. q.ret \in Nat  BY <3>1 DEF QueuedNeed
    <3>3. q.ret # 0  BY <1>0, <2>0, <2>5
    <3>4. q.ret > 0  BY <3>2, <3>3
    <3>5. PushIn(wk'[w], n)  BY <2>3, <2>5, <3>4 DEF PushIn
    <3> QED  BY <1>a, <3>5
  <2>6. CASE n # r.need /\ claimedByNeed'[n] = claimedByNeed[n]  BY <1>1, <2>6
  <2> QED  BY <1>0, <1>2, <2>4, <2>5, <2>6, LossReported
<1>3. CASE ~ProposeCommit(w)
  <2>1. claimedByNeed' = claimedByNeed  BY <1>3, ClaimsKept
  <2> QED  BY <1>1, <1>3, <2>1
<1> QED  BY <1>2, <1>3

LEMMA ForgottenStep == IInv /\ SearchSound /\ NobodyForgotten /\ [Next]_vars => NobodyForgotten'
<1> SUFFICES ASSUME IInv, SearchSound, NobodyForgotten, [Next]_vars,
                    NEW n \in Plain', n \notin spent', Fed(n)'
             PROVE  Served(n)' \/ Active(n)'
  BY DEF NobodyForgotten
<1>0. /\ TypeOK /\ in' = in /\ spent \subseteq spent'
      /\ n \in Plain /\ n \in Needs /\ n \notin spent
  BY SameInput DEF IInv, Plain, Spreads
<1>k. ASSUME claimedByNeed' = claimedByNeed, wk' = wk, Fed(n),
             work' = work \/ \E q \in QueuedNeed : work' = Append(work, q)
      PROVE  Served(n)' \/ Active(n)'
  <2>1. Served(n) \/ Active(n)  BY <1>0, <1>k DEF NobodyForgotten
  <2>2. Served(n) => Served(n)'  BY <1>0, <1>k, ServedStays
  <2>3. Queued(n) => Queued(n)'  BY <1>0, <1>k, QueuedStays
  <2>4. (\E v \in Workers : EngagedIn(wk[v], n) \/ PushIn(wk[v], n)) => Active(n)'
    BY <1>k DEF Active, EngagedIn, PushIn
  <2> QED  BY <2>1, <2>2, <2>3, <2>4 DEF Active
<1>1. ASSUME NEW o \in Needs, SeedConfiguredSupply(o)
      PROVE  FALSE
  BY <1>0, <1>1 DEF SeedConfiguredSupply, Fed
<1>2. ASSUME NEW o \in Needs, Feed(o)
      PROVE  Served(n)' \/ Active(n)'
  <2>1. main = "feed" /\ todo' = todo \ {o} /\ claimedByNeed' = claimedByNeed /\ wk' = wk
    BY <1>2 DEF Feed, state
  <2> DEFINE qn == [need |-> o, ret |-> Retries]
  <2>2. qn \in QueuedNeed /\ qn.need = o  BY BoundsAssumption DEF QueuedNeed
  <2>3. (computeDeficit(o) = 0 /\ work' = work) \/ work' = Append(work, qn)
    BY <1>2 DEF Feed, Push
  <2> HIDE DEF qn
  <2>4. CASE n # o
    <3>1. Fed(n)  BY <2>1, <2>4 DEF Fed
    <3> QED  BY <1>k, <2>1, <2>2, <2>3, <3>1
  <2>5. CASE n = o /\ computeDeficit(o) = 0
    <3>1. Served(n)  BY <2>5 DEF Served
    <3> QED  BY <1>0, <2>1, <3>1, ServedStays
  <2>6. CASE n = o /\ work' = Append(work, qn)
    <3>1. work \in Seq(QueuedNeed)  BY <1>0 DEF TypeOK
    <3>2. Len(work') = Len(work) + 1 /\ work'[Len(work) + 1] = qn /\ work' \in Seq(QueuedNeed)
      BY <2>2, <2>6, <3>1, AppendProperties
    <3>3. Len(work) + 1 \in DOMAIN work'  BY <3>1, <3>2, LenProperties
    <3>4. Queued(n)'  BY <2>2, <2>6, <3>2, <3>3 DEF Queued
    <3> QED  BY <3>4 DEF Active
  <2> QED  BY <2>3, <2>4, <2>5, <2>6
<1>3. CASE Barrier
  <2>1. /\ main = "wait" /\ todo' = todo /\ claimedByNeed' = claimedByNeed
        /\ wk' = wk /\ work' = work
    BY <1>3 DEF Barrier, state
  <2>2. Fed(n)  BY <2>1 DEF Fed
  <2> QED  BY <1>k, <2>1, <2>2
<1>4. CASE \E w \in Workers : processNeed(w)
  <2>1. PICK w \in Workers : processNeed(w)  BY <1>4
  <2>2. main' = main /\ todo' = todo
    BY <2>1 DEF processNeed, Take, CheckDeficit, ScanMachine, SecondPass, ChooseFallback,
       ChooseSpread, NoCandidates, ReadBucketSeq, ProposeConflict, ProposeCommit,
       PushDisplaced, AfterCommit, Finish, LocalStep
  <2>3. Served(n) \/ Active(n)  BY <1>0, <2>2 DEF Fed, NobodyForgotten
  <2> QED  BY <1>0, <2>1, <2>3, ForgottenWorker
<1>5. CASE UNCHANGED vars
  <2>1. UNCHANGED <<main, todo, claimedByNeed, wk, work>>  BY <1>5 DEF vars, state
  <2>2. Fed(n)  BY <2>1 DEF Fed
  <2> QED  BY <1>k, <2>1, <2>2
<1> QED  BY <1>1, <1>2, <1>3, <1>4, <1>5 DEF Next, RunCycle, Returned

SearchInv == BudgetQueued /\ SearchSound /\ NobodyForgotten

LEMMA SearchInvariant == Spec => [](IInv /\ SearchInv)
<1>1. Init => SearchInv
  BY DEF Init, SearchInv, BudgetQueued, SearchSound, NobodyForgotten, Fed, Resting
<1>2. IInv /\ SearchInv /\ [Next]_vars => SearchInv'
  BY BudgetQueuedStep, SearchStep, ForgottenStep DEF SearchInv
<1> QED  BY <1>1, <1>2, InitInv, Inductive, PTL DEF Spec

\* Past the barrier nothing is queued and nobody is at work, so a plain Need that
\* is short and kept a retry has been served: nothing is left that it could take.
LEMMA ServedAtEnd == IInv /\ SearchInv /\ (main = "done" => todo = {}) => NoInversion
<1> SUFFICES ASSUME IInv, SearchInv, main = "done", todo = {},
                    NEW n \in Needs \ (in.same \cup Spreads \cup spent), computeDeficit(n) > 0,
                    NEW st \in States, NEW m \in Elems(in.pool[n][st])
             PROVE  ~DisplaceableBy(m, n)
  BY DEF NoInversion
<1>1. n \in Plain \ spent /\ n \in Needs  BY DEF Plain
<1>2. work = <<>> /\ \A w \in Workers : wk[w].pc = "rest"  BY QuietWhenDone DEF BarrierQuiet
<1>3. ~Active(n)  BY <1>2 DEF Active, Queued, EngagedIn, PushIn
<1>4. Fed(n)  BY DEF Fed
<1>5. Served(n)  BY <1>1, <1>3, <1>4 DEF SearchInv, NobodyForgotten
<1>6. computeDeficit(n) # 0  BY <1>1, DeficitType DEF IInv
<1> QED  BY <1>5, <1>6 DEF Served, Exhausted

FedWhenOpen == main \in {"wait", "done"} => todo = {}

LEMMA FedWhenOpenStep == IInv /\ FedWhenOpen /\ [Next]_vars => FedWhenOpen'
<1> SUFFICES ASSUME FedWhenOpen, [Next]_vars PROVE FedWhenOpen'  OBVIOUS
<1>1. CASE RunCycle
  BY <1>1 DEF FedWhenOpen, RunCycle, SeedConfiguredSupply, Feed, Barrier
<1>2. ASSUME NEW w \in Workers, processNeed(w) PROVE UNCHANGED <<main, todo>>
  BY <1>2 DEF processNeed, Take, CheckDeficit, ScanMachine, SecondPass, ChooseFallback,
     ChooseSpread, NoCandidates, ReadBucketSeq, ProposeConflict, ProposeCommit, PushDisplaced,
     AfterCommit, Finish, LocalStep
<1>3. CASE UNCHANGED vars  BY <1>3 DEF FedWhenOpen, vars
<1> QED  BY <1>1, <1>2, <1>3 DEF FedWhenOpen, Next, Returned, vars

\* Priority decides (bigfleet.md section 16; occ/cycle.go processNeed and its
\* displacement): when RunCycle returns, a plain Need that is short and never
\* ran out of retries finds, in none of its pools, a machine that is free or
\* held by a Need it outranks - for any interleaving of the workers' walks,
\* which read the claims machine by machine without a lock around the walk.
THEOREM PriorityDecides == Spec => []NoInversion
<1>1. Init => FedWhenOpen  BY DEF Init, FedWhenOpen
<1>2. FedWhenOpen => (main = "done" => todo = {})  BY DEF FedWhenOpen
<1> QED
  BY <1>1, <1>2, FedWhenOpenStep, SearchInvariant, ServedAtEnd, PTL DEF Spec

-----------------------------------------------------------------------------
(* Re-queues.                                                              *)

\* The workers that are about to queue n again.
Pending(n) == {w \in Workers : PushIn(wk[w], n)}

\* The machines that are out of n's reach because another Need has them.
Beyond(n) == {m \in Machines : claimedBy[m].need \notin {0, n} /\ ~Less(claimedBy[m].need, n)}

LostForGood ==
  \A n \in Needs : requeues[n] + Cardinality(Pending(n)) <= Cardinality(Beyond(n))

\* A worker queues a displaced Need once, however many machines it took from it.
OnePushEach ==
  \A w \in Workers : wk[w].pc = "push" =>
    \A q, x \in wk[w].disp : q.need = x.need => q = x

LEMMA OnePushStep == IInv /\ OnePushEach /\ [Next]_vars => OnePushEach'
<1> SUFFICES ASSUME IInv, OnePushEach, [Next]_vars, NEW w \in Workers, wk'[w].pc = "push",
                    NEW q \in wk'[w].disp, NEW x \in wk'[w].disp, q.need = x.need
             PROVE  q = x
  BY DEF OnePushEach
<1>0. TypeOK  BY DEF IInv
<1>1. CASE wk[w].pc = "push" /\ wk'[w].disp \subseteq wk[w].disp  BY <1>1 DEF OnePushEach
<1>2. CASE ProposeCommit(w) /\ wk'[w].disp = {z \in Displaced(wk[w]) : z.ret > 0}
  <2> DEFINE r == wk[w]
  <2>1. r \in WorkerType /\ r.need \in Needs  BY <1>2, Committer
  <2> HIDE DEF r
  <2>2. q \in Displaced(r) /\ x \in Displaced(r)  BY <1>2 DEF r
  <2>3. PICK m \in displace(r) :
          /\ \A z \in displace(r) : claimedBy[z].need = claimedBy[m].need
                                       => claimedBy[m].ret <= claimedBy[z].ret
          /\ q = [need |-> claimedBy[m].need, ret |-> claimedBy[m].ret - 1]
    BY <2>2 DEF Displaced
  <2>4. PICK p \in displace(r) :
          /\ \A z \in displace(r) : claimedBy[z].need = claimedBy[p].need
                                       => claimedBy[p].ret <= claimedBy[z].ret
          /\ x = [need |-> claimedBy[p].need, ret |-> claimedBy[p].ret - 1]
    BY <2>2 DEF Displaced
  <2>5. claimedBy[m].need = claimedBy[p].need  BY <2>3, <2>4
  <2>6. claimedBy[m].ret \in Nat /\ claimedBy[p].ret \in Nat
    BY <1>0, <2>1, <2>3, <2>4, PlanType DEF TypeOK, Claims
  <2>7. claimedBy[m].ret = claimedBy[p].ret  BY <2>3, <2>4, <2>5, <2>6
  <2> QED  BY <2>3, <2>4, <2>5, <2>7
<1> QED  BY <1>1, <1>2, DispChange

LEMMA CountedSets ==
  ASSUME TypeOK, NEW n
  PROVE  /\ IsFiniteSet(Pending(n)) /\ Cardinality(Pending(n)) \in Nat
         /\ IsFiniteSet(Beyond(n)) /\ Cardinality(Beyond(n)) \in Nat
<1>1. IsFiniteSet(Pending(n)) /\ IsFiniteSet(Beyond(n))
  BY FiniteAssumption, FS_Subset DEF Pending, Beyond
<1> QED  BY <1>1, FS_CardinalityType

\* What n has lost it does not get back.
LEMMA BeyondGrows ==
  ASSUME IInv, [Next]_vars, NEW n \in Needs
  PROVE  Beyond(n) \subseteq Beyond(n)'
<1>0. TypeOK /\ TypeOK' /\ in' = in  BY TypeStep, SameInput DEF IInv
<1> SUFFICES ASSUME NEW m \in Beyond(n) PROVE m \in Beyond(n)'  OBVIOUS
<1>1. m \in Machines /\ claimedBy[m].need \in Needs /\ claimedBy[m].need # n
      /\ ~Less(claimedBy[m].need, n)
  BY <1>0 DEF Beyond, TypeOK, Claims
<1>2. IsClaimed(m) /\ ~DisplaceableBy(m, n)
  BY <1>1, NeedsAssumption DEF IsClaimed, DisplaceableBy
<1>3. claimedBy'[m].need # 0 /\ ~Less(claimedBy[m].need, n)'
  BY <1>1, <1>2, Monotone DEF IsClaimed, DisplaceableBy
<1>4. claimedBy'[m].need # n
  <2>1. CASE claimedBy'[m] = claimedBy[m]  BY <1>1, <2>1
  <2>2. CASE claimedBy'[m] # claimedBy[m]
    <3>1. Less(claimedBy[m].need, claimedBy'[m].need)  BY <1>1, <1>2, <2>2, EvictStep
    <3> QED  BY <1>1, <3>1
  <2> QED  BY <2>1, <2>2
<1> QED  BY <1>1, <1>3, <1>4 DEF Beyond

\* Pushing n's entry takes the worker off the list.
LEMMA PendingPush ==
  ASSUME IInv, OnePushEach, NEW w \in Workers, PushDisplaced(w), NEW n \in Needs
  PROVE  \/ requeues'[n] = requeues[n] /\ Pending(n)' \subseteq Pending(n)
         \/ /\ requeues'[n] = requeues[n] + 1
            /\ w \in Pending(n) /\ Pending(n)' = Pending(n) \ {w}
<1>0. TypeOK /\ requeues \in [Needs -> Nat]  BY DEF IInv, TypeOK
<1>1. /\ wk[w].pc = "push" /\ wk'[w].pc = "push"
      /\ \E x \in wk[w].disp : /\ wk'[w].disp = wk[w].disp \ {x}
                               /\ requeues' = [requeues EXCEPT ![x.need] = @ + 1]
  BY <1>0, NextLocals
<1>2. PICK q \in wk[w].disp : /\ wk'[w].disp = wk[w].disp \ {q}
                              /\ requeues' = [requeues EXCEPT ![q.need] = @ + 1]
  BY <1>1
<1>3. \A v \in Workers \ {w} : wk'[v] = wk[v]  BY <1>0, OthersKeep DEF processNeed
<1>4. \A v \in Workers \ {w} : PushIn(wk'[v], n) <=> PushIn(wk[v], n)  BY <1>3
<1>5. Pending(n)' = {v \in Workers : PushIn(wk'[v], n)}  BY DEF Pending, PushIn
<1>6. CASE q.need # n
  <2>1. requeues'[n] = requeues[n]  BY <1>0, <1>2, <1>6
  <2>2. PushIn(wk'[w], n) => PushIn(wk[w], n)  BY <1>1, <1>2 DEF PushIn
  <2> QED  BY <1>4, <1>5, <2>1, <2>2 DEF Pending
<1>7. CASE q.need = n
  <2>1. requeues'[n] = requeues[n] + 1  BY <1>0, <1>2, <1>7
  <2>2. PushIn(wk[w], n)  BY <1>1, <1>2, <1>7 DEF PushIn
  <2>3. ~PushIn(wk'[w], n)  BY <1>1, <1>2, <1>7 DEF PushIn, OnePushEach
  <2> QED  BY <1>4, <1>5, <2>1, <2>2, <2>3 DEF Pending
<1> QED  BY <1>6, <1>7

\* A commit that displaces n puts a machine beyond it.
LEMMA BeyondCommit ==
  ASSUME IInv, NEW w \in Workers, ProposeCommit(w), NEW n \in Needs,
         NEW q \in Displaced(wk[w]), q.need = n
  PROVE  \E m \in Beyond(n)' : m \notin Beyond(n)
<1> DEFINE r == wk[w]
<1>0. TypeOK /\ [Next]_vars  BY DEF IInv, Next, processNeed
<1>1. r \in WorkerType /\ r.need \in Needs /\ Commit(r)  BY Committer
<1> HIDE DEF r
<1>2. PICK m \in displace(r) : claimedBy[m].need = n  BY DEF Displaced, r
<1>3. m \in Machines /\ Less(n, r.need)  BY <1>0, <1>1, <1>2, PlanType
<1>4. claimedBy'[m].need = r.need  BY <1>1, <1>2, <1>3 DEF Commit
<1>5. r.need # n /\ r.need # 0 /\ ~Less(r.need, n)
  BY <1>0, <1>1, <1>3, LessOrder, NeedsAssumption
<1>6. in' = in  BY <1>0, SameInput
<1>7. ~Less(claimedBy[m].need, n)'  BY <1>4, <1>5, <1>6 DEF Less
<1>8. m \in Beyond(n)'  BY <1>3, <1>4, <1>5, <1>7 DEF Beyond
<1>9. m \notin Beyond(n)  BY <1>2 DEF Beyond
<1> QED  BY <1>8, <1>9

LEMMA RequeuesChange ==
  ASSUME [Next]_vars
  PROVE  requeues' = requeues \/ \E w \in Workers : PushDisplaced(w)
BY DEF Next, RunCycle, processNeed, vars, SeedConfiguredSupply, Feed, Barrier,
   Returned, Take, CheckDeficit, ScanMachine, SecondPass, ChooseFallback, ChooseSpread,
   NoCandidates, ReadBucketSeq, ProposeConflict, ProposeCommit, AfterCommit, Finish, LocalStep

LEMMA LostStep == IInv /\ OnePushEach /\ LostForGood /\ [Next]_vars => LostForGood'
<1> SUFFICES ASSUME IInv, OnePushEach, LostForGood, [Next]_vars, NEW n \in Needs
             PROVE  requeues'[n] + Cardinality(Pending(n)') <= Cardinality(Beyond(n)')
  BY DEF LostForGood
<1>0. TypeOK /\ TypeOK'  BY TypeStep DEF IInv
<1> DEFINE P == Pending(n)
           Q == Pending(n)'
           B == Beyond(n)
           C == Beyond(n)'
<1>1. /\ IsFiniteSet(P) /\ Cardinality(P) \in Nat /\ IsFiniteSet(B) /\ Cardinality(B) \in Nat
      /\ IsFiniteSet(Q) /\ Cardinality(Q) \in Nat /\ IsFiniteSet(C) /\ Cardinality(C) \in Nat
  <2>1. IsFiniteSet(Q) /\ IsFiniteSet(C)  BY FiniteAssumption, FS_Subset DEF Pending, Beyond
  <2> QED  BY <1>0, <2>1, CountedSets, FS_CardinalityType
<1>2. B \subseteq C  BY BeyondGrows
<1>3. requeues[n] \in Nat /\ requeues'[n] \in Nat  BY <1>0 DEF TypeOK
<1>4. requeues[n] + Cardinality(P) <= Cardinality(B)  BY DEF LostForGood
<1>5. Cardinality(B) <= Cardinality(C)  BY <1>1, <1>2, FS_Subset
<1>6. CASE requeues'[n] = requeues[n] /\ Q \subseteq P
  <2>1. Cardinality(Q) <= Cardinality(P)  BY <1>1, <1>6, FS_Subset
  <2> HIDE DEF P, Q, B, C
  <2>2. requeues'[n] + Cardinality(Q) <= Cardinality(C)  BY <1>1, <1>3, <1>4, <1>5, <1>6, <2>1
  <2> QED  BY <2>2 DEF Q, C
<1>7. ASSUME NEW w \in Workers, PushDisplaced(w)
      PROVE  requeues'[n] + Cardinality(Q) <= Cardinality(C)
  <2>1. CASE requeues'[n] = requeues[n] + 1 /\ w \in P /\ Q = P \ {w}
    <3>1. Cardinality(Q) = Cardinality(P) - 1  BY <1>1, <2>1, FS_RemoveElement
    <3> HIDE DEF P, Q, B, C
    <3> QED  BY <1>1, <1>3, <1>4, <1>5, <2>1, <3>1
  <2> QED  BY <1>6, <1>7, <2>1, PendingPush
<1>8. ASSUME requeues' = requeues, NEW w \in Q, w \notin P
      PROVE  requeues'[n] + Cardinality(Q) <= Cardinality(C)
  <2>1. w \in Workers /\ wk'[w].pc = "push" /\ \E q \in wk'[w].disp : q.need = n
    BY <1>8 DEF Pending, PushIn
  <2>2. ProposeCommit(w) /\ wk'[w].disp = {x \in Displaced(wk[w]) : x.ret > 0}
    <3>1. ~(wk[w].pc = "push" /\ wk'[w].disp \subseteq wk[w].disp)
      BY <1>8, <2>1 DEF Pending, PushIn
    <3> QED  BY <2>1, <3>1, DispChange
  <2>3. PICK m \in C : m \notin B  BY <2>1, <2>2, BeyondCommit
  <2>4. Q \subseteq P \cup {w}
    <3> SUFFICES ASSUME NEW v \in Workers, v # w, PushIn(wk'[v], n) PROVE PushIn(wk[v], n)
      BY DEF Pending, PushIn
    <3>1. processNeed(w)  BY <2>2 DEF processNeed
    <3>2. wk'[v] = wk[v]  BY <1>0, <2>1, <3>1, OthersKeep
    <3> QED  BY <3>2
  <2> HIDE DEF P, Q, B, C
  <2>5. Cardinality(P \cup {w}) = Cardinality(P) + 1 /\ IsFiniteSet(P \cup {w})
    BY <1>1, <1>8, FS_AddElement
  <2>6. Cardinality(Q) <= Cardinality(P) + 1  BY <2>4, <2>5, FS_Subset
  <2>7. Cardinality(B \cup {m}) = Cardinality(B) + 1 /\ IsFiniteSet(B \cup {m})
    BY <1>1, <2>3, FS_AddElement
  <2>8. B \cup {m} \subseteq C  BY <1>2, <2>3
  <2>9. Cardinality(B) + 1 <= Cardinality(C)  BY <1>1, <2>7, <2>8, FS_Subset
  <2> QED  BY <1>1, <1>3, <1>4, <1>8, <2>6, <2>9
<1> QED  BY <1>6, <1>7, <1>8, RequeuesChange

\* A displaced Need is put back in the queue at most once per machine it lost
\* (the push of what Broker.Propose displaced, in processNeed): each re-queue,
\* done or about to be done, has a machine of its own that an outranking Need
\* holds and the loser can not get back.
THEOREM RequeuesAreBounded == Spec => []RequeuedOncePerMachine
<1>1. Init => OnePushEach /\ LostForGood
  <2> SUFFICES ASSUME Init PROVE OnePushEach /\ LostForGood  OBVIOUS
  <2>1. OnePushEach  BY DEF Init, OnePushEach, Resting
  <2>2. ASSUME NEW n \in Needs
        PROVE  requeues[n] + Cardinality(Pending(n)) <= Cardinality(Beyond(n))
    <3>1. Pending(n) = {}  BY DEF Init, Pending, PushIn, Resting
    <3>2. Cardinality(Pending(n)) = 0 /\ requeues[n] = 0  BY <3>1, FS_EmptySet DEF Init
    <3>3. Cardinality(Beyond(n)) \in Nat  BY InitInv, CountedSets DEF IInv
    <3> QED  BY <3>2, <3>3
  <2> QED  BY <2>1, <2>2 DEF LostForGood
<1>2. IInv /\ LostForGood => RequeuedOncePerMachine
  <2> SUFFICES ASSUME IInv, LostForGood, NEW n \in Needs
               PROVE  requeues[n] + Cardinality(claimedByNeed[n]) <= Cardinality(Machines)
    BY DEF RequeuedOncePerMachine
  <2>0. TypeOK /\ IndexesAgree  BY DEF IInv
  <2> DEFINE A == claimedByNeed[n]
             B == Beyond(n)
  <2>1. A \subseteq Machines /\ B \subseteq Machines  BY <2>0 DEF TypeOK, Beyond
  <2>2. IsFiniteSet(A) /\ IsFiniteSet(B) /\ IsFiniteSet(Machines)
    BY <2>1, FiniteAssumption, FS_Subset
  <2>3. A \cap B = {}  BY <2>0, <2>1 DEF IndexesAgree, Beyond
  <2>4. /\ Cardinality(A) \in Nat /\ Cardinality(B) \in Nat /\ Cardinality(Machines) \in Nat
        /\ Cardinality(Pending(n)) \in Nat
    BY <2>0, <2>2, CountedSets, FS_CardinalityType
  <2>5. requeues[n] \in Nat /\ requeues[n] + Cardinality(Pending(n)) <= Cardinality(B)
    BY <2>0 DEF TypeOK, LostForGood
  <2> HIDE DEF A, B
  <2>6. Cardinality(A \cup B) = Cardinality(A) + Cardinality(B) - Cardinality(A \cap B)
    BY <2>2, FS_Union
  <2>7. Cardinality(A \cap B) = 0  BY <2>3, FS_EmptySet
  <2>8. A \cup B \subseteq Machines  BY <2>1
  <2>9. Cardinality(A \cup B) <= Cardinality(Machines)  BY <2>2, <2>8, FS_Subset
  <2>10. requeues[n] + Cardinality(A) <= Cardinality(Machines)
    BY <2>4, <2>5, <2>6, <2>7, <2>9
  <2> QED  BY <2>10 DEF A
<1>3. IInv /\ OnePushEach /\ LostForGood /\ [Next]_vars => (OnePushEach /\ LostForGood)'
  BY OnePushStep, LostStep
<1> QED  BY <1>1, <1>2, <1>3, InitInv, Inductive, PTL DEF Spec

-----------------------------------------------------------------------------
(* Gangs.                                                                  *)

\* Until the pre-pass is over no worker has work, and a Need it has not reached
\* holds nothing.
SeedQuiet == main = "seed" => wg = 0 /\ \A n \in todo : claimedByNeed[n] = {}

\* A worker that searches for a gang with a recorded domain d stays in it.
ConfinedIn(r, d) ==
  /\ r.pc = "scan" => r.pass = "domain" /\ r.dom = d
  /\ r.pc \in {"scan", "propose"} => \A m \in r.cands : in.dom[m] = d

Confined ==
  \A n \in in.same : sameDomain[n] # 0 =>
    /\ \A m \in claimedByNeed[n] : in.dom[m] = sameDomain[n]
    /\ \A w \in Workers : wk[w].need = n => ConfinedIn(wk[w], sameDomain[n])

LEMMA QuietSeed ==
  ASSUME TypeOK, WgExact, wg = 0
  PROVE  \A w \in Workers : wk[w].pc = "rest" /\ ~processNeed(w)
<1>1. Len(work) \in Nat /\ Cardinality(Busy) \in Nat
  BY BusyFinite, LenProperties DEF TypeOK
<1>2. Len(work) = 0  BY <1>1 DEF WgExact, Busy
<1>3. work = <<>>  BY <1>2, EmptySeq DEF TypeOK
<1>4. \A w \in Workers : wk[w].pc = "rest"  BY BusyCounted
<1> QED
  BY <1>3, <1>4 DEF processNeed, Take, CheckDeficit, ScanMachine, SecondPass, ChooseFallback,
     ChooseSpread, NoCandidates, ReadBucketSeq, ProposeConflict, ProposeCommit, PushDisplaced,
     AfterCommit, Finish, AtPC

LEMMA SeedQuietStep == IInv /\ SeedQuiet /\ [Next]_vars => SeedQuiet'
<1> SUFFICES ASSUME IInv, SeedQuiet, [Next]_vars, main' = "seed"
             PROVE  wg' = 0 /\ \A n \in todo' : claimedByNeed'[n] = {}
  BY DEF SeedQuiet
<1>0. TypeOK /\ WgExact  BY DEF IInv
<1>1. ASSUME NEW o \in Needs, SeedConfiguredSupply(o)
      PROVE  wg' = 0 /\ \A n \in todo' : claimedByNeed'[n] = {}
  <2>1. main = "seed" /\ wg' = wg /\ todo' = todo \ {o}
    BY <1>1 DEF SeedConfiguredSupply
  <2>2. PICK ms \in SUBSET Machines : SeedClaims(o, ms)  BY <1>0, <1>1, SeededFree
  <2>3. \A n \in Needs \ {o} : claimedByNeed'[n] = claimedByNeed[n]
    BY <1>0, <2>2 DEF SeedClaims, TypeOK
  <2> QED  BY <1>0, <2>1, <2>3 DEF SeedQuiet, TypeOK
<1>2. CASE \E w \in Workers : processNeed(w)
  <2>1. main = "seed"
    BY <1>2 DEF processNeed, Take, CheckDeficit, ScanMachine, SecondPass, ChooseFallback,
       ChooseSpread, NoCandidates, ReadBucketSeq, ProposeConflict, ProposeCommit,
       PushDisplaced, AfterCommit, Finish, LocalStep
  <2> QED  BY <1>0, <1>2, <2>1, QuietSeed DEF SeedQuiet
<1>3. CASE UNCHANGED vars  BY <1>3 DEF vars, state, SeedQuiet
<1> QED  BY <1>1, <1>2, <1>3 DEF Next, RunCycle, Returned, Feed, Barrier

LEMMA ConfinedWorker ==
  ASSUME IInv, NEW w \in Workers, processNeed(w), NEW n \in in.same, sameDomain[n] # 0,
         wk[w].need = n => ConfinedIn(wk[w], sameDomain[n]), wk'[w].need = n
  PROVE  ConfinedIn(wk'[w], sameDomain[n])
<1> DEFINE d == sameDomain[n]
<1>0. TypeOK  BY DEF IInv
<1>1. PICK r \in WorkerType : r = wk[w]  BY <1>0 DEF TypeOK
<1>2. PICK q : q = wk'[w]  OBVIOUS
<1>c. r.need = n => ConfinedIn(r, d)  BY <1>1
<1>q. q.need = n  BY <1>2
<1> SUFFICES ConfinedIn(q, d)  BY <1>2
<1>3. CASE CheckDeficit(w)
  <2>1. /\ q.need = r.need
        /\ \/ q.pc = "finish"
           \/ /\ q.pc = "scan" /\ q.pass = FirstPass(r.need) /\ q.cands = {}
              /\ q.dom = sameDomain[r.need]
    BY <1>0, <1>1, <1>2, <1>3, NextLocals
  <2>2. FirstPass(n) = "domain"  BY DEF FirstPass
  <2> QED  BY <1>q, <2>1, <2>2 DEF ConfinedIn
<1>4. CASE ScanMachine(w)
  <2>1. /\ r.pc = "scan" /\ q.need = r.need /\ q.pc = "scan" /\ q.pass = r.pass /\ q.dom = r.dom
        /\ \/ Picks(r, PoolOf(r)[r.i]) /\ q.cands = r.cands \cup {PoolOf(r)[r.i]}
           \/ q.cands = r.cands
    BY <1>0, <1>1, <1>2, <1>4, NextLocals
  <2>2. r.pass = "domain" /\ r.dom = d /\ \A m \in r.cands : in.dom[m] = d
    BY <1>c, <1>q, <2>1 DEF ConfinedIn
  <2>3. Picks(r, PoolOf(r)[r.i]) => in.dom[PoolOf(r)[r.i]] = d  BY <2>2 DEF Picks
  <2> QED  BY <2>1, <2>2, <2>3 DEF ConfinedIn
<1>5. ASSUME SecondPass(w) \/ ChooseFallback(w) \/ ChooseSpread(w) PROVE FALSE
  <2>1. r.pc = "scan" /\ r.pass # "domain" /\ q.need = r.need
    BY <1>0, <1>1, <1>2, <1>5, NextLocals
  <2> QED  BY <1>c, <1>q, <2>1 DEF ConfinedIn
<1>6. CASE ReadBucketSeq(w)
  <2>1. r.pc = "scan" /\ q.need = r.need /\ q.pc = "propose" /\ q.cands = r.cands
    BY <1>0, <1>1, <1>2, <1>6, NextLocals
  <2> QED  BY <1>c, <1>q, <2>1 DEF ConfinedIn
<1>7. CASE Take(w) \/ NoCandidates(w) \/ ProposeConflict(w) \/ ProposeCommit(w)
             \/ PushDisplaced(w) \/ AfterCommit(w) \/ Finish(w)
  <2>1. q.pc \notin {"scan", "propose"}
    BY <1>0, <1>1, <1>2, <1>7, NextLocals DEF Broken
  <2> QED  BY <2>1 DEF ConfinedIn
<1> QED  BY <1>3, <1>4, <1>5, <1>6, <1>7 DEF processNeed

LEMMA ConfinedStep == IInv /\ SeedQuiet /\ Confined /\ [Next]_vars => Confined'
<1> SUFFICES ASSUME IInv, SeedQuiet, Confined, [Next]_vars,
                    NEW n \in in.same, sameDomain'[n] # 0
             PROVE  /\ \A m \in claimedByNeed'[n] : in.dom[m] = sameDomain'[n]
                    /\ \A w \in Workers : wk'[w].need = n => ConfinedIn(wk'[w], sameDomain'[n])
  BY SameInput DEF Confined, ConfinedIn
<1>0. TypeOK /\ WgExact /\ in' = in /\ n \in Needs
  BY SameInput, InputsAssumption DEF IInv, TypeOK, InputType
<1>1. ASSUME NEW o \in Needs, SeedConfiguredSupply(o)
      PROVE  /\ \A m \in claimedByNeed'[n] : in.dom[m] = sameDomain'[n]
             /\ \A w \in Workers : wk'[w].need = n => ConfinedIn(wk'[w], sameDomain'[n])
  <2>1. main = "seed" /\ o \in todo /\ wk' = wk  BY <1>1 DEF SeedConfiguredSupply
  <2>2. \A w \in Workers : wk[w].pc = "rest"  BY <1>0, <2>1, QuietSeed DEF SeedQuiet
  <2>3. \A w \in Workers : ConfinedIn(wk'[w], sameDomain'[n])
    BY <2>1, <2>2 DEF ConfinedIn
  <2>4. CASE n # o
    <3>1. PICK ms \in SUBSET Machines : SeedClaims(o, ms)  BY <1>0, <1>1, SeededFree
    <3>2. claimedByNeed'[n] = claimedByNeed[n]  BY <1>0, <2>4, <3>1 DEF SeedClaims, TypeOK
    <3>3. sameDomain'[n] = sameDomain[n]
      BY <1>0, <1>1, <2>4 DEF SeedConfiguredSupply, SeedPlain, SeedSame, SeedNowhere, TypeOK
    <3> QED  BY <2>3, <3>2, <3>3 DEF Confined
  <2>5. CASE n = o /\ SeedSame(o)
    <3>1. PICK d \in ChooseSameBucket(n) :
            /\ sameDomain' = [sameDomain EXCEPT ![n] = d]
            /\ SeedClaims(n, ClaimIncumbentFirst(n, d))
      BY <2>5 DEF SeedSame
    <3>2. sameDomain'[n] = d  BY <1>0, <3>1 DEF TypeOK
    <3>3. ClaimIncumbentFirst(n, d) \subseteq InDomain(d)
      BY WalkWithin DEF ClaimIncumbentFirst
    <3>4. claimedByNeed'[n] = claimedByNeed[n] \cup ClaimIncumbentFirst(n, d)
      BY <1>0, <3>1 DEF SeedClaims, TypeOK
    <3>5. claimedByNeed[n] = {}  BY <2>1, <2>5 DEF SeedQuiet
    <3> QED  BY <2>3, <3>2, <3>3, <3>4, <3>5 DEF InDomain
  <2>6. CASE n = o /\ SeedNowhere(o)
    <3>1. claimedByNeed' = claimedByNeed /\ sameDomain' = sameDomain  BY <2>6 DEF SeedNowhere
    <3> QED  BY <2>3, <3>1 DEF Confined
  <2>7. CASE n = o /\ SeedPlain(o)  BY <2>7 DEF SeedPlain
  <2> QED  BY <1>1, <2>4, <2>5, <2>6, <2>7 DEF SeedConfiguredSupply
<1>2. ASSUME NEW w \in Workers, processNeed(w)
      PROVE  /\ \A m \in claimedByNeed'[n] : in.dom[m] = sameDomain'[n]
             /\ \A v \in Workers : wk'[v].need = n => ConfinedIn(wk'[v], sameDomain'[n])
  <2>1. sameDomain' = sameDomain
    BY <1>2 DEF processNeed, Take, CheckDeficit, ScanMachine, SecondPass, ChooseFallback,
       ChooseSpread, NoCandidates, ReadBucketSeq, ProposeConflict, ProposeCommit,
       PushDisplaced, AfterCommit, Finish, LocalStep, state
  <2>2. ASSUME NEW v \in Workers, wk'[v].need = n
        PROVE  ConfinedIn(wk'[v], sameDomain[n])
    <3>1. CASE v # w
      <4>1. wk'[v] = wk[v]  BY <1>0, <1>2, <3>1, OthersKeep
      <4> QED  BY <2>1, <2>2, <4>1 DEF Confined
    <3>2. CASE v = w
      <4>1. wk[w].need = n => ConfinedIn(wk[w], sameDomain[n])  BY <2>1 DEF Confined
      <4> QED  BY <1>0, <1>2, <2>1, <2>2, <3>2, <4>1, ConfinedWorker
    <3> QED  BY <3>1, <3>2
  <2>3. CASE ~ProposeCommit(w)
    <3>1. claimedByNeed' = claimedByNeed  BY <1>2, <2>3, ClaimsKept
    <3> QED  BY <2>1, <2>2, <3>1 DEF Confined
  <2>4. CASE ProposeCommit(w)
    <3> DEFINE r == wk[w]
    <3>1. r.pc = "propose" /\ Commit(r)  BY <2>4 DEF ProposeCommit, AtPC
    <3>2. \A m \in claimedByNeed'[n] : m \in claimedByNeed[n] \/ (n = r.need /\ m \in r.cands)
      BY <1>0, <3>1 DEF Commit, newClaim, displace
    <3>3. n = r.need => \A m \in r.cands : in.dom[m] = sameDomain[n]
      BY <2>1, <3>1 DEF Confined, ConfinedIn
    <3> QED  BY <2>1, <2>2, <3>2, <3>3 DEF Confined
  <2> QED  BY <2>3, <2>4
<1>3. CASE UNCHANGED <<claimedByNeed, sameDomain, wk>>  BY <1>3 DEF Confined
<1> QED  BY <1>1, <1>2, <1>3 DEF Next, RunCycle, Returned, Feed, Barrier, vars, state

\* A gang for which the pre-pass recorded a domain (SharedState.sameDomain) holds
\* machines of that domain only, whether they were credited, taken Idle or taken
\* Speculative.  A gang that virtual consumption leaves without a domain may be
\* scattered: SameInOneDomain fails for it.
THEOREM GangsConfined == Spec => []SameConfined
<1>1. Init => SeedQuiet /\ Confined
  <2> SUFFICES ASSUME Init PROVE SeedQuiet /\ Confined  OBVIOUS
  <2>1. in.same \subseteq Needs  BY InputsAssumption DEF Init, InputType
  <2>2. \A n \in Needs : sameDomain[n] = 0 /\ claimedByNeed[n] = {}  BY DEF Init
  <2>3. SeedQuiet  BY <2>2 DEF Init, SeedQuiet
  <2>4. Confined  BY <2>1, <2>2 DEF Confined
  <2> QED  BY <2>3, <2>4
<1>2. IInv /\ SeedQuiet /\ Confined /\ [Next]_vars => (SeedQuiet /\ Confined)'
  BY SeedQuietStep, ConfinedStep
<1>3. Confined => SameConfined  BY DEF Confined, SameConfined
<1> QED  BY <1>1, <1>2, <1>3, InitInv, Inductive, PTL DEF Spec

=============================================================================
