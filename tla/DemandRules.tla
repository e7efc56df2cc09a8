---------------------------- MODULE DemandRules ----------------------------
(***************************************************************************)
(* How a Pod becomes demand: the translation of a Pod's spec into a        *)
(* CapacityRequest (pkg/controller/cr), of a CapacityRequest into a Need   *)
(* and of Needs into roll-up rows (pkg/operator/rollup.go, pkg/needs), and *)
(* the wire form the shard decodes (pkg/conv).                             *)
(*                                                                         *)
(* A resource vector is a partial function from dimensions to numbers; a   *)
(* requirement is a pair of a key with its values and an operator; a       *)
(* penalty counts half dollars.                                            *)
(***************************************************************************)
EXTENDS Integers, Sequences, FiniteSets, FiniteSetsExt

CONSTANTS Dims,          \* resource names
          LastBucket,    \* PenaltyBucket8388608 = 26, the last below Pinned
          ClassDefaults, \* PriorityClassDefaults: a function from class names
          Nil,           \* an absent value: nil pointer, empty annotation
          Unparsable     \* an annotation that is no quantity

ASSUME BucketAssumption == LastBucket \in Nat /\ LastBucket > 2

\* A resource vector; Nil is none.
IsVector(v) == \E D \in SUBSET Dims : v \in [D -> Nat]
ASSUME NilAssumption == ~ IsVector(Nil)

\* A penalty: an annotation that parses, a default, or none.
IsPenalty(p) == p \in {Nil, Unparsable} \/ p \in Int
ASSUME DefaultsAssumption ==
    \A class \in DOMAIN ClassDefaults :
        \A kind \in {"interruption", "reclamation"} :
            ClassDefaults[class][kind] = Nil \/ ClassDefaults[class][kind] \in Int

-----------------------------------------------------------------------------
(* Resource vectors: resources.go, and the ResourceLists of controller.go. *)

Qty(v, d) == IF d \in DOMAIN v THEN v[d] ELSE 0

AddResources(a, b) == [d \in DOMAIN a \cup DOMAIN b |-> Qty(a, d) + Qty(b, d)]

MaxResources(a, b) ==
    [d \in DOMAIN a \cup DOMAIN b |-> IF Qty(b, d) > Qty(a, d) THEN Qty(b, d) ELSE Qty(a, d)]

Empty == [d \in {} |-> 0]

Covers(have, want) == \A d \in DOMAIN want : Qty(have, d) >= want[d]

AddAll(vs) ==
    LET sum[i \in 0 .. Len(vs)] == IF i = 0 THEN Empty ELSE AddResources(sum[i - 1], vs[i])
    IN sum[Len(vs)]

-----------------------------------------------------------------------------
(* The Pod's CapacityRequest.                                              *)

IsList(s) == Len(s) \in Nat /\ DOMAIN s = 1 .. Len(s)

\* A Pod the API server admits: requests are not negative, requirements and
\* spread constraints have two parts, and whenUnsatisfiable is one of its enum.
IsPod(pod) ==
    /\ IsList(pod.init) /\ IsList(pod.containers) /\ IsVector(pod.overhead)
    /\ \A j \in DOMAIN pod.init : IsVector(pod.init[j].req) /\ pod.init[j].restart \in BOOLEAN
    /\ \A j \in DOMAIN pod.containers : IsVector(pod.containers[j])
    /\ pod.affinity # Nil => \A r \in pod.affinity : r = <<r[1], r[2]>>
    /\ \A s \in pod.spread : s = <<s[1], s[2]>> /\ s[2] \in {"DoNotSchedule", "ScheduleAnyway"}
    /\ IsPenalty(pod.interruption) /\ IsPenalty(pod.reclamation)

\* A faulty form of initStages: sidecars started earlier are forgotten.
initStagesAlone(init) ==
    LET after[i \in 0 .. Len(init)] ==
          IF i = 0 THEN [sidecars |-> Empty, peak |-> Empty]
          ELSE [sidecars |-> IF init[i].restart THEN AddResources(after[i - 1].sidecars, init[i].req)
                             ELSE after[i - 1].sidecars,
                peak |-> MaxResources(after[i - 1].peak, init[i].req)]
    IN after[Len(init)]

\* The init containers one after the other: what runs beside the next one, and
\* the highest footprint so far.  A restartable one keeps running.
initStages(init) ==
    LET after[i \in 0 .. Len(init)] ==
          IF i = 0 THEN [sidecars |-> Empty, peak |-> Empty]
          ELSE LET stage == AddResources(after[i - 1].sidecars, init[i].req)
               IN [sidecars |-> IF init[i].restart THEN stage ELSE after[i - 1].sidecars,
                   peak |-> MaxResources(after[i - 1].peak, stage)]
    IN after[Len(init)]

resourcesFromPod(pod) ==
    LET stages == initStages(pod.init)
        main   == AddResources(AddAll(pod.containers), stages.sidecars)
    IN AddResources(MaxResources(main, stages.peak), pod.overhead)

AnyInstanceType == <<"instance-type", "Exists">>

\* The first term of the node affinity and the node selector; any machine when
\* the Pod has neither.
requirementsFromPod(pod) ==
    LET terms == IF pod.affinity = Nil THEN {} ELSE pod.affinity
        out   == terms \cup {<<k, "In">> : k \in pod.selector}
    IN IF out = {} /\ pod.affinity = Nil THEN {AnyInstanceType} ELSE out

\* Only constraints somebody enforces.
topologySpreadFromPod(pod) == {s \in pod.spread : s[2] # "ScheduleAnyway"}

\* The first required term of the pod affinity.
coLocationFromPod(pod) == IF pod.podAffinity = <<>> THEN Nil ELSE pod.podAffinity[1]

\* The annotation, then the default of the priority class, then nothing.
resolvePenalty(annotation, class, kind) ==
    IF annotation \notin {Nil, Unparsable} THEN annotation
    ELSE IF class \in DOMAIN ClassDefaults THEN ClassDefaults[class][kind] ELSE Nil

buildCRForPod(pod) ==
    [requirements |-> requirementsFromPod(pod),
     resources    |-> resourcesFromPod(pod),
     priority     |-> IF pod.priority = Nil THEN 0 ELSE pod.priority,
     spread       |-> topologySpreadFromPod(pod),
     coLocation   |-> coLocationFromPod(pod),
     interruption |-> resolvePenalty(pod.interruption, pod.class, "interruption"),
     reclamation  |-> resolvePenalty(pod.reclamation, pod.class, "reclamation")]

-----------------------------------------------------------------------------
(* The Need of a CapacityRequest.                                          *)

\* The upper bound of bucket b in half dollars; bucket 3 is one dollar.
UpperBound(b) == IF b <= 1 THEN 0 ELSE 2 ^ (b - 2)
Pinned == LastBucket + 1

\* The walk up the ladder.
BucketForDollars(halves) ==
    LET from[b \in 3 .. Pinned] ==
          IF b = Pinned \/ halves <= UpperBound(b) THEN b ELSE from[b + 1]
    IN IF halves <= 0 THEN 1 ELSE IF halves <= 1 THEN 2 ELSE from[3]

Bucket(penalty) == IF penalty = Nil THEN 0 ELSE BucketForDollars(penalty)

SupportedOperators == {"In", "NotIn", "Exists", "DoesNotExist"}

\* profileFromCapacityRequest returns no error.
Supported(cr) == \A r \in cr.requirements : r[2] \in SupportedOperators

\* The canonical co-location term, in which the order of the selector's
\* expressions is lost; one without a topology key is none.
coLocationGroup(cr) ==
    IF cr.coLocation = Nil \/ cr.coLocation.topologyKey = Nil THEN Nil
    ELSE <<cr.coLocation.topologyKey, Range(cr.coLocation.selector)>>

withSameRequirement(cr) ==
    IF coLocationGroup(cr) = Nil THEN cr.requirements
    ELSE cr.requirements \cup {<<cr.coLocation.topologyKey, "Same">>}

\* A Profile is what its fingerprint tells apart: NewProfile sorts the values,
\* requirements and spreads, so that they are sets here.
NewProfile(requirements, spread, priority, interruption, reclamation) ==
    [requirements |-> requirements, spread |-> spread, priority |-> priority,
     interruption |-> interruption, reclamation |-> reclamation]

\* One Pod is both the unit of demand and the smallest piece of it.
NeedOf(cr) ==
    [profile |-> NewProfile(withSameRequirement(cr),
                            {s \in cr.spread : s[2] # "ScheduleAnyway"}, cr.priority,
                            Bucket(cr.interruption), Bucket(cr.reclamation)),
     group   |-> coLocationGroup(cr),
     agg     |-> cr.resources,
     minUnit |-> cr.resources]

-----------------------------------------------------------------------------
(* The roll-up.                                                            *)

\* Aggregate's key, within one cluster.
SameRow(n, m) == n.profile = m.profile /\ n.group = m.group

\* A faulty form of AddNeed: the units add up like the totals.
AddNeedSumsUnit(rows, n) ==
    LET at == {k \in DOMAIN rows : SameRow(rows[k], n)}
    IN IF at = {} THEN Append(rows, n)
       ELSE [k \in DOMAIN rows |->
               IF k \notin at THEN rows[k]
               ELSE [rows[k] EXCEPT !.agg = AddResources(@, n.agg),
                                    !.minUnit = AddResources(@, n.minUnit)]]

\* A Need goes into its row, or behind the others.
AddNeed(rows, n) ==
    LET at == {k \in DOMAIN rows : SameRow(rows[k], n)}
    IN IF at = {} THEN Append(rows, n)
       ELSE [k \in DOMAIN rows |->
               IF k \notin at THEN rows[k]
               ELSE [rows[k] EXCEPT !.agg = AddResources(@, n.agg),
                                    !.minUnit = MaxResources(@, n.minUnit)]]

\* The Needs one after the other (a set of one, so that it is computed once).
Aggregate(ns) ==
    LET after[i \in 0 .. Len(ns)] ==
          IF i = 0 THEN {<<>>} ELSE {AddNeed(rows, ns[i]) : rows \in after[i - 1]}
    IN CHOOSE rows \in after[Len(ns)] : TRUE

\* The wire form: the Profile's fields side by side, no fingerprint, vectors as
\* maps that are absent when empty, enums by number with 0 for anything unknown.
resourceQtyMap(v) == IF DOMAIN v = {} THEN Nil ELSE v

Operators == <<"In", "NotIn", "Exists", "DoesNotExist", "Same">>
UnsatisfiableActions == <<"DoNotSchedule", "ScheduleAnyway">>

EnumNumber(names, x) ==
    IF x \in Range(names) THEN CHOOSE i \in DOMAIN names : names[i] = x ELSE 0
EnumName(names, i) == IF i \in DOMAIN names THEN names[i] ELSE "Unspecified"

operatorToProto(op) == EnumNumber(Operators, op)
RequirementsToProto(rs) == {<<r[1], operatorToProto(r[2])>> : r \in rs}
whenUnsatisfiableToProto(w) == EnumNumber(UnsatisfiableActions, w)

needToCapacityNeed(n) ==
    [requirements |-> RequirementsToProto(n.profile.requirements),
     spread       |-> {<<s[1], whenUnsatisfiableToProto(s[2])>> : s \in n.profile.spread},
     priority |-> n.profile.priority, group |-> n.group,
     buckets |-> <<n.profile.interruption, n.profile.reclamation>>,
     agg |-> resourceQtyMap(n.agg), minUnit |-> resourceQtyMap(n.minUnit)]

\* What the shard makes of a row; one number out of range refuses the roll-up.
resourceQtysFromProto(m) == IF m = Nil THEN Empty ELSE m
BucketsInRange(w) == \A i \in 1 .. 2 : w.buckets[i] \in 0 .. Pinned
OperatorsKnown(w) == \A r \in w.requirements : r[2] \in 0 .. Len(Operators)

operatorFromProto(i) == EnumName(Operators, i)
whenUnsatisfiableFromProto(i) == EnumName(UnsatisfiableActions, i)

NeedsFromRollup(w) ==
    [profile |-> NewProfile({<<r[1], operatorFromProto(r[2])>> : r \in w.requirements},
                            {<<s[1], whenUnsatisfiableFromProto(s[2])>> : s \in w.spread},
                            w.priority, w.buckets[1], w.buckets[2]),
     group |-> w.group,
     agg |-> resourceQtysFromProto(w.agg), minUnit |-> resourceQtysFromProto(w.minUnit)]

-----------------------------------------------------------------------------
(* Reference definitions.                                                  *)

\* What kube-scheduler charges: the most that is ever running at once, in one
\* dimension, over the stages of the Pod's life.
PeakOf(pod, d) ==
    LET beside   == [j \in DOMAIN pod.init |-> Qty(pod.init[j].req, d)]
        sidecars == {j \in DOMAIN pod.init : pod.init[j].restart}
        Init(S)  == SumFunctionOnSet(beside, S)
        main     == Init(sidecars)
                    + SumFunction([j \in DOMAIN pod.containers |-> Qty(pod.containers[j], d)])
        stages   == {Init({i} \cup {j \in sidecars : j < i}) : i \in DOMAIN pod.init}
    IN Max(stages \cup {main}) + Qty(pod.overhead, d)

\* The smallest bucket whose bound is no less than the penalty.
BucketOf(penalty) ==
    IF penalty = Nil THEN 0
    ELSE Min({b \in 1 .. LastBucket : UpperBound(b) >= penalty} \cup {Pinned})

=============================================================================
