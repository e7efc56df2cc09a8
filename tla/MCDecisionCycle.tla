-------------------------- MODULE MCDecisionCycle --------------------------
(* Instances of DecisionCycle: the fleets and demands TLC explores.        *)
EXTENDS DecisionCycle

\* Machine 2 has no instance type, machine 4 no pool.
Attrs ==
    [m \in Machines |->
        [type |-> <<"small", "", "large", "other">>[m], zone |-> IF m < 3 THEN "z1" ELSE "z2",
         labels |-> IF m = 4 THEN [k \in {} |-> ""] ELSE [pool |-> "general"]]]

Req(key, op, values) == <<[key |-> key, op |-> op, values |-> values]>>
Anything == Req(ZoneKey, "Exists", {})
General  == Req("pool", "In", {"general"})
NotOther == Req(TypeKey, "NotIn", {"other"})
Untyped  == Req(TypeKey, "DoesNotExist", {})
Large    == Req(TypeKey, "In", {"large"})

\* A fleet of four machines, two in each domain, for a Need of cluster 1 and a
\* Need of cluster 2 that has the higher priority where p says so.
Fleet(same, p, wants, alloc, reqs, start, bound) ==
    [cluster |-> <<1, 2>>, class |-> <<1, 2>>, same |-> same, prio |-> p,
     reqs |-> reqs, attrs |-> Attrs, wants |-> wants, alloc |-> alloc, dom |-> <<1, 1, 2, 2>>,
     elastic |-> IF same = Needs THEN {} ELSE {3},
     st |-> start, bind |-> bound,
     aprio |-> [m \in Machines |-> IF bound[m] = 0 THEN 0 ELSE p[bound[m]]]]

Units == <<1, 1, 1, 1>>

\* Two plain Needs over three machines, two of them bound to the lower cluster.
Priorities(w, third) ==
    Fleet({}, <<1, 2>>, w, Units, <<NotOther, General>>,
          <<"Configured", "Configured", third, "Speculative">>, <<1, 1, 0, 0>>)

\* A gang of two whose cluster holds one machine in each domain, next to a
\* plain Need of higher priority.
Scattered ==
    Fleet({1}, <<1, 2>>, <<{2}, {0, 1}>>, Units, <<Anything, Anything>>,
          <<"Configured", "Idle", "Configured", "Speculative">>, <<1, 0, 1, 0>>)

\* A gang that finds one machine in either domain until the other cluster gives
\* one back.
Starved ==
    Fleet({1}, <<1, 2>>, <<{2}, {0, 1}>>, Units, <<General, Untyped>>,
          <<"Speculative", "Configured", "Idle", "Speculative">>, <<0, 2, 0, 0>>)

\* A gang that one big machine could hold, as long as nobody else takes it.
Foldable ==
    Fleet({1}, <<1, 2>>, <<{0, 2}, {0, 1}>>, <<1, 1, 2, 1>>, <<General, Large>>,
          <<"Idle", "Speculative", "Idle", "Speculative">>, <<0, 0, 0, 0>>)

\* Two gangs of equal priority that rank the same domains.
Rivals ==
    Fleet({1, 2}, <<1, 1>>, <<{2}, {2}>>, Units, <<Anything, Anything>>,
          <<"Idle", "Idle", "Idle", "Speculative">>, <<0, 0, 0, 0>>)

Fleets ==
    {Priorities(<<{0, 2}, {0, 1, 2}>>, "Speculative"), Priorities(<<{1, 2}, {1}>>, "Idle"),
     Scattered, Starved, Foldable, Rivals}
=============================================================================
