----------------------------- MODULE MCOccCycle -----------------------------
(* Instances of OccCycle: the calls of RunCycle that TLC explores.         *)
EXTENDS OccCycle, TLC

CONSTANTS m1, m2, m3, m4, w1, w2

\* Every Need sees the same Idle and the same Speculative machines.
Snapshot(idle, spec) ==
    [n \in Needs |-> [st \in States |-> IF st = "Idle" THEN idle ELSE spec]]

\* A call with plain Needs only: demands d, priorities p, penalties x (the two
\* are part of the profile), pools as given, and m4 Configured for Need 1's
\* cluster.
PlainInput(d, p, x, pools) ==
    [demand |-> d, prio |-> p, pen |-> x,
     fp |-> [n \in Needs |-> p[n] + 3 * x[n]], same |-> {}, spread |-> {},
     gang |-> {}, parked |-> {},
     credit |-> [n \in Needs |-> IF n = 1 /\ m4 \in Machines THEN <<m4>> ELSE <<>>],
     pool |-> pools,
     own |-> [m \in Machines |-> 0],
     dom |-> [m \in Machines |-> 1],
     alloc |-> [m \in Machines |-> 1]]

\* A low Need is queued first and evicted by the later ones, which themselves
\* contend at equal precedence, at one priority with different penalties, or at
\* different priorities.
ContendedInputs ==
    {PlainInput(d, r[1], r[2], Snapshot(<<m1, m2>>, <<m3>>)) :
        d \in {<<3, 1, 1>>, <<2, 2, 2>>},
        r \in {<< <<1, 2, 2>>, <<0, 0, 0>> >>, << <<1, 2, 2>>, <<0, 0, 1>> >>,
               << <<2, 1, 3>>, <<0, 0, 0>> >>}}
    \cup {PlainInput(<<3, 2, 1>>, <<1, 2, 2>>, <<0, 0, 1>>, Snapshot(<<m1, m2>>, <<m3>>))}

\* A call with two gangs and, as Need 3, a plain Need: m1 Configured in domain 1
\* for Need 1's cluster, m2 Idle there, m3 Idle and m4 Speculative in domain 2.
\* A gang wants at least two machines: NormalizeDemand folds smaller ones.
GangInput(d, p, owner, parked) ==
    [demand |-> d, prio |-> p, pen |-> [n \in Needs |-> 0],
     fp |-> p, same |-> {1, 2}, spread |-> {},
     gang |-> {1, 2}, parked |-> parked,
     credit |-> [n \in Needs |-> IF n = 1 THEN <<m1>> ELSE <<>>],
     pool |-> Snapshot(<<m2, m3>>, <<m4>>),
     own |-> [m \in Machines |-> IF m = m1 THEN owner ELSE 0],
     dom |-> (m1 :> 1 @@ m2 :> 1 @@ m3 :> 2 @@ m4 :> 2),
     alloc |-> [m \in Machines |-> 1]]

\* Three gangs and two domains of two machines.  The two that come first in the
\* pre-pass consume the domains, the third is left without one and falls back.
ConsumedInput(p) ==
    [demand |-> <<2, 2, 2>>, prio |-> p, pen |-> [n \in Needs |-> 0],
     fp |-> p, same |-> Needs, spread |-> {},
     gang |-> Needs, parked |-> {},
     credit |-> [n \in Needs |-> <<>>],
     pool |-> Snapshot(<<m1>>, <<m3, m4, m2>>),
     own |-> [m \in Machines |-> 0],
     dom |-> (m1 :> 1 @@ m2 :> 1 @@ m3 :> 2 @@ m4 :> 2),
     alloc |-> [m \in Machines |-> 1]]

\* In the consumed call the third gang ranks below the two others, which take
\* back what it took.
GangInputs ==
    {GangInput(d, p, o, k) : d \in {<<2, 2, 1>>, <<3, 2, 2>>},
                             p \in {<<1, 1, 2>>, <<2, 1, 2>>, <<1, 2, 1>>},
                             o \in {0, 1}, k \in {{}, {1}}}
    \cup {ConsumedInput(<<1, 2, 2>>)}

\* Need 1 has a strict spread with the given skew over two domains, beside two
\* plain Needs, of which one or both outrank it.  The cheap machines are in
\* domain 1, so a larger skew picks others, and m4 is in domain 2.
SpreadInput(d, p, skew) ==
    [PlainInput(d, p, [n \in Needs |-> 0], Snapshot(<<m1, m2, m3>>, <<m4>>))
       EXCEPT !.spread = {<<1, skew>>},
              !.credit = [n \in Needs |-> <<>>],
              !.dom = (m1 :> 1 @@ m2 :> 1 @@ m3 :> 2 @@ m4 :> 2)]

SpreadInputs ==
    {SpreadInput(<<3, 1, 1>>, p, k) : p \in {<<2, 1, 3>>, <<1, 2, 2>>}, k \in {1, 2}}

\* The call in which nobody takes back what the third gang took.
ScatteredInputs == {ConsumedInput(<<2, 2, 2>>)}

\* Every call of the passing run.
AllInputs == ContendedInputs \cup GangInputs \cup SpreadInputs
=============================================================================
