-------------------------- MODULE MCDemandPipeline --------------------------
(* Instances of DemandPipeline.                                            *)
EXTENDS DemandPipeline, TLC

Defaults == "batch" :> [interruption |-> 3, reclamation |-> Nil]

\* A Pod of one container with cpu and memory and nothing else.
Plain(cpu, mem) ==
    [containers |-> <<("cpu" :> cpu) @@ ("mem" :> mem)>>, init |-> <<>>, overhead |-> Empty,
     affinity |-> Nil, selector |-> {}, podAffinity |-> <<>>, priority |-> Nil, spread |-> {},
     class |-> Nil, interruption |-> Nil, reclamation |-> Nil]

Gang(pod, labels) ==
    [pod EXCEPT !.podAffinity = << [topologyKey |-> "zone", selector |-> labels] >>]

\* An init container, a sidecar, another init container and an overhead.
Staged ==
    [Plain(1, 2) EXCEPT
       !.init = <<[restart |-> FALSE, req |-> "cpu" :> 3],
                  [restart |-> TRUE,  req |-> "mem" :> 1],
                  [restart |-> FALSE, req |-> ("mem" :> 4) @@ ("cpu" :> 1)]>>,
       !.overhead = "cpu" :> 1,
       !.class = "batch", !.interruption = Unparsable, !.reclamation = 16777217,
       !.spread = {<<"zone", "ScheduleAnyway">>, <<"rack", "DoNotSchedule">>}]

\* Two Pods of one row, of two gangs, one whose affinity cannot be rolled up,
\* and a single Pod with faults.
Cases ==
    << [specs |-> <<Gang(Staged, <<"a", "b">>),
                    Gang([Staged EXCEPT !.interruption = 4, !.spread = {<<"rack", "DoNotSchedule">>}],
                         <<"b", "a">>)>>, budget |-> 0],
       [specs |-> <<Gang(Plain(1, 1), <<"a">>), Gang(Plain(2, 1), <<"b">>)>>, budget |-> 0],
       [specs |-> <<Plain(1, 1), [Plain(1, 1) EXCEPT !.affinity = {<<"cores", "Gt">>},
                                                     !.selector = {"zone"}]>>, budget |-> 0],
       [specs |-> <<Plain(2, 1), Nil>>, budget |-> 2] >>
=============================================================================
