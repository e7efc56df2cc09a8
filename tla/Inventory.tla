----------------------------- MODULE Inventory ------------------------------
(***************************************************************************)
(* The shard's in-memory inventory (pkg/inventory/inventory.go) and the    *)
(* only way the shard writes to it: Insert for an unknown machine, Apply   *)
(* for a known one.                                                        *)
(*                                                                         *)
(* need  AssignedNeedFingerprint and AssignedGroup: which Need the machine *)
(*       is attributed to.                                                 *)
(* prot  AssignedPriority and the two penalties: what protects it from     *)
(*       preemption, as the Need they were taken from.                     *)
(***************************************************************************)
EXTENDS MachineLifecycle

VARIABLE inv

\* What LastError can say, by who reported the failure.
Errors == { "provider", "operator", "session" }

ASSUME ErrorsAssumption == None \notin Errors

InvRecord == [ state     : States \cup { "Absent" },
               host      : BOOLEAN,
               cluster   : Clusters \cup { None },
               need      : Needs \cup { None },
               prot      : Needs \cup { None },
               lastError : Errors \cup { None } ]

\* No record, and the empty machine.Machine{} a missing one is built from.
NoRecord == [ state |-> "Absent", host |-> FALSE, cluster |-> None,
              need |-> None, prot |-> None, lastError |-> None ]

InvTypeOK == inv \in [ Machines -> InvRecord ]

\* Insert and Apply: the structural invariant, and for a known machine that
\* changes state the transition table.
Accepted(m, r) ==
  /\ Invariant(r.state, r.host, r.cluster, r.lastError)
  /\ inv[m].state \in { "Absent", r.state } \/ CanTransition(inv[m].state, r.state)

\* The inventory after trying to write r: a refused write leaves it alone.
Written(m, r) == IF Accepted(m, r) THEN [ inv EXCEPT ![m] = r ] ELSE inv

\* Remove, for every machine outside keep.
Pruned(keep) == [ m \in Machines |-> IF m \in keep THEN inv[m] ELSE NoRecord ]
=============================================================================
