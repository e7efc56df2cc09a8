-------------------------- MODULE MachineLifecycle --------------------------
(***************************************************************************)
(* The machine state machine of pkg/machine/machine.go: the eight states,  *)
(* the transitions inventory and providers both validate against, and the  *)
(* structural invariant every record must satisfy before it is stored.     *)
(*                                                                         *)
(* The module has no variables.  A record is known here only by its state, *)
(* by whether it names a host, by the cluster it is bound to and by its    *)
(* last error; None stands for the empty string.  A Need is a profile with *)
(* its fingerprint, gang, priority and penalties, as one value.            *)
(***************************************************************************)
CONSTANTS Machines, Clusters, Needs, None

ASSUME NoneAssumption == None \notin Clusters \cup Needs

\* machine.State.  Unspecified is never stored and is left out.
States == { "Speculative", "Creating", "Idle", "Configuring",
            "Configured", "Draining", "Deleting", "Failed" }

\* The states a provider call walks through on its way to a stable one.
Transitional == { "Creating", "Configuring", "Draining", "Deleting" }

\* The states in which a record carries a cluster's assignment.
Bound == { "Configuring", "Configured", "Draining" }

\* validTransitions; Configuring -> Idle is the rollback of a bootstrap that
\* was abandoned before the provider was touched.
validTransitions ==
  [ s \in States |->
      CASE s = "Speculative" -> { "Creating" }
        [] s = "Creating"    -> { "Idle", "Failed" }
        [] s = "Idle"        -> { "Configuring", "Deleting" }
        [] s = "Configuring" -> { "Configured", "Failed", "Idle" }
        [] s = "Configured"  -> { "Draining" }
        [] s = "Draining"    -> { "Idle", "Failed" }
        [] s = "Deleting"    -> { "Speculative", "Failed" }
        [] s = "Failed"      -> {} ]

CanTransition(from, to) ==
  IF to = "Failed" THEN from \in Transitional ELSE to \in validTransitions[from]

\* Machine.Invariant: which of host, cluster and last error a state demands or
\* forbids.  (The bounds on price and interruption probability are checked in
\* the same method; no price is modelled.)
Invariant(state, host, cluster, lastError) ==
  /\ state \in { "Speculative", "Creating" } => ~host /\ cluster = None
  /\ state \in { "Idle", "Configuring", "Deleting" } => host
  /\ state \in { "Configured", "Draining" } => host /\ cluster # None
  /\ state = "Failed" => lastError # None
=============================================================================
