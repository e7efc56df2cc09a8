-------------------------- MODULE CapacityProvider --------------------------
(***************************************************************************)
(* The capacity provider as pkg/provider/fake implements the contract of   *)
(* pkg/provider/provider.go; it is the repository's conformance reference. *)
(*                                                                         *)
(* prov[m]  the provider's record of machine m.  meta is the opaque        *)
(*          shard_metadata echo: the Need whose priority, penalties,       *)
(*          fingerprint and group were encoded into it, or None.           *)
(* ops[m]   the kinds of operation the provider has an operation id for:   *)
(*          a repeated call is answered from here.                         *)
(* delta    the machines changed since the cursor the shard last stored,   *)
(*          what List returns for SinceRevision (revLog after the cursor). *)
(*                                                                         *)
(* An operation in StagedOps is acknowledged in its transitional state and *)
(* completes later, out of band; the others complete before the ack.       *)
(***************************************************************************)
EXTENDS MachineLifecycle

CONSTANT StagedOps

VARIABLES prov, ops, delta

Ops == { "Create", "Configure", "Drain", "Delete" }

ASSUME StagedAssumption == StagedOps \subseteq Ops

ProvRecord == [ state   : States \cup { "Absent" },
                host    : BOOLEAN,
                cluster : Clusters \cup { None },
                meta    : Needs \cup { None } ]

NoListing == [ state |-> "Absent", host |-> FALSE, cluster |-> None, meta |-> None ]

ProvTypeOK ==
  /\ prov \in [ Machines -> ProvRecord ]
  /\ ops \in [ Machines -> SUBSET Ops ]
  /\ delta \subseteq Machines

\* Seeded inventory: quota slots (AddSpeculative) and hosts (AddIdle).
Seeded == { [ NoListing EXCEPT !.state = "Speculative" ],
            [ NoListing EXCEPT !.state = "Idle", !.host = TRUE ] }

ProvInit ==
  /\ prov \in [ Machines -> Seeded ]
  /\ ops = [ m \in Machines |-> {} ]
  /\ delta = Machines

-----------------------------------------------------------------------------
\* opKind.targets
TransitionalOf(op) ==
  CASE op = "Create" -> "Creating" [] op = "Configure" -> "Configuring"
    [] op = "Drain" -> "Draining"  [] op = "Delete" -> "Deleting"

StableOf(op) ==
  CASE op = "Create" -> "Idle" [] op = "Configure" -> "Configured"
    [] op = "Drain" -> "Idle"  [] op = "Delete" -> "Speculative"

\* The post-effects of Create, Configure, Drain and Delete on a record that
\* has reached state st.  A host appears when Create settles, the binding and
\* the echo appear with Configure and go when Drain settles, the host goes when
\* Delete settles.
PostEffect(p, op, st, c, n) ==
  [ p EXCEPT !.state   = st,
             !.host    = (@ \/ (op = "Create" /\ st = "Idle"))
                           /\ ~(op = "Delete" /\ st = "Speculative"),
             !.cluster = IF op = "Configure" THEN c
                         ELSE IF op = "Drain" /\ st = "Idle" THEN None ELSE @,
             !.meta    = IF op = "Configure" THEN n
                         ELSE IF op = "Drain" /\ st = "Idle" THEN None ELSE @ ]

\* The idempotent-retry branch: same kind of operation, consistent state.
\* Neither the cluster nor the metadata of the request is looked at.
Cached(m, op) ==
  op \in ops[m] /\ prov[m].state \in { TransitionalOf(op), StableOf(op) }

Accepts(m, op) ==
  /\ prov[m].state # "Absent"
  /\ Cached(m, op) \/ CanTransition(prov[m].state, TransitionalOf(op))

\* The record in the TransitionAck.
Answer(m, op, c, n) ==
  IF Cached(m, op) THEN prov[m]
  ELSE PostEffect(prov[m], op,
                  IF op \in StagedOps THEN TransitionalOf(op) ELSE StableOf(op), c, n)

\* applyTransition, for a call that is not refused.
Serve(m, op, c, n) ==
  /\ Accepts(m, op)
  /\ prov' = [ prov EXCEPT ![m] = Answer(m, op, c, n) ]
  /\ ops' = [ ops EXCEPT ![m] = @ \cup { op } ]
  /\ delta' = IF Cached(m, op) THEN delta ELSE delta \cup { m }

\* completeStagedLocked, and the same for Delete, whose staged form real
\* providers have: the held operation settles at its stable state.
CompleteStaged(m) ==
  /\ \E op \in Ops :
       /\ prov[m].state = TransitionalOf(op)
       /\ prov' = [ prov EXCEPT ![m] = PostEffect(@, op, StableOf(op), @.cluster, @.meta) ]
  /\ delta' = delta \cup { m }
  /\ UNCHANGED ops

\* FailMachine: an unsolicited failure, from any state.
FailMachine(m) ==
  /\ prov[m].state \notin { "Absent", "Failed" }
  /\ prov' = [ prov EXCEPT ![m].state = "Failed" ]
  /\ delta' = delta \cup { m }
  /\ UNCHANGED ops

\* RemoveMachine: the host is lost.  The change log gets no entry.
RemoveMachine(m) ==
  /\ prov[m].state # "Absent"
  /\ prov' = [ prov EXCEPT ![m] = NoListing ]
  /\ UNCHANGED << ops, delta >>
=============================================================================
