------------------------ MODULE ShardActuationProofs ------------------------
(***************************************************************************)
(* Proofs about ShardActuation, for every set of machines, clusters, Needs *)
(* and workers, every queue capacity, synchronous and staged providers and *)
(* both reconcile modes: the types and the ledger; that an executor's      *)
(* commit is never refused; that nobody else writes a driven machine; that *)
(* the two sides agree on every binding.                                   *)
(***************************************************************************)
EXTENDS ShardActuation, TLAPS

(* Facts about the operators the actions are built from. *)

\* The empty records and the idle worker have their types.
LEMMA EmptyTypes ==
  /\ NoListing \in ProvRecord
  /\ NoRecord \in InvRecord
  /\ IdleWorker \in WorkerRecord
  /\ NoAction \notin Action
BY DEF NoListing, NoRecord, IdleWorker, ProvRecord, InvRecord, WorkerRecord,
       WorkerPCs, Ops, NoAction, Action, Assigning, Kinds, States

\* A write that is tried, accepted or not, leaves an inventory.
LEMMA WrittenType ==
  ASSUME InvTypeOK, NEW m \in Machines, NEW r \in InvRecord
  PROVE  Written(m, r) \in [ Machines -> InvRecord ]
BY DEF InvTypeOK, Written

\* What a provider answers to a call is a provider record.
LEMMA AnswerType ==
  ASSUME ProvTypeOK, NEW m \in Machines, NEW op \in Ops,
         NEW c \in Clusters \cup { None }, NEW n \in Needs \cup { None },
         prov[m].state # "Absent"
  PROVE  Answer(m, op, c, n) \in ProvRecord
<1>1. prov[m] \in ProvRecord
  BY DEF ProvTypeOK
<1>2. TransitionalOf(op) \in States /\ StableOf(op) \in States
  BY DEF TransitionalOf, StableOf, Ops, States
<1>3. ASSUME NEW st \in States
      PROVE  PostEffect(prov[m], op, st, c, n) \in ProvRecord
  BY <1>1, <1>3 DEF PostEffect, ProvRecord
<1> QED
  BY <1>1, <1>2, <1>3 DEF Answer

\* A served call keeps the provider well typed.
LEMMA ServeType ==
  ASSUME ProvTypeOK, NEW m \in Machines, NEW op \in Ops,
         NEW c \in Clusters \cup { None }, NEW n \in Needs \cup { None },
         Serve(m, op, c, n)
  PROVE  ProvTypeOK' /\ prov'[m] \in ProvRecord
<1>1. Answer(m, op, c, n) \in ProvRecord
  BY AnswerType DEF Serve, Accepts
<1>2. prov' \in [ Machines -> ProvRecord ] /\ prov'[m] \in ProvRecord
  BY <1>1 DEF Serve, ProvTypeOK
<1>3. ops' \in [ Machines -> SUBSET Ops ]
  BY DEF Serve, ProvTypeOK
<1>4. delta' \subseteq Machines
  BY DEF Serve, ProvTypeOK
<1> QED
  BY <1>2, <1>3, <1>4 DEF ProvTypeOK

\* What reconcile stores for a listed record is an inventory record.
LEMMA IngestedType ==
  ASSUME InvTypeOK, NEW m \in Machines, NEW dm \in ProvRecord
  PROVE  Ingested(m, dm) \in InvRecord
BY DEF Ingested, InvTypeOK, InvRecord, ProvRecord, Errors

\* What a worker writes for its ack is an inventory record.
LEMMA AckedType ==
  ASSUME TypeOK, NEW w \in Busy
  PROVE  Acked(w) \in InvRecord
<1> DEFINE a == worker[w].ack
           r == Record(w)
           act == worker[w].act
<1>1. /\ a \in ProvRecord /\ a.state \in States \cup { "Absent" } /\ a.host \in BOOLEAN
      /\ act \in Action /\ r \in InvRecord
      /\ worker[w].op \in Ops
  BY DEF TypeOK, Busy, WorkerRecord, ProvRecord, Record, Target, InvTypeOK, Action
<1>2. CASE worker[w].op = "Create"
  <2>1. Acked(w) = [ r EXCEPT !.state = a.state, !.host = a.host ]
    BY <1>2 DEF Acked
  <2> QED
    BY <1>1, <2>1 DEF InvRecord
<1>3. CASE worker[w].op = "Configure"
  <2>1. Acked(w) = [ r EXCEPT !.state = a.state, !.host = a.host, !.cluster = act.cluster,
                              !.need = act.need, !.prot = act.need ]
    BY <1>3 DEF Acked
  <2> QED
    BY <1>1, <2>1 DEF InvRecord, Action
<1>4. CASE worker[w].op = "Drain"
  <2>1. Acked(w) = [ r EXCEPT !.state = "Idle", !.host = (@ \/ a.host), !.cluster = None,
                              !.need = None, !.prot = None ]
    BY <1>4 DEF Acked
  <2> QED
    BY <1>1, <2>1 DEF InvRecord, States
<1>5. CASE worker[w].op = "Delete"
  <2>1. Acked(w) = IF a.state = "Speculative"
                   THEN [ r EXCEPT !.state = a.state, !.host = FALSE, !.cluster = None ]
                   ELSE [ r EXCEPT !.state = a.state ]
    BY <1>5 DEF Acked
  <2>2. CASE a.state = "Speculative"
    <3>1. Acked(w) = [ r EXCEPT !.state = "Speculative", !.host = FALSE, !.cluster = None ]
      BY <2>1, <2>2
    <3> HIDE DEF r
    <3> QED
      BY <1>1, <3>1 DEF InvRecord, States
  <2>3. CASE a.state # "Speculative"
    <3>1. Acked(w) = [ r EXCEPT !.state = a.state ]
      BY <2>1, <2>3
    <3> HIDE DEF r, a
    <3> QED
      BY <1>1, <3>1 DEF InvRecord
  <2> QED
    BY <2>2, <2>3
<1> QED
  BY <1>1, <1>2, <1>3, <1>4, <1>5 DEF Ops

-----------------------------------------------------------------------------
(* Type correctness. *)

\* A started process is well typed.
LEMMA TypeInit == Init => TypeOK
<1> SUFFICES ASSUME Init PROVE TypeOK
  OBVIOUS
<1>1. ProvTypeOK
  <2>1. Seeded \subseteq ProvRecord
    BY DEF Seeded, NoListing, ProvRecord, States
  <2>2. prov \in [ Machines -> ProvRecord ]
    BY <2>1 DEF Init, ProvInit
  <2> QED
    BY <2>2 DEF Init, ProvInit, ProvTypeOK
<1>2. InvTypeOK
  BY EmptyTypes DEF Init, Fresh, InvTypeOK
<1>3. queue \in Seq(Action)
  BY DEF Init, Fresh
<1> QED
  BY <1>1, <1>2, <1>3, EmptyTypes DEF Init, Fresh, TypeOK, Busy, IdleWorker

\* The cycle goroutine keeps every variable well typed.
LEMMA TypeCycle ==
  ASSUME TypeOK, CycleStep
  PROVE  TypeOK'
<1> USE DEF TypeOK, Busy
<1>1. CASE ListProvider
  <2>1. ProvTypeOK'
    BY <1>1 DEF ListProvider, ProvTypeOK
  <2>2. listed' \in [ Machines -> ProvRecord ] /\ seen' \subseteq Machines
    BY <1>1, EmptyTypes DEF ListProvider, ProvTypeOK
  <2> QED
    BY <1>1, <2>1, <2>2 DEF ListProvider, InvTypeOK
<1>2. CASE ListFails
  BY <1>2 DEF ListFails, ProvTypeOK, InvTypeOK
<1>3. ASSUME NEW m \in Machines, ApplyReconciledMachine(m)
      PROVE  TypeOK'
  <2>1. InvTypeOK'
    BY <1>3, WrittenType, IngestedType DEF ApplyReconciledMachine, Reconciled, InvTypeOK
  <2>2. listed' \in [ Machines -> ProvRecord ]
    BY <1>3, EmptyTypes DEF ApplyReconciledMachine
  <2> QED
    BY <1>3, <2>1, <2>2 DEF ApplyReconciledMachine, ProvTypeOK
<1>4. CASE ReconcileDone
  <2>1. InvTypeOK'
    BY <1>4, EmptyTypes DEF ReconcileDone, Pruned, InvTypeOK
  <2> QED
    BY <1>4, <2>1 DEF ReconcileDone, ProvTypeOK
<1>5. CASE Decide
  BY <1>5, EmitsAssumption DEF Decide, ProvTypeOK, InvTypeOK
<1>6. ASSUME NEW m \in Machines, NEW k \in Kinds, CheckApplicable(m, k)
      PROVE  TypeOK'
  <2>1. plan' \subseteq Machines \X Kinds
    BY <1>6 DEF CheckApplicable, Rest
  <2>2. \/ cycle' = "enqueue" /\ emitting' \in Action
        \/ UNCHANGED << cycle, emitting >> /\ cycle = "emit"
    BY <1>6 DEF CheckApplicable, Action, Assigning, Kinds
  <2> QED
    BY <1>6, <2>1, <2>2 DEF CheckApplicable, ProvTypeOK, InvTypeOK
<1>7. CASE Enqueue
  <2>1. emitting \in Action /\ emitting.m \in Machines
    BY <1>7 DEF Enqueue, Action
  <2>2. queue \in Seq(Action) /\ pending \subseteq Machines
    OBVIOUS
  <2>3. queue' \in Seq(Action)
    <3>1. queue' \in { queue, Append(queue, emitting) }
      BY <1>7 DEF Enqueue
    <3> HIDE DEF TypeOK
    <3> QED
      BY <2>1, <2>2, <3>1
  <2>4. pending' \subseteq Machines
    BY <1>7, <2>1, <2>2 DEF Enqueue
  <2> QED
    BY <1>7, <2>3, <2>4 DEF Enqueue, ProvTypeOK, InvTypeOK
<1>8. CASE EndCycle
  BY <1>8 DEF EndCycle, ProvTypeOK, InvTypeOK
<1> QED
  BY <1>1, <1>2, <1>3, <1>4, <1>5, <1>6, <1>7, <1>8 DEF CycleStep

\* A step of a busy worker that leaves the provider, the cycle, the ledger and
\* the sessions alone has only its own record and the inventory to answer for.
LEMMA TypeLocal ==
  ASSUME TypeOK, NEW w \in Workers, Local, InvTypeOK',
         NEW x \in WorkerRecord, x.act \in Action,
         worker' = [ worker EXCEPT ![w] = x ]
  PROVE  TypeOK'
<1>1. worker' \in [ Workers -> WorkerRecord ]
  BY DEF TypeOK
<1>2. \A v \in Busy' : worker'[v].act \in Action
  BY <1>1 DEF TypeOK, Busy
<1> QED
  BY <1>1, <1>2 DEF TypeOK, Local, ProvTypeOK

\* What the executor of a busy worker can rely on.
LEMMA BusyTypes ==
  ASSUME TypeOK, NEW w \in Workers, worker[w].pc # "idle"
  PROVE  /\ w \in Busy
         /\ worker[w] \in WorkerRecord /\ worker[w].act \in Action
         /\ worker[w].op \in Ops /\ worker[w].ack \in ProvRecord
         /\ Target(w) \in Machines /\ Record(w) \in InvRecord
         /\ worker[w].act.cluster \in Clusters \cup { None }
         /\ worker[w].act.need \in Needs \cup { None }
<1>1. w \in Busy /\ worker[w] \in WorkerRecord /\ worker[w].act \in Action
  BY DEF TypeOK, Busy
<1> QED
  BY <1>1 DEF TypeOK, InvTypeOK, WorkerRecord, Action, Target, Record

\* Moving a busy worker to another place in its executor.
LEMMA TypeGoto ==
  ASSUME TypeOK, NEW w \in Workers, worker[w].pc # "idle", Local, InvTypeOK',
         NEW pc \in WorkerPCs, Goto(w, pc)
  PROVE  TypeOK'
<1> DEFINE x == [ worker[w] EXCEPT !.pc = pc ]
<1>1. worker[w] \in WorkerRecord /\ worker[w].act \in Action
  BY BusyTypes
<1>2. x \in WorkerRecord /\ x.act \in Action
  BY <1>1 DEF WorkerRecord
<1>3. worker' = [ worker EXCEPT ![w] = x ]
  BY DEF Goto
<1> HIDE DEF x
<1> QED
  BY <1>2, <1>3, TypeLocal

\* The opening of an executor keeps the types when the record it wants to
\* write has its own.
LEMMA TypeOpen ==
  ASSUME TypeOK, NEW w \in Workers, worker[w].pc # "idle",
         NEW start, NEW r \in InvRecord, NEW op \in Ops, NEW pc \in WorkerPCs,
         Open(w, start, r, op, pc)
  PROVE  TypeOK'
<1>1. Local
  BY DEF Open
<1>2. CASE Record(w).state = start /\ Accepted(Target(w), r)
  <2> DEFINE x == [ worker[w] EXCEPT !.pc = pc, !.op = op ]
  <2>1. worker[w] \in WorkerRecord /\ worker[w].act \in Action /\ Target(w) \in Machines
    BY BusyTypes
  <2>2. x \in WorkerRecord /\ x.act \in Action
    BY <2>1 DEF WorkerRecord
  <2>3. worker' = [ worker EXCEPT ![w] = x ] /\ inv' = Written(Target(w), r)
    BY <1>2 DEF Open
  <2>4. InvTypeOK'
    BY <2>1, <2>3, WrittenType DEF InvTypeOK, TypeOK
  <2> HIDE DEF x
  <2> QED
    BY <1>1, <2>2, <2>3, <2>4, TypeLocal
<1>3. CASE ~(Record(w).state = start /\ Accepted(Target(w), r))
  <2>1. UNCHANGED inv /\ Goto(w, "finish")
    BY <1>3 DEF Open
  <2>2. InvTypeOK'
    BY <2>1 DEF InvTypeOK, TypeOK
  <2> QED
    BY <1>1, <2>1, <2>2, TypeGoto DEF WorkerPCs
<1> QED
  BY <1>2, <1>3

\* Writing to the machine of a busy worker keeps the inventory well typed.
LEMMA TypeWrite ==
  ASSUME TypeOK, NEW w \in Workers, worker[w].pc # "idle", NEW r \in InvRecord,
         inv' = Written(Target(w), r)
  PROVE  InvTypeOK'
BY BusyTypes, WrittenType DEF InvTypeOK, TypeOK

\* Every step of a worker keeps every variable well typed.
LEMMA TypeWorker ==
  ASSUME TypeOK, NEW w \in Workers, WorkerStep(w)
  PROVE  TypeOK'
<1>1. CASE Take(w)
  <2>1. queue # << >> /\ queue \in Seq(Action)
    BY <1>1 DEF Take, TypeOK
  <2>2. Head(queue) \in Action /\ Tail(queue) \in Seq(Action)
    BY <2>1
  <2> DEFINE x == [ IdleWorker EXCEPT !.pc = "begin", !.act = Head(queue) ]
  <2>3. x \in WorkerRecord /\ x.act \in Action
    BY <2>2, EmptyTypes DEF IdleWorker, WorkerRecord, WorkerPCs
  <2>4. worker' = [ worker EXCEPT ![w] = x ]
    BY <1>1 DEF Take
  <2> HIDE DEF x
  <2>5. worker' \in [ Workers -> WorkerRecord ] /\ \A v \in Busy' : worker'[v].act \in Action
    BY <2>3, <2>4 DEF TypeOK, Busy
  <2> QED
    BY <1>1, <2>2, <2>5 DEF Take, TypeOK, ProvTypeOK, InvTypeOK
<1>2. CASE executeProvision(w)
  <2>1. worker[w].pc # "idle"
    BY <1>2 DEF executeProvision
  <2>2. [ Record(w) EXCEPT !.state = "Creating", !.need = worker[w].act.need ] \in InvRecord
    BY <2>1, BusyTypes DEF InvRecord, States
  <2> QED
    BY <1>2, <2>1, <2>2, TypeOpen DEF executeProvision, Ops, WorkerPCs
<1>3. CASE executeBootstrap(w)
  <2>1. worker[w].pc # "idle"
    BY <1>3 DEF executeBootstrap
  <2>2. [ Record(w) EXCEPT !.state = "Configuring", !.cluster = worker[w].act.cluster,
                           !.need = worker[w].act.need ] \in InvRecord
    BY <2>1, BusyTypes DEF InvRecord, States
  <2> QED
    BY <1>3, <2>1, <2>2, TypeOpen DEF executeBootstrap, Ops, WorkerPCs
<1>4. CASE executeDrain(w)
  <2>1. worker[w].pc # "idle"
    BY <1>4 DEF executeDrain
  <2>2. [ Record(w) EXCEPT !.state = "Draining" ] \in InvRecord
    BY <2>1, BusyTypes DEF InvRecord, States
  <2> QED
    BY <1>4, <2>1, <2>2, TypeOpen DEF executeDrain, Ops, WorkerPCs
<1>5. CASE executeDelete(w)
  <2>1. worker[w].pc # "idle"
    BY <1>5 DEF executeDelete
  <2>2. [ Record(w) EXCEPT !.state = "Deleting" ] \in InvRecord
    BY <2>1, BusyTypes DEF InvRecord, States
  <2> QED
    BY <1>5, <2>1, <2>2, TypeOpen DEF executeDelete, Ops, WorkerPCs
<1>6. CASE BlobUnavailable(w)
  <2>1. worker[w].pc # "idle"
    BY <1>6 DEF BlobUnavailable
  <2>2. RolledBack(w) \in InvRecord
    BY <2>1, BusyTypes DEF RolledBack, InvRecord, States
  <2>3. InvTypeOK'
    BY <1>6, <2>1, <2>2, TypeWrite DEF BlobUnavailable
  <2> QED
    BY <1>6, <2>1, <2>3, TypeGoto DEF BlobUnavailable, WorkerPCs
<1>7. ASSUME NEW why \in { "operator", "session" }, BlobRefused(w, why)
      PROVE  TypeOK'
  <2>1. worker[w].pc # "idle"
    BY <1>7 DEF BlobRefused
  <2>2. [ Record(w) EXCEPT !.state = "Failed", !.lastError = why ] \in InvRecord
    BY <2>1, BusyTypes DEF InvRecord, States, Errors
  <2>3. InvTypeOK'
    BY <1>7, <2>1, <2>2, TypeWrite DEF BlobRefused
  <2> QED
    BY <1>7, <2>1, <2>3, TypeGoto DEF BlobRefused, WorkerPCs
<1>8. CASE BlobArrives(w) \/ CallRefused(w)
  BY <1>8, TypeGoto DEF BlobArrives, CallRefused, WorkerPCs, TypeOK, InvTypeOK
<1>9. CASE CallServed(w) \/ AnswerLost(w)
  <2>1. worker[w].pc # "idle" /\ Serving(w)
    BY <1>9 DEF CallServed, AnswerLost
  <2>2. ProvTypeOK' /\ prov'[Target(w)] \in ProvRecord
    BY <2>1, BusyTypes, ServeType DEF Serving, TypeOK
  <2>3. worker[w] \in WorkerRecord /\ worker[w].act \in Action
    BY <2>1, BusyTypes
  <2>4. PICK x \in WorkerRecord : x.act \in Action /\ worker' = [ worker EXCEPT ![w] = x ]
    <3>1. CASE CallServed(w)
      <4> DEFINE x == [ worker[w] EXCEPT !.pc = "ack", !.ack = prov'[Target(w)] ]
      <4>1. x \in WorkerRecord /\ x.act \in Action
        BY <2>2, <2>3 DEF WorkerRecord, WorkerPCs
      <4>2. worker' = [ worker EXCEPT ![w] = x ]
        BY <3>1 DEF CallServed
      <4> HIDE DEF x
      <4> QED
        BY <4>1, <4>2
    <3>2. CASE AnswerLost(w)
      <4> DEFINE x == [ worker[w] EXCEPT !.pc = "err" ]
      <4>1. x \in WorkerRecord /\ x.act \in Action
        BY <2>3 DEF WorkerRecord, WorkerPCs
      <4>2. worker' = [ worker EXCEPT ![w] = x ]
        BY <3>2 DEF AnswerLost, Goto
      <4> HIDE DEF x
      <4> QED
        BY <4>1, <4>2
    <3> QED
      BY <1>9, <3>1, <3>2
  <2>5. worker' \in [ Workers -> WorkerRecord ] /\ \A v \in Busy' : worker'[v].act \in Action
    BY <2>4 DEF TypeOK, Busy
  <2> QED
    BY <1>9, <2>2, <2>5 DEF CallServed, AnswerLost, TypeOK, InvTypeOK
<1>10. CASE CommitFailure(w)
  <2>1. worker[w].pc # "idle"
    BY <1>10 DEF CommitFailure
  <2>2. [ Record(w) EXCEPT !.state = "Failed", !.lastError = "provider" ] \in InvRecord
    BY <2>1, BusyTypes DEF InvRecord, States, Errors
  <2>3. InvTypeOK'
    BY <1>10, <2>1, <2>2, TypeWrite DEF CommitFailure
  <2> QED
    BY <1>10, <2>1, <2>3, TypeGoto DEF CommitFailure, WorkerPCs
<1>11. CASE CommitAck(w)
  <2>1. worker[w].pc # "idle"
    BY <1>11 DEF CommitAck
  <2>2. Acked(w) \in InvRecord
    BY <2>1, BusyTypes, AckedType
  <2>3. InvTypeOK'
    BY <1>11, <2>1, <2>2, TypeWrite DEF CommitAck, TypeOK, InvTypeOK
  <2>4. PICK pc \in WorkerPCs :
          worker' = [ worker EXCEPT ![w].ack = NoListing, ![w].pc = pc ]
    BY <1>11 DEF CommitAck, WorkerPCs
  <2> DEFINE x == [ worker[w] EXCEPT !.ack = NoListing, !.pc = pc ]
  <2>5. x \in WorkerRecord /\ x.act \in Action
    BY <2>1, BusyTypes, EmptyTypes DEF WorkerRecord
  <2>6. worker' = [ worker EXCEPT ![w] = x ]
    BY <2>4
  <2>7. Local
    BY <1>11 DEF CommitAck
  <2> HIDE DEF x
  <2> QED
    BY <2>3, <2>5, <2>6, <2>7, TypeLocal
<1>12. CASE Finish(w)
  <2>1. worker' \in [ Workers -> WorkerRecord ] /\ \A v \in Busy' : worker'[v].act \in Action
    BY <1>12, EmptyTypes DEF Finish, TypeOK, Busy, IdleWorker
  <2> QED
    BY <1>12, <2>1 DEF Finish, TypeOK, ProvTypeOK, InvTypeOK
<1> QED
  BY <1>1, <1>2, <1>3, <1>4, <1>5, <1>6, <1>7, <1>8, <1>9, <1>10, <1>11, <1>12
     DEF WorkerStep, ExecuteStep

\* Sessions, the provider's own steps and a restart keep the types.
LEMMA TypeEnvironment ==
  ASSUME TypeOK, Environment
  PROVE  TypeOK'
<1>1. ASSUME NEW c \in Clusters, SessionChange(c)
      PROVE  TypeOK'
  <2>1. session' \in [ Clusters -> BOOLEAN ]
    BY <1>1 DEF SessionChange, TypeOK
  <2> QED
    BY <1>1, <2>1 DEF SessionChange, TypeOK, Busy, ProvTypeOK, InvTypeOK
<1>2. ASSUME NEW m \in Machines, ProvTypeOK',
             UNCHANGED << inv, cycle, listed, seen, plan, emitting, pending, queue, worker, session >>
      PROVE  TypeOK'
  BY <1>2 DEF TypeOK, Busy, InvTypeOK
<1>3. ASSUME NEW m \in Machines, ProviderCompletes(m)
      PROVE  TypeOK'
  <2>1. PICK op \in Ops :
          prov' = [ prov EXCEPT ![m] =
                      PostEffect(prov[m], op, StableOf(op), prov[m].cluster, prov[m].meta) ]
    BY <1>3 DEF ProviderCompletes, CompleteStaged
  <2>2. StableOf(op) \in States
    BY DEF StableOf, Ops, States
  <2> prov[m] \in ProvRecord
    BY DEF TypeOK, ProvTypeOK
  <2>3. PostEffect(prov[m], op, StableOf(op), prov[m].cluster, prov[m].meta) \in ProvRecord
    BY <2>2 DEF PostEffect, ProvRecord
  <2>4. ProvTypeOK'
    BY <1>3, <2>1, <2>3 DEF ProviderCompletes, CompleteStaged, TypeOK, ProvTypeOK
  <2> QED
    BY <1>2, <1>3, <2>4 DEF ProviderCompletes
<1>4. ASSUME NEW m \in Machines, ProviderFails(m)
      PROVE  TypeOK'
  <2> prov[m] \in ProvRecord
    BY DEF TypeOK, ProvTypeOK
  <2>1. [ prov[m] EXCEPT !.state = "Failed" ] \in ProvRecord
    BY DEF ProvRecord, States
  <2>2. ProvTypeOK'
    BY <1>4, <2>1 DEF ProviderFails, FailMachine, TypeOK, ProvTypeOK
  <2> QED
    BY <1>2, <1>4, <2>2 DEF ProviderFails
<1>5. ASSUME NEW m \in Machines, ProviderLoses(m)
      PROVE  TypeOK'
  <2>1. ProvTypeOK'
    BY <1>5, EmptyTypes DEF ProviderLoses, RemoveMachine, TypeOK, ProvTypeOK
  <2> QED
    BY <1>2, <1>5, <2>1 DEF ProviderLoses
<1>6. CASE Restart
  <2>1. InvTypeOK' /\ ProvTypeOK' /\ queue' \in Seq(Action)
    BY <1>6, EmptyTypes DEF Restart, Fresh, InvTypeOK, ProvTypeOK, TypeOK
  <2> QED
    BY <1>6, <2>1, EmptyTypes DEF Restart, Fresh, TypeOK, Busy, IdleWorker
<1> QED
  BY <1>1, <1>3, <1>4, <1>5, <1>6 DEF Environment

\* Every step keeps every variable well typed.
LEMMA TypeNext == TypeOK /\ [Next]_vars => TypeOK'
<1> SUFFICES ASSUME TypeOK, [Next]_vars PROVE TypeOK'
  OBVIOUS
<1>1. CASE Next
  BY <1>1, TypeCycle, TypeWorker, TypeEnvironment DEF Next
<1>2. CASE UNCHANGED vars
  BY <1>2 DEF vars, TypeOK, Busy, ProvTypeOK, InvTypeOK
<1> QED
  BY <1>1, <1>2

\* The shard, its queue, its workers and the provider are well typed in every
\* reachable state.
THEOREM TypeCorrect == Spec => []TypeOK
BY TypeInit, TypeNext, PTL DEF Spec

-----------------------------------------------------------------------------
(* The ledger.  LedgerExact is inductive relative to the types: a machine    *)
(* leaves the queue only into a worker, a worker only through Finish, and    *)
(* enters the queue only from outside both.                                  *)

\* A step that touches neither the ledger nor the queue, and lets no worker
\* take up, drop or change an action.
LEMMA LedgerFrame ==
  ASSUME LedgerExact, UNCHANGED << pending, queue >>,
         Busy' = Busy, \A v \in Busy : worker'[v].act = worker[v].act
  PROVE  LedgerExact'
<1>1. Queued' = Queued
  BY DEF Queued
<1>2. Driven' = Driven
  BY DEF Driven
<1>3. \A v, w \in Busy' : worker'[v].act.m = worker'[w].act.m => v = w
  BY DEF LedgerExact
<1> QED
  BY <1>1, <1>2, <1>3 DEF LedgerExact

\* A busy worker that stays busy keeps its action in every executor step.
LEMMA ExecutorFrame ==
  ASSUME TypeOK, NEW w \in Workers, ExecuteStep(w), ~Finish(w)
  PROVE  /\ Busy' = Busy
         /\ \A v \in Busy : worker'[v].act = worker[v].act
         /\ UNCHANGED << pending, queue >>
         /\ worker[w].pc # "idle"
<1>1. UNCHANGED << pending, queue >>
  BY DEF ExecuteStep, executeProvision, executeBootstrap, executeDrain, executeDelete, Open,
         BlobUnavailable, BlobRefused, BlobArrives, CallServed, CallRefused, AnswerLost,
         CommitFailure, CommitAck, Local
<1>2. worker[w].pc # "idle"
  BY DEF ExecuteStep, executeProvision, executeBootstrap, executeDrain, executeDelete,
         BlobUnavailable, BlobRefused, BlobArrives, CallServed, CallRefused, AnswerLost,
         CommitFailure, CommitAck
<1>3. PICK x \in WorkerRecord :
        x.pc # "idle" /\ x.act = worker[w].act /\ worker' = [ worker EXCEPT ![w] = x ]
  <2> worker \in [ Workers -> WorkerRecord ] /\ worker[w] \in WorkerRecord
    BY DEF TypeOK
  <2>1. ASSUME NEW pc \in WorkerPCs \ {"idle"}, Goto(w, pc)
        PROVE  \E x \in WorkerRecord :
                 x.pc # "idle" /\ x.act = worker[w].act /\ worker' = [ worker EXCEPT ![w] = x ]
    <3> DEFINE x == [ worker[w] EXCEPT !.pc = pc ]
    <3>1. x \in WorkerRecord /\ x.pc # "idle" /\ x.act = worker[w].act
      BY DEF WorkerRecord
    <3>2. worker' = [ worker EXCEPT ![w] = x ]
      BY <2>1 DEF Goto
    <3> HIDE DEF x
    <3> QED
      BY <3>1, <3>2
  <2>2. ASSUME NEW start, NEW r, NEW op \in Ops, NEW pc \in WorkerPCs \ {"idle"},
               Open(w, start, r, op, pc)
        PROVE  \E x \in WorkerRecord :
                 x.pc # "idle" /\ x.act = worker[w].act /\ worker' = [ worker EXCEPT ![w] = x ]
    <3>1. CASE Goto(w, "finish")
      BY <2>1, <3>1 DEF WorkerPCs
    <3>2. CASE worker' = [ worker EXCEPT ![w].pc = pc, ![w].op = op ]
      <4> DEFINE x == [ worker[w] EXCEPT !.pc = pc, !.op = op ]
      <4>1. x \in WorkerRecord /\ x.pc # "idle" /\ x.act = worker[w].act
        BY DEF WorkerRecord
      <4>2. worker' = [ worker EXCEPT ![w] = x ]
        BY <3>2
      <4> HIDE DEF x
      <4> QED
        BY <4>1, <4>2
    <3> QED
      BY <2>2, <3>1, <3>2 DEF Open
  <2>3. CASE executeProvision(w)
    BY <2>2, <2>3 DEF executeProvision, Ops, WorkerPCs
  <2>4. CASE executeBootstrap(w)
    BY <2>2, <2>4 DEF executeBootstrap, Ops, WorkerPCs
  <2>5. CASE executeDrain(w)
    BY <2>2, <2>5 DEF executeDrain, Ops, WorkerPCs
  <2>6. CASE executeDelete(w)
    BY <2>2, <2>6 DEF executeDelete, Ops, WorkerPCs
  <2>7. CASE Goto(w, "finish") \/ Goto(w, "call") \/ Goto(w, "err")
    BY <2>1, <2>7 DEF WorkerPCs
  <2>8. CASE CallServed(w)
    <3> DEFINE x == [ worker[w] EXCEPT !.pc = "ack", !.ack = prov'[Target(w)] ]
    <3>1. prov'[Target(w)] \in ProvRecord
      BY <1>2, <2>8, BusyTypes, ServeType DEF CallServed, Serving, TypeOK
    <3>2. x \in WorkerRecord /\ x.pc # "idle" /\ x.act = worker[w].act
      BY <3>1 DEF WorkerRecord, WorkerPCs
    <3>3. worker' = [ worker EXCEPT ![w] = x ]
      BY <2>8 DEF CallServed
    <3> HIDE DEF x
    <3> QED
      BY <3>2, <3>3
  <2>9. CASE CommitAck(w)
    <3>1. PICK pc \in WorkerPCs \ {"idle"} :
            worker' = [ worker EXCEPT ![w].ack = NoListing, ![w].pc = pc ]
      BY <2>9 DEF CommitAck, WorkerPCs
    <3> DEFINE x == [ worker[w] EXCEPT !.ack = NoListing, !.pc = pc ]
    <3>2. x \in WorkerRecord /\ x.pc # "idle" /\ x.act = worker[w].act
      BY EmptyTypes DEF WorkerRecord
    <3>3. worker' = [ worker EXCEPT ![w] = x ]
      BY <3>1
    <3> HIDE DEF x
    <3> QED
      BY <3>2, <3>3
  <2> QED
    BY <2>3, <2>4, <2>5, <2>6, <2>7, <2>8, <2>9
       DEF ExecuteStep, BlobUnavailable, BlobRefused, BlobArrives, CallRefused,
           AnswerLost, CommitFailure
<1>4. /\ Busy' = Busy
      /\ \A v \in Busy : worker'[v].act = worker[v].act
  BY <1>2, <1>3 DEF TypeOK, Busy
<1> QED
  BY <1>1, <1>2, <1>4

\* Every step keeps the ledger exact.
LEMMA LedgerNext == TypeOK /\ LedgerExact /\ [Next]_vars => LedgerExact'
<1> SUFFICES ASSUME TypeOK, LedgerExact, [Next]_vars PROVE LedgerExact'
  OBVIOUS
<1>1. CASE Enqueue
  <2>1. CASE UNCHANGED << pending, queue >>
    BY <1>1, <2>1, LedgerFrame DEF Enqueue, Busy
  <2>2. CASE /\ emitting.m \notin pending
             /\ pending' = pending \cup { emitting.m }
             /\ queue' = Append(queue, emitting)
    <3>1. queue \in Seq(Action) /\ emitting \in Action
      BY <1>1 DEF Enqueue, TypeOK
    <3>2. /\ DOMAIN queue' = 1 .. (Len(queue) + 1)
          /\ DOMAIN queue = 1 .. Len(queue)
          /\ Len(queue) \in Nat
          /\ queue'[Len(queue) + 1] = emitting
          /\ \A i \in 1 .. Len(queue) : queue'[i] = queue[i]
      BY <2>2, <3>1
    <3>3. Queued' = Queued \cup { emitting.m }
      BY <3>2 DEF Queued
    <3>4. Driven' = Driven /\ UNCHANGED worker /\ Busy' = Busy
      BY <1>1 DEF Enqueue, Driven, Busy
    <3>5. emitting.m \notin Queued /\ emitting.m \notin Driven
      BY <2>2 DEF LedgerExact
    <3>6. \A i, j \in DOMAIN queue' : queue'[i].m = queue'[j].m => i = j
      BY <3>2, <3>5 DEF LedgerExact, Queued
    <3> QED
      BY <2>2, <3>3, <3>4, <3>5, <3>6 DEF LedgerExact
  <2> QED
    BY <1>1, <2>1, <2>2 DEF Enqueue
<1>2. ASSUME NEW w \in Workers, Take(w)
      PROVE  LedgerExact'
  <2>1. /\ queue \in Seq(Action) /\ queue # << >> /\ worker[w].pc = "idle"
        /\ w \notin Busy
    BY <1>2 DEF Take, TypeOK, Busy
  <2>2. /\ Len(queue) \in Nat \ {0}
        /\ DOMAIN queue = 1 .. Len(queue)
        /\ DOMAIN Tail(queue) = 1 .. (Len(queue) - 1)
        /\ Head(queue) = queue[1]
        /\ \A i \in 1 .. (Len(queue) - 1) : Tail(queue)[i] = queue[i + 1]
    BY <2>1
  <2>3. queue' = Tail(queue) /\ UNCHANGED pending
    BY <1>2 DEF Take
  <2>4. /\ Busy' = Busy \cup { w }
        /\ worker'[w].act = queue[1]
        /\ \A v \in Busy : worker'[v].act = worker[v].act
    BY <1>2, <2>1, <2>2 DEF Take, TypeOK, Busy, IdleWorker
  <2>5. Driven' = Driven \cup { queue[1].m }
    BY <2>4 DEF Driven
  <2>6. Queued' = Queued \ { queue[1].m }
    <3>1. \A i \in 1 .. (Len(queue) - 1) : i + 1 \in DOMAIN queue /\ i + 1 # 1
      BY <2>2
    <3>2. \A j \in DOMAIN queue : j # 1 => j - 1 \in 1 .. (Len(queue) - 1) /\ (j - 1) + 1 = j
      BY <2>2
    <3>3. Queued' \subseteq Queued \ { queue[1].m }
      BY <2>2, <2>3, <3>1 DEF Queued, LedgerExact
    <3>4. Queued \ { queue[1].m } \subseteq Queued'
      BY <2>2, <2>3, <3>2 DEF Queued
    <3> QED
      BY <3>3, <3>4
  <2>7. queue[1].m \in Queued
    BY <2>2 DEF Queued
  <2>8. \A i, j \in DOMAIN queue' : queue'[i].m = queue'[j].m => i = j
    <3> SUFFICES ASSUME NEW i \in DOMAIN queue', NEW j \in DOMAIN queue',
                        queue'[i].m = queue'[j].m
                 PROVE  i = j
      OBVIOUS
    <3>1. /\ i \in Int /\ j \in Int /\ i + 1 \in DOMAIN queue /\ j + 1 \in DOMAIN queue
          /\ queue'[i] = queue[i + 1] /\ queue'[j] = queue[j + 1]
      BY <2>2, <2>3
    <3>2. i + 1 = j + 1
      BY <3>1 DEF LedgerExact
    <3> QED
      BY <3>1, <3>2
  <2>9. \A u, v \in Busy' : worker'[u].act.m = worker'[v].act.m => u = v
    <3>1. \A v \in Busy : worker[v].act.m # queue[1].m
      BY <2>7 DEF LedgerExact, Driven
    <3> QED
      BY <2>4, <3>1 DEF LedgerExact
  <2> QED
    BY <2>3, <2>5, <2>6, <2>7, <2>8, <2>9 DEF LedgerExact
<1>3. ASSUME NEW w \in Workers, Finish(w)
      PROVE  LedgerExact'
  <2>1. /\ w \in Busy
        /\ pending' = pending \ { worker[w].act.m }
        /\ UNCHANGED queue
    BY <1>3 DEF Finish, Busy, Target
  <2>2. /\ Busy' = Busy \ { w }
        /\ \A v \in Busy' : worker'[v].act = worker[v].act
    BY <1>3 DEF Finish, TypeOK, Busy, IdleWorker
  <2>3. Driven' = Driven \ { worker[w].act.m }
    BY <2>1, <2>2 DEF Driven, LedgerExact
  <2>4. Queued' = Queued /\ worker[w].act.m \notin Queued
    <3>1. Queued' = Queued
      BY <2>1 DEF Queued
    <3>2. worker[w].act.m \in Driven
      BY <2>1 DEF Driven
    <3>3. Queued \cap Driven = {}
      BY DEF LedgerExact
    <3> QED
      BY <3>1, <3>2, <3>3
  <2> QED
    BY <2>1, <2>2, <2>3, <2>4 DEF LedgerExact
<1>4. ASSUME NEW w \in Workers, ExecuteStep(w), ~Finish(w)
      PROVE  LedgerExact'
  BY <1>4, ExecutorFrame, LedgerFrame
<1>5. CASE CycleStep /\ ~Enqueue
  <2>1. UNCHANGED << pending, queue, worker >>
    BY <1>5 DEF CycleStep, ListProvider, ListFails, ApplyReconciledMachine, ReconcileDone,
                Decide, CheckApplicable, EndCycle
  <2> QED
    BY <2>1, LedgerFrame DEF Busy
<1>6. CASE Environment
  <2>1. CASE Restart
    BY <2>1 DEF Restart, Fresh, LedgerExact, Queued, Driven, Busy, IdleWorker
  <2>2. CASE UNCHANGED << pending, queue, worker >>
    BY <2>2, LedgerFrame DEF Busy
  <2> QED
    BY <1>6, <2>1, <2>2 DEF Environment, SessionChange, ProviderCompletes, ProviderFails,
                            ProviderLoses
<1>7. CASE UNCHANGED vars
  BY <1>7, LedgerFrame DEF vars, Busy
<1> QED
  BY <1>1, <1>2, <1>3, <1>4, <1>5, <1>6, <1>7 DEF Next, WorkerStep

\* Whatever the numbers of machines and workers, the queue capacity, the
\* provider and the reconcile mode, pendingActions names exactly the machines
\* with an action queued or in flight, and each has one.
THEOREM LedgerIsExact == Spec => []LedgerExact
<1>1. Init => LedgerExact
  BY DEF Init, Fresh, LedgerExact, Queued, Driven, Busy, IdleWorker
<1> QED
  BY <1>1, TypeCorrect, LedgerNext, PTL DEF Spec

-----------------------------------------------------------------------------
(* An executor's commit is never refused: InFlightInv is inductive relative *)
(* to the types and the ledger.  The ledger is what keeps every other       *)
(* writer away: another worker drives another machine, and reconcile skips  *)
(* a pending one.                                                           *)

\* The two states of each operation.
LEMMA OpTable ==
  ASSUME NEW op \in Ops
  PROVE  \/ op = "Create"    /\ TransitionalOf(op) = "Creating"    /\ StableOf(op) = "Idle"
         \/ op = "Configure" /\ TransitionalOf(op) = "Configuring" /\ StableOf(op) = "Configured"
         \/ op = "Drain"     /\ TransitionalOf(op) = "Draining"    /\ StableOf(op) = "Idle"
         \/ op = "Delete"    /\ TransitionalOf(op) = "Deleting"    /\ StableOf(op) = "Speculative"
BY DEF Ops, TransitionalOf, StableOf

\* The rows of the transition table the executors use.
LEMMA Transitions ==
  /\ CanTransition("Creating", "Idle")
  /\ CanTransition("Configuring", "Configured")
  /\ CanTransition("Draining", "Idle")
  /\ CanTransition("Deleting", "Speculative")
  /\ \A s \in Transitional : CanTransition(s, "Failed")
<1>1. /\ "Idle" \in validTransitions["Creating"]
      /\ "Configured" \in validTransitions["Configuring"]
      /\ "Idle" \in validTransitions["Draining"]
      /\ "Speculative" \in validTransitions["Deleting"]
  BY DEF validTransitions, States
<1> QED
  BY <1>1 DEF CanTransition

\* Which states lead to a transitional one.
LEMMA Entries ==
  ASSUME NEW s \in States
  PROVE  /\ CanTransition(s, "Creating") => s = "Speculative"
         /\ CanTransition(s, "Configuring") => s = "Idle"
         /\ CanTransition(s, "Draining") => s = "Configured"
         /\ CanTransition(s, "Deleting") => s = "Idle"
<1>1. /\ "Creating" \in validTransitions[s] => s = "Speculative"
      /\ "Configuring" \in validTransitions[s] => s = "Idle"
      /\ "Draining" \in validTransitions[s] => s = "Configured"
      /\ "Deleting" \in validTransitions[s] => s = "Idle"
  BY DEF validTransitions, States
<1> QED
  BY <1>1 DEF CanTransition

\* The post-effect of an operation puts the host where the new state wants it.
LEMMA PostEffectHost ==
  ASSUME NEW p \in ProvRecord, NEW op \in Ops, NEW c, NEW n, p.state \in States,
         HostOf(p.state, p.host),
         NEW st \in { TransitionalOf(op), StableOf(op) },
         p.state = TransitionalOf(op) \/ CanTransition(p.state, TransitionalOf(op))
  PROVE  LET q == PostEffect(p, op, st, c, n)
         IN  q.state = st /\ HostOf(q.state, q.host)
<1> DEFINE q == PostEffect(p, op, st, c, n)
<1>1. /\ q.state = st
      /\ q.host = ((p.host \/ (op = "Create" /\ st = "Idle"))
                     /\ ~(op = "Delete" /\ st = "Speculative"))
  BY DEF PostEffect, ProvRecord
<1>2. CASE op = "Create"
  <2>1. TransitionalOf(op) = "Creating" /\ StableOf(op) = "Idle"
    BY <1>2, OpTable
  <2>2. p.state \in { "Creating", "Speculative" } /\ ~p.host
    BY <2>1, Entries DEF HostOf, States
  <2> QED
    BY <1>1, <1>2, <2>1, <2>2 DEF HostOf, States
<1>3. CASE op = "Configure"
  <2>1. TransitionalOf(op) = "Configuring" /\ StableOf(op) = "Configured"
    BY <1>3, OpTable
  <2>2. p.state \in { "Configuring", "Idle" } /\ p.host
    BY <2>1, Entries DEF HostOf, States
  <2> QED
    BY <1>1, <1>3, <2>1, <2>2 DEF HostOf, States
<1>4. CASE op = "Drain"
  <2>1. TransitionalOf(op) = "Draining" /\ StableOf(op) = "Idle"
    BY <1>4, OpTable
  <2>2. p.state \in { "Draining", "Configured" } /\ p.host
    BY <2>1, Entries DEF HostOf, States
  <2> QED
    BY <1>1, <1>4, <2>1, <2>2 DEF HostOf, States
<1>5. CASE op = "Delete"
  <2>1. TransitionalOf(op) = "Deleting" /\ StableOf(op) = "Speculative"
    BY <1>5, OpTable
  <2>2. p.state \in { "Deleting", "Idle" } /\ p.host
    BY <2>1, Entries DEF HostOf, States
  <2> QED
    BY <1>1, <1>5, <2>1, <2>2 DEF HostOf, States
<1> QED
  BY <1>2, <1>3, <1>4, <1>5 DEF Ops

\* A served call answers with one of its operation's two states, with the host
\* that state wants, and leaves every provider record so.
LEMMA ServeHost ==
  ASSUME ProvTypeOK, \A x \in Machines : HostOf(prov[x].state, prov[x].host),
         NEW m \in Machines, NEW op \in Ops, NEW c, NEW n, Serve(m, op, c, n)
  PROVE  /\ prov'[m].state \in { TransitionalOf(op), StableOf(op) }
         /\ \A x \in Machines : HostOf(prov'[x].state, prov'[x].host)
<1> DEFINE ans == Answer(m, op, c, n)
<1>1. /\ prov[m] \in ProvRecord /\ prov[m].state \in States
      /\ HostOf(prov[m].state, prov[m].host)
  BY DEF ProvTypeOK, ProvRecord, Serve, Accepts
<1>2. ans.state \in { TransitionalOf(op), StableOf(op) } /\ HostOf(ans.state, ans.host)
  <2>1. CASE Cached(m, op)
    BY <1>1, <2>1 DEF Answer, Cached
  <2>2. CASE ~Cached(m, op)
    <3> DEFINE st == IF op \in StagedOps THEN TransitionalOf(op) ELSE StableOf(op)
    <3>1. CanTransition(prov[m].state, TransitionalOf(op))
      BY <2>2 DEF Serve, Accepts
    <3>2. ans = PostEffect(prov[m], op, st, c, n)
      BY <2>2 DEF Answer
    <3>3. st \in { TransitionalOf(op), StableOf(op) }
      OBVIOUS
    <3> HIDE DEF st, ans
    <3> QED
      BY <1>1, <3>1, <3>2, <3>3, PostEffectHost
  <2> QED
    BY <2>1, <2>2
<1>3. prov' = [ prov EXCEPT ![m] = ans ]
  BY DEF Serve
<1> HIDE DEF ans
<1> QED
  BY <1>2, <1>3 DEF ProvTypeOK

\* A write that was tried leaves only structurally sound records.
LEMMA WrittenSound ==
  ASSUME InvTypeOK, NEW m \in Machines, NEW r \in InvRecord,
         \A x \in Machines : inv[x].state # "Absent" =>
           Invariant(inv[x].state, inv[x].host, inv[x].cluster, inv[x].lastError),
         inv' = Written(m, r)
  PROVE  \A x \in Machines : inv'[x].state # "Absent" =>
           Invariant(inv'[x].state, inv'[x].host, inv'[x].cluster, inv'[x].lastError)
<1>1. CASE Accepted(m, r)
  BY <1>1 DEF Written, InvTypeOK, Accepted
<1>2. CASE ~Accepted(m, r)
  BY <1>2 DEF Written
<1> QED
  BY <1>1, <1>2

\* A worker's write to its own machine does not disturb another worker.
LEMMA OtherWorkers ==
  ASSUME TypeOK, LedgerExact, NEW w \in Busy, NEW v \in Busy, v # w,
         InFlight(v), worker'[v] = worker[v],
         NEW r, inv' = inv \/ inv' = Written(Target(w), r)
  PROVE  InFlight(v)'
<1>1. Target(v) # Target(w) /\ Target(v) \in Machines
  <2>1. v \in Workers /\ w \in Workers /\ worker[v].pc # "idle"
    BY DEF Busy
  <2> QED
    BY <2>1, BusyTypes DEF LedgerExact, Target
<1>2. inv'[Target(v)] = inv[Target(v)]
  BY <1>1 DEF Written, TypeOK, InvTypeOK
<1> QED
  BY <1>2 DEF InFlight, Record, Target

-----------------------------------------------------------------------------
(* InFlightInv is preserved, one lemma for each part of the next-state       *)
(* relation.                                                                 *)

\* A step of worker w that writes at most its own machine's record and moves
\* only w keeps the invariant if it keeps it for w.
LEMMA OwnStep ==
  ASSUME TypeOK, LedgerExact, InFlightInv, NEW w \in Busy,
         NEW x, worker' = [ worker EXCEPT ![w] = x ],
         NEW r \in InvRecord, inv' = inv \/ inv' = Written(Target(w), r),
         \A m \in Machines : HostOf(prov'[m].state, prov'[m].host),
         w \in Busy' => InFlight(w)'
  PROVE  InFlightInv'
<1>1. w \in Workers /\ Target(w) \in Machines
  BY BusyTypes DEF Busy
<1>2. \A m \in Machines : inv'[m].state # "Absent" =>
        Invariant(inv'[m].state, inv'[m].host, inv'[m].cluster, inv'[m].lastError)
  <2>1. CASE inv' = inv
    BY <2>1 DEF InFlightInv
  <2>2. CASE inv' = Written(Target(w), r)
    BY <1>1, <2>2, WrittenSound DEF InFlightInv, TypeOK
  <2> QED
    BY <2>1, <2>2
<1>3. ASSUME NEW v \in Busy'
      PROVE  InFlight(v)'
  <2>1. CASE v = w
    BY <1>3, <2>1
  <2>2. CASE v # w
    <3>1. worker'[v] = worker[v] /\ v \in Busy
      BY <1>3, <2>2 DEF Busy, TypeOK
    <3>2. InFlight(v)
      BY <3>1 DEF InFlightInv
    <3> QED
      BY <2>2, <3>1, <3>2, OtherWorkers
  <2> QED
    BY <2>1, <2>2
<1> QED
  BY <1>2, <1>3 DEF InFlightInv

\* The opening of an executor.
LEMMA OpenInFlight ==
  ASSUME TypeOK, LedgerExact, InFlightInv, NEW w \in Busy, NEW start,
         NEW r \in InvRecord, NEW op \in Ops, NEW pc \in { "blob", "call" },
         r.state = TransitionalOf(op),
         op \in { "Create", "Configure" } => worker[w].act.kind \in Assigning,
         pc = "blob" => op = "Configure",
         Open(w, start, r, op, pc)
  PROVE  InFlightInv'
<1>1. /\ w \in Workers /\ Target(w) \in Machines /\ worker[w] \in WorkerRecord
      /\ inv \in [ Machines -> InvRecord ]
  BY BusyTypes DEF Busy, TypeOK, InvTypeOK
<1>2. \A m \in Machines : HostOf(prov'[m].state, prov'[m].host)
  BY DEF Open, Local, InFlightInv
<1>3. CASE Record(w).state = start /\ Accepted(Target(w), r)
  <2> DEFINE x == [ worker[w] EXCEPT !.pc = pc, !.op = op ]
  <2>1. worker' = [ worker EXCEPT ![w] = x ] /\ inv' = Written(Target(w), r)
    BY <1>3 DEF Open
  <2>2. x.pc = pc /\ x.op = op /\ x.act = worker[w].act
    BY <1>1 DEF WorkerRecord
  <2> HIDE DEF x
  <2>3. worker'[w] = x
    BY <1>1, <2>1 DEF TypeOK
  <2>4. inv'[Target(w)] = r
    BY <1>1, <1>3, <2>1 DEF Written
  <2>5. InFlight(w)'
    BY <2>2, <2>3, <2>4 DEF InFlight, Record, Target
  <2> QED
    BY <1>2, <2>1, <2>5, OwnStep
<1>4. CASE ~(Record(w).state = start /\ Accepted(Target(w), r))
  <2> DEFINE x == [ worker[w] EXCEPT !.pc = "finish" ]
  <2>1. worker' = [ worker EXCEPT ![w] = x ] /\ inv' = inv
    BY <1>4 DEF Open, Goto
  <2>2. x.pc = "finish"
    BY <1>1 DEF WorkerRecord
  <2> HIDE DEF x
  <2>3. worker'[w] = x
    BY <1>1, <2>1 DEF TypeOK
  <2>4. InFlight(w)'
    BY <2>2, <2>3 DEF InFlight
  <2> QED
    BY <1>2, <2>1, <2>4, OwnStep
<1> QED
  BY <1>3, <1>4

\* An executor that returns leaves nothing to be shown of its worker.
LEMMA ReturnInFlight ==
  ASSUME TypeOK, LedgerExact, InFlightInv, NEW w \in Busy, Goto(w, "finish"),
         NEW r \in InvRecord, inv' = inv \/ inv' = Written(Target(w), r), Local
  PROVE  InFlightInv'
<1> DEFINE x == [ worker[w] EXCEPT !.pc = "finish" ]
<1>1. w \in Workers /\ worker[w] \in WorkerRecord
  BY BusyTypes DEF Busy
<1>2. worker' = [ worker EXCEPT ![w] = x ] /\ x.pc = "finish"
  BY <1>1 DEF Goto, WorkerRecord
<1> HIDE DEF x
<1>3. worker'[w] = x
  BY <1>1, <1>2 DEF TypeOK
<1>4. InFlight(w)'
  BY <1>2, <1>3 DEF InFlight
<1>5. \A m \in Machines : HostOf(prov'[m].state, prov'[m].host)
  BY DEF Local, InFlightInv
<1> QED
  BY <1>2, <1>4, <1>5, OwnStep

\* The end of the provider call, and of the wait for a blob: the inventory is
\* left alone, so the machine is still where the worker put it.
LEMMA CallInFlight ==
  ASSUME TypeOK, LedgerExact, InFlightInv, NEW w \in Busy,
         BlobArrives(w) \/ CallServed(w) \/ CallRefused(w) \/ AnswerLost(w)
  PROVE  InFlightInv'
<1>1. /\ w \in Workers /\ worker[w] \in WorkerRecord /\ worker[w].op \in Ops
      /\ Target(w) \in Machines /\ ProvTypeOK /\ NoRecord \in InvRecord
      /\ worker \in [ Workers -> WorkerRecord ]
  BY BusyTypes, EmptyTypes DEF Busy, TypeOK
<1>2. InFlight(w) /\ \A m \in Machines : HostOf(prov[m].state, prov[m].host)
  BY DEF InFlightInv
<1>3. CASE BlobArrives(w) \/ CallRefused(w) \/ AnswerLost(w)
  <2>1. PICK pc \in { "call", "err" } :
          /\ worker' = [ worker EXCEPT ![w] = [ worker[w] EXCEPT !.pc = pc ] ]
          /\ pc = "call" => worker[w].pc = "blob"
          /\ pc = "err" => worker[w].pc = "call"
    BY <1>3 DEF BlobArrives, CallRefused, AnswerLost, Goto
  <2> DEFINE x == [ worker[w] EXCEPT !.pc = pc ]
  <2>2. x.pc = pc /\ x.op = worker[w].op /\ x.act = worker[w].act
    BY <1>1 DEF WorkerRecord
  <2>3. worker' = [ worker EXCEPT ![w] = x ] /\ worker'[w] = x
    BY <1>1, <2>1
  <2> HIDE DEF x
  <2>4. inv' = inv
    BY <1>3 DEF BlobArrives, CallRefused, AnswerLost
  <2>5. InFlight(w)'
    BY <1>2, <2>1, <2>2, <2>3, <2>4 DEF InFlight, Record, Target
  <2>6. \A m \in Machines : HostOf(prov'[m].state, prov'[m].host)
    <3>1. CASE AnswerLost(w)
      BY <1>1, <1>2, <3>1, ServeHost DEF AnswerLost, Serving
    <3>2. CASE BlobArrives(w) \/ CallRefused(w)
      BY <1>2, <3>2 DEF BlobArrives, CallRefused, Local
    <3> QED
      BY <1>3, <3>1, <3>2
  <2> QED
    BY <1>1, <2>3, <2>4, <2>5, <2>6, OwnStep
<1>4. CASE CallServed(w)
  <2> DEFINE x == [ worker[w] EXCEPT !.pc = "ack", !.ack = prov'[Target(w)] ]
  <2>1. /\ prov'[Target(w)].state \in { TransitionalOf(worker[w].op), StableOf(worker[w].op) }
        /\ \A m \in Machines : HostOf(prov'[m].state, prov'[m].host)
    BY <1>1, <1>2, <1>4, ServeHost DEF CallServed, Serving
  <2>2. x.pc = "ack" /\ x.op = worker[w].op /\ x.act = worker[w].act /\ x.ack = prov'[Target(w)]
    BY <1>1 DEF WorkerRecord
  <2>3. worker' = [ worker EXCEPT ![w] = x ] /\ inv' = inv /\ worker[w].pc = "call"
    BY <1>4 DEF CallServed
  <2> HIDE DEF x
  <2>4. worker'[w] = x
    BY <1>1, <2>3
  <2>5. InFlight(w)'
    BY <1>1, <1>2, <2>1, <2>2, <2>3, <2>4 DEF InFlight, Record, Target
  <2> QED
    BY <1>1, <2>1, <2>3, <2>5, OwnStep
<1> QED
  BY <1>3, <1>4

\* Every step of a worker.
LEMMA WorkerInFlight ==
  ASSUME TypeOK, LedgerExact, InFlightInv, NEW w \in Workers, WorkerStep(w)
  PROVE  InFlightInv'
<1>1. CASE Take(w)
  <2>1. /\ UNCHANGED << inv, prov >>
        /\ worker'[w].pc = "begin"
        /\ \A v \in Workers \ {w} : worker'[v] = worker[v]
    BY <1>1 DEF Take, TypeOK, IdleWorker
  <2>2. ASSUME NEW v \in Busy' PROVE InFlight(v)'
    <3>1. CASE v = w
      BY <2>1, <3>1 DEF InFlight
    <3>2. CASE v # w
      <4>1. v \in Busy /\ worker'[v] = worker[v]
        BY <2>1, <2>2, <3>2 DEF Busy
      <4> QED
        BY <2>1, <4>1 DEF InFlightInv, InFlight, Record, Target
    <3> QED
      BY <3>1, <3>2
  <2> QED
    BY <2>1, <2>2 DEF InFlightInv
<1>2. CASE Finish(w)
  <2>1. /\ UNCHANGED << inv, prov >>
        /\ \A v \in Busy' : v \in Busy /\ worker'[v] = worker[v]
    BY <1>2 DEF Finish, TypeOK, Busy, IdleWorker
  <2>2. ASSUME NEW v \in Busy' PROVE InFlight(v)'
    BY <2>1, <2>2 DEF InFlightInv, InFlight, Record, Target
  <2> QED
    BY <2>1, <2>2 DEF InFlightInv
<1>3. CASE ExecuteStep(w) /\ ~Finish(w)
  <2>1. /\ w \in Busy /\ Record(w) \in InvRecord /\ worker[w].act \in Action
        /\ worker[w].act.cluster \in Clusters \cup { None }
        /\ worker[w].act.need \in Needs \cup { None }
        /\ InFlight(w) /\ NoRecord \in InvRecord
    BY <1>3, ExecutorFrame, BusyTypes, EmptyTypes DEF InFlightInv
  <2>2. /\ TransitionalOf("Create") = "Creating" /\ TransitionalOf("Configure") = "Configuring"
        /\ TransitionalOf("Drain") = "Draining" /\ TransitionalOf("Delete") = "Deleting"
    BY OpTable DEF Ops
  <2>3. CASE executeProvision(w)
    <3> DEFINE r == [ Record(w) EXCEPT !.state = "Creating", !.need = worker[w].act.need ]
    <3>1. r \in InvRecord /\ r.state = TransitionalOf("Create")
      BY <2>1, <2>2 DEF InvRecord, States
    <3>2. Open(w, "Speculative", r, "Create", "call") /\ worker[w].act.kind \in Assigning
      BY <2>3 DEF executeProvision, Assigning
    <3> HIDE DEF r
    <3> QED
      BY <2>1, <3>1, <3>2, OpenInFlight DEF Ops
  <2>4. CASE executeBootstrap(w)
    <3> DEFINE r == [ Record(w) EXCEPT !.state = "Configuring", !.cluster = worker[w].act.cluster,
                                       !.need = worker[w].act.need ]
    <3>1. r \in InvRecord /\ r.state = TransitionalOf("Configure")
      BY <2>1, <2>2 DEF InvRecord, States
    <3>2. Open(w, "Idle", r, "Configure", "blob") /\ worker[w].act.kind \in Assigning
      BY <2>1, <2>4 DEF executeBootstrap, Assigning, InFlight
    <3> HIDE DEF r
    <3> QED
      BY <2>1, <3>1, <3>2, OpenInFlight DEF Ops
  <2>5. CASE executeDrain(w)
    <3> DEFINE r == [ Record(w) EXCEPT !.state = "Draining" ]
    <3>1. r \in InvRecord /\ r.state = TransitionalOf("Drain")
      BY <2>1, <2>2 DEF InvRecord, States
    <3>2. Open(w, "Configured", r, "Drain", "call")
      BY <2>5 DEF executeDrain
    <3> HIDE DEF r
    <3> QED
      BY <2>1, <3>1, <3>2, OpenInFlight DEF Ops
  <2>6. CASE executeDelete(w)
    <3> DEFINE r == [ Record(w) EXCEPT !.state = "Deleting" ]
    <3>1. r \in InvRecord /\ r.state = TransitionalOf("Delete")
      BY <2>1, <2>2 DEF InvRecord, States
    <3>2. Open(w, "Idle", r, "Delete", "call")
      BY <2>6 DEF executeDelete
    <3> HIDE DEF r
    <3> QED
      BY <2>1, <3>1, <3>2, OpenInFlight DEF Ops
  <2>7. CASE BlobUnavailable(w)
    <3>1. RolledBack(w) \in InvRecord
      BY <2>1 DEF RolledBack, InvRecord, States
    <3> QED
      BY <2>1, <2>7, <3>1, ReturnInFlight DEF BlobUnavailable
  <2>8. ASSUME NEW why \in { "operator", "session" }, BlobRefused(w, why)
        PROVE  InFlightInv'
    <3> DEFINE r == [ Record(w) EXCEPT !.state = "Failed", !.lastError = why ]
    <3>1. r \in InvRecord
      BY <2>1 DEF InvRecord, States, Errors
    <3>2. inv' = Written(Target(w), r) /\ Goto(w, "finish") /\ Local
      BY <2>8 DEF BlobRefused
    <3> HIDE DEF r
    <3> QED
      BY <2>1, <3>1, <3>2, ReturnInFlight
  <2>9. CASE CommitFailure(w)
    <3> DEFINE r == [ Record(w) EXCEPT !.state = "Failed", !.lastError = "provider" ]
    <3>1. r \in InvRecord
      BY <2>1 DEF InvRecord, States, Errors
    <3>2. inv' = Written(Target(w), r) /\ Goto(w, "finish") /\ Local
      BY <2>9 DEF CommitFailure
    <3> HIDE DEF r
    <3> QED
      BY <2>1, <3>1, <3>2, ReturnInFlight
  <2>10. CASE CommitAck(w)
    <3>1. PICK pc \in { "bootstrap", "finish" } :
            /\ worker' = [ worker EXCEPT ![w].ack = NoListing, ![w].pc = pc ]
            /\ pc = "bootstrap" => worker[w].op = "Create"
      BY <2>10 DEF CommitAck
    <3> DEFINE x == [ worker[w] EXCEPT !.ack = NoListing, !.pc = pc ]
    <3>2. x.pc = pc /\ x.act = worker[w].act
      BY <2>1, BusyTypes DEF WorkerRecord, TypeOK
    <3>3. worker' = [ worker EXCEPT ![w] = x ]
      BY <3>1
    <3> HIDE DEF x
    <3>4. worker'[w] = x
      BY <3>3 DEF TypeOK
    <3>5. worker[w].pc = "ack"
      BY <2>10 DEF CommitAck
    <3>6. InFlight(w)'
      BY <2>1, <3>1, <3>2, <3>4, <3>5 DEF InFlight
    <3>7. Acked(w) \in InvRecord /\ (inv' = inv \/ inv' = Written(Target(w), Acked(w)))
      BY <2>1, <2>10, AckedType DEF CommitAck
    <3>8. \A m \in Machines : HostOf(prov'[m].state, prov'[m].host)
      BY <2>10 DEF CommitAck, Local, InFlightInv
    <3> QED
      BY <2>1, <3>3, <3>6, <3>7, <3>8, OwnStep
  <2> QED
    BY <1>3, <2>1, <2>3, <2>4, <2>5, <2>6, <2>7, <2>8, <2>9, <2>10, CallInFlight
       DEF ExecuteStep
<1> QED
  BY <1>1, <1>2, <1>3 DEF WorkerStep

\* The cycle: a reconciled record is sound and never that of a driven machine,
\* a pruned machine is absent.
LEMMA CycleInFlight ==
  ASSUME TypeOK, LedgerExact, InFlightInv, CycleStep
  PROVE  InFlightInv'
<1>1. UNCHANGED << prov, worker >>
  BY DEF CycleStep, ListProvider, ListFails, ApplyReconciledMachine, ReconcileDone,
         Decide, CheckApplicable, Enqueue, EndCycle
<1>2. \A w \in Busy : Target(w) \in Machines /\ Target(w) \in pending
  BY BusyTypes DEF Busy, LedgerExact, Driven, Target
<1>3. ASSUME \A m \in Machines : inv'[m].state # "Absent" =>
               Invariant(inv'[m].state, inv'[m].host, inv'[m].cluster, inv'[m].lastError),
             \A w \in Busy : inv'[Target(w)] = inv[Target(w)] \/ inv'[Target(w)].state = "Absent"
      PROVE  InFlightInv'
  <2>1. Busy' = Busy
    BY <1>1 DEF Busy
  <2>2. ASSUME NEW w \in Busy PROVE InFlight(w)'
    BY <1>1, <1>3, <2>2 DEF InFlightInv, InFlight, Record, Target
  <2> QED
    BY <1>1, <1>3, <2>1, <2>2 DEF InFlightInv
<1>4. ASSUME NEW m \in Machines, ApplyReconciledMachine(m)
      PROVE  InFlightInv'
  <2>1. inv' = Reconciled(m) /\ listed[m] \in ProvRecord
    BY <1>4 DEF ApplyReconciledMachine, TypeOK
  <2>2. CASE inv' = inv
    BY <1>3, <2>2 DEF InFlightInv
  <2>3. CASE inv' # inv
    <3>1. m \notin pending /\ inv' = Written(m, Ingested(m, listed[m]))
      BY <2>1, <2>3 DEF Reconciled
    <3>2. Ingested(m, listed[m]) \in InvRecord
      BY <2>1, IngestedType DEF TypeOK
    <3>3. \A x \in Machines : inv'[x].state # "Absent" =>
            Invariant(inv'[x].state, inv'[x].host, inv'[x].cluster, inv'[x].lastError)
      BY <3>1, <3>2, WrittenSound DEF TypeOK, InFlightInv
    <3>4. \A w \in Busy : inv'[Target(w)] = inv[Target(w)]
      BY <1>2, <3>1 DEF Written, TypeOK, InvTypeOK
    <3> QED
      BY <1>3, <3>3, <3>4
  <2> QED
    BY <2>2, <2>3
<1>5. CASE ReconcileDone
  <2>1. \A m \in Machines : inv'[m] = inv[m] \/ inv'[m].state = "Absent"
    BY <1>5 DEF ReconcileDone, Pruned, NoRecord
  <2> QED
    BY <1>2, <1>3, <2>1 DEF InFlightInv
<1>6. CASE inv' = inv
  BY <1>3, <1>6 DEF InFlightInv
<1> QED
  BY <1>4, <1>5, <1>6 DEF CycleStep, ListProvider, ListFails, Decide, CheckApplicable,
                          Enqueue, EndCycle

\* The surroundings.
LEMMA EnvironmentInFlight ==
  ASSUME TypeOK, InFlightInv, Environment
  PROVE  InFlightInv'
<1>1. ASSUME UNCHANGED << inv, worker >>,
             \A m \in Machines : HostOf(prov'[m].state, prov'[m].host)
      PROVE  InFlightInv'
  <2>1. Busy' = Busy
    BY <1>1 DEF Busy
  <2>2. ASSUME NEW w \in Busy PROVE InFlight(w)'
    BY <1>1, <2>2 DEF InFlightInv, InFlight, Record, Target
  <2> QED
    BY <1>1, <2>1, <2>2 DEF InFlightInv
<1>2. ASSUME NEW c \in Clusters, SessionChange(c)
      PROVE  InFlightInv'
  BY <1>1, <1>2 DEF SessionChange, InFlightInv
<1>3. ASSUME NEW m \in Machines, ProviderCompletes(m)
      PROVE  InFlightInv'
  <2>1. PICK op \in Ops :
          /\ prov[m].state = TransitionalOf(op)
          /\ prov' = [ prov EXCEPT ![m] =
                         PostEffect(prov[m], op, StableOf(op), prov[m].cluster, prov[m].meta) ]
    BY <1>3 DEF ProviderCompletes, CompleteStaged
  <2> DEFINE q == PostEffect(prov[m], op, StableOf(op), prov[m].cluster, prov[m].meta)
  <2>2. /\ prov[m] \in ProvRecord /\ prov[m].state \in States
        /\ HostOf(prov[m].state, prov[m].host)
    BY <2>1, OpTable DEF TypeOK, ProvTypeOK, InFlightInv, States
  <2>3. HostOf(q.state, q.host)
    BY <2>1, <2>2, PostEffectHost
  <2>4. prov' = [ prov EXCEPT ![m] = q ]
    BY <2>1
  <2> HIDE DEF q
  <2>5. \A x \in Machines : HostOf(prov'[x].state, prov'[x].host)
    BY <2>3, <2>4 DEF InFlightInv, TypeOK, ProvTypeOK
  <2> QED
    BY <1>1, <1>3, <2>5 DEF ProviderCompletes
<1>4. ASSUME NEW m \in Machines, ProviderFails(m)
      PROVE  InFlightInv'
  <2>1. prov[m] \in ProvRecord
    BY DEF TypeOK, ProvTypeOK
  <2>2. [ prov[m] EXCEPT !.state = "Failed" ].state = "Failed"
    BY <2>1 DEF ProvRecord
  <2>3. prov' = [ prov EXCEPT ![m] = [ prov[m] EXCEPT !.state = "Failed" ] ]
    BY <1>4 DEF ProviderFails, FailMachine
  <2>4. \A x \in Machines : HostOf(prov'[x].state, prov'[x].host)
    BY <2>2, <2>3 DEF InFlightInv, TypeOK, ProvTypeOK, HostOf
  <2> QED
    BY <1>1, <1>4, <2>4 DEF ProviderFails
<1>5. ASSUME NEW m \in Machines, ProviderLoses(m)
      PROVE  InFlightInv'
  <2>1. \A x \in Machines : HostOf(prov'[x].state, prov'[x].host)
    BY <1>5 DEF ProviderLoses, RemoveMachine, InFlightInv, TypeOK, ProvTypeOK, HostOf,
                NoListing, States
  <2> QED
    BY <1>1, <1>5, <2>1 DEF ProviderLoses
<1>6. CASE Restart
  BY <1>6 DEF Restart, Fresh, InFlightInv, NoRecord, Busy, IdleWorker
<1> QED
  BY <1>2, <1>3, <1>4, <1>5, <1>6 DEF Environment

-----------------------------------------------------------------------------
(* The theorems. *)

\* InFlightInv holds in every reachable state.
LEMMA InFlightInvariant == Spec => []InFlightInv
<1>1. Init => InFlightInv
  <2> SUFFICES ASSUME Init PROVE InFlightInv
    OBVIOUS
  <2>1. ASSUME NEW p \in Seeded PROVE HostOf(p.state, p.host)
    <3>1. CASE p = [ NoListing EXCEPT !.state = "Speculative" ]
      <4>1. p.state = "Speculative" /\ p.host = FALSE
        BY <3>1 DEF NoListing
      <4> QED
        BY <4>1 DEF HostOf
    <3>2. CASE p = [ NoListing EXCEPT !.state = "Idle", !.host = TRUE ]
      <4>1. p.state = "Idle" /\ p.host = TRUE
        BY <3>2 DEF NoListing
      <4> QED
        BY <4>1 DEF HostOf
    <3> QED
      BY <3>1, <3>2 DEF Seeded
  <2> QED
    BY <2>1 DEF Init, ProvInit, Fresh, InFlightInv, NoRecord, Busy, IdleWorker
<1>2. TypeOK /\ LedgerExact /\ InFlightInv /\ [Next]_vars => InFlightInv'
  <2> SUFFICES ASSUME TypeOK, LedgerExact, InFlightInv, [Next]_vars PROVE InFlightInv'
    OBVIOUS
  <2>1. CASE Next
    BY <2>1, WorkerInFlight, CycleInFlight, EnvironmentInFlight DEF Next
  <2>2. CASE UNCHANGED vars
    <3>1. UNCHANGED << inv, prov, worker >> /\ Busy' = Busy
      BY <2>2 DEF vars, Busy
    <3>2. ASSUME NEW w \in Busy PROVE InFlight(w)'
      BY <3>1, <3>2 DEF InFlightInv, InFlight, Record, Target
    <3> QED
      BY <3>1, <3>2 DEF InFlightInv
  <2> QED
    BY <2>1, <2>2
<1> QED
  BY <1>1, <1>2, TypeCorrect, LedgerIsExact, PTL DEF Spec

\* In a state that satisfies the invariant, a commit is accepted.
LEMMA InFlightCommits == TypeOK /\ InFlightInv => CommitAccepted
<1> SUFFICES ASSUME TypeOK, InFlightInv, NEW w \in Busy, Record(w).state # "Absent"
             PROVE  /\ worker[w].pc = "ack" /\ WritesAck(w) => Accepted(Target(w), Acked(w))
                    /\ worker[w].pc = "err" => CanTransition(Record(w).state, "Failed")
  BY DEF CommitAccepted
<1> DEFINE a == worker[w].ack
           r == Record(w)
           act == worker[w].act
           op == worker[w].op
<1>1. /\ InFlight(w) /\ op \in Ops /\ r \in InvRecord /\ act \in Action /\ a \in ProvRecord
      /\ Target(w) \in Machines /\ r = inv[Target(w)]
      /\ Invariant(r.state, r.host, r.cluster, r.lastError)
  BY BusyTypes DEF Busy, InFlightInv, Record
<1>2. CASE worker[w].pc = "err"
  <2>1. r.state \in Transitional
    BY <1>1, <1>2, OpTable DEF InFlight, Transitional
  <2> QED
    BY <1>2, <2>1, Transitions
<1>3. CASE worker[w].pc = "ack" /\ WritesAck(w)
  <2>0. /\ r.state = TransitionalOf(op) /\ a.state \in { TransitionalOf(op), StableOf(op) }
        /\ HostOf(a.state, a.host)
        /\ op \in { "Create", "Configure" } => act.kind \in Assigning
    BY <1>1, <1>3 DEF InFlight
  <2>1. CASE op = "Create"
    <3>1. Acked(w) = [ r EXCEPT !.state = a.state, !.host = a.host ]
      BY <2>1 DEF Acked
    <3>a. TransitionalOf(op) = "Creating" /\ StableOf(op) = "Idle"
      BY <1>1, <2>1, OpTable
    <3>b. r.state = "Creating" /\ a.state \in { "Creating", "Idle" }
      BY <2>0, <3>a
    <3>2. /\ r.state = "Creating" /\ a.state \in { "Creating", "Idle" }
          /\ (a.host <=> a.state = "Idle")
      BY <2>0, <3>b DEF HostOf, States
    <3>3. /\ Acked(w).state = a.state /\ Acked(w).host = a.host /\ Acked(w).cluster = r.cluster
      BY <1>1, <3>1 DEF InvRecord
    <3> QED
      BY <1>1, <1>3, <3>2, <3>3, Transitions DEF Accepted, Invariant, ProvRecord
  <2>2. CASE op = "Configure"
    <3>1. Acked(w) = [ r EXCEPT !.state = a.state, !.host = a.host, !.cluster = act.cluster,
                                !.need = act.need, !.prot = act.need ]
      BY <2>2 DEF Acked
    <3>a. TransitionalOf(op) = "Configuring" /\ StableOf(op) = "Configured"
      BY <1>1, <2>2, OpTable
    <3>b. r.state = "Configuring" /\ a.state \in { "Configuring", "Configured" }
      BY <2>0, <3>a
    <3>2. r.state = "Configuring" /\ a.state \in { "Configuring", "Configured" } /\ a.host
      BY <2>0, <3>b DEF HostOf, States
    <3>3. act.cluster # None
      BY <1>1, <2>0, <2>2, NoneAssumption DEF Action
    <3>4. /\ Acked(w).state = a.state /\ Acked(w).host = a.host /\ Acked(w).cluster = act.cluster
      BY <1>1, <3>1 DEF InvRecord
    <3> QED
      BY <1>1, <1>3, <3>2, <3>3, <3>4, Transitions DEF Accepted, Invariant, ProvRecord
  <2>3. CASE op = "Drain"
    <3>1. Acked(w) = [ r EXCEPT !.state = "Idle", !.host = (@ \/ a.host), !.cluster = None,
                                !.need = None, !.prot = None ]
      BY <2>3 DEF Acked
    <3>2. r.state = "Draining" /\ r.host
      BY <1>1, <2>0, <2>3, OpTable DEF Invariant
    <3>3. Acked(w).state = "Idle" /\ Acked(w).host
      BY <1>1, <3>1, <3>2 DEF InvRecord
    <3> QED
      BY <1>1, <1>3, <3>2, <3>3, Transitions DEF Accepted, Invariant
  <2>4. CASE op = "Delete"
    <3>1. Acked(w) = IF a.state = "Speculative"
                     THEN [ r EXCEPT !.state = a.state, !.host = FALSE, !.cluster = None ]
                     ELSE [ r EXCEPT !.state = a.state ]
      BY <2>4 DEF Acked
    <3>2. r.state = "Deleting" /\ a.state \in { "Deleting", "Speculative" } /\ r.host
      BY <1>1, <2>0, <2>4, OpTable DEF Invariant
    <3>3. CASE a.state = "Speculative"
      <4>1. Acked(w).state = "Speculative" /\ ~Acked(w).host /\ Acked(w).cluster = None
        BY <1>1, <3>1, <3>3 DEF InvRecord
      <4> QED
        BY <1>1, <1>3, <3>2, <4>1, Transitions DEF Accepted, Invariant
    <3>4. CASE a.state = "Deleting"
      <4>1. Acked(w).state = "Deleting" /\ Acked(w).host
        BY <1>1, <3>1, <3>2, <3>4 DEF InvRecord
      <4> QED
        BY <1>1, <1>3, <3>2, <4>1 DEF Accepted, Invariant
    <3> QED
      BY <3>2, <3>3, <3>4
  <2> QED
    BY <1>1, <2>1, <2>2, <2>3, <2>4 DEF Ops
<1> QED
  BY <1>2, <1>3

\* Whatever the provider does and however reconcile is configured, the
\* transition an executor commits after its provider call is accepted while the
\* machine is in the inventory: the errProvisionRacedToIdle branch is dead.
THEOREM CommitsAreAccepted == Spec => []CommitAccepted
BY TypeCorrect, InFlightInvariant, InFlightCommits, PTL

-----------------------------------------------------------------------------
(* Who writes a driven machine's record. *)

\* In an executor step that changes the inventory the worker moves on.
LEMMA WriterMoves ==
  ASSUME TypeOK, NEW w \in Workers, WorkerStep(w), inv' # inv
  PROVE  /\ w \in Busy
         /\ worker'[w] # worker[w]
         /\ \E r : inv' = Written(Target(w), r)
<1>1. ExecuteStep(w) /\ ~Finish(w)
  BY DEF WorkerStep, Take, Finish
<1>2. w \in Busy
  BY <1>1, ExecutorFrame DEF Busy
<1>3. worker[w] \in WorkerRecord /\ worker \in [ Workers -> WorkerRecord ]
  BY DEF TypeOK
<1>4. ASSUME NEW pc \in WorkerPCs, Goto(w, pc)
      PROVE  worker'[w].pc = pc
  BY <1>3, <1>4 DEF Goto, WorkerRecord
<1>5. ASSUME NEW start, NEW r, NEW op \in Ops, NEW pc \in WorkerPCs, Open(w, start, r, op, pc)
      PROVE  worker'[w].pc = pc /\ \E q : inv' = Written(Target(w), q)
  <2>1. inv' = Written(Target(w), r) /\ worker' = [ worker EXCEPT ![w].pc = pc, ![w].op = op ]
    BY <1>5 DEF Open
  <2> QED
    BY <1>3, <2>1 DEF WorkerRecord
<1>6. CASE executeProvision(w) \/ executeBootstrap(w) \/ executeDrain(w) \/ executeDelete(w)
  <2>1. worker[w].pc \in { "begin", "bootstrap" }
    BY <1>6 DEF executeProvision, executeBootstrap, executeDrain, executeDelete
  <2>2. worker'[w].pc \in { "blob", "call" } /\ \E q : inv' = Written(Target(w), q)
    BY <1>5, <1>6 DEF executeProvision, executeBootstrap, executeDrain, executeDelete,
                      Ops, WorkerPCs
  <2> QED
    BY <1>2, <2>1, <2>2
<1>7. CASE \/ BlobUnavailable(w) \/ CommitFailure(w)
           \/ \E why \in { "operator", "session" } : BlobRefused(w, why)
  <2>1. worker[w].pc \in { "blob", "err" } /\ Goto(w, "finish")
    BY <1>7 DEF BlobUnavailable, CommitFailure, BlobRefused
  <2>2. \E q : inv' = Written(Target(w), q)
    BY <1>7 DEF BlobUnavailable, CommitFailure, BlobRefused
  <2> QED
    BY <1>2, <1>4, <2>1, <2>2 DEF WorkerPCs
<1>8. CASE CommitAck(w)
  <2>1. worker[w].pc = "ack" /\ \E q : inv' = Written(Target(w), q)
    BY <1>8 DEF CommitAck
  <2>2. PICK pc \in { "bootstrap", "finish" } :
          worker' = [ worker EXCEPT ![w].ack = NoListing, ![w].pc = pc ]
    BY <1>8 DEF CommitAck
  <2>3. worker'[w].pc = pc
    BY <1>3, <2>2 DEF WorkerRecord
  <2> QED
    BY <1>2, <2>1, <2>3
<1> QED
  BY <1>1, <1>6, <1>7, <1>8 DEF ExecuteStep, BlobArrives, CallServed, CallRefused, AnswerLost

\* While a worker drives a machine, nobody else changes its record: another
\* worker has another machine, reconcile skips a pending one, and what the full
\* mode or a restart takes away is absent afterwards.
THEOREM DriverWritesAlone == Spec => OnlyDriverWrites
<1> DEFINE A == \A w \in Workers :
                  w \in Busy /\ inv'[Target(w)] # inv[Target(w)] =>
                    worker'[w] # worker[w] \/ inv'[Target(w)].state = "Absent"
<1>1. ASSUME TypeOK, LedgerExact, [Next]_vars
      PROVE  A
  <2> SUFFICES ASSUME NEW w \in Busy, inv'[Target(w)] # inv[Target(w)]
               PROVE  worker'[w] # worker[w] \/ inv'[Target(w)].state = "Absent"
    BY DEF A
  <2>1. /\ Target(w) \in Machines /\ Target(w) \in pending
        /\ inv \in [ Machines -> InvRecord ]
    BY <1>1, BusyTypes DEF Busy, LedgerExact, Driven, Target, TypeOK, InvTypeOK
  <2>2. ASSUME NEW v \in Workers, WorkerStep(v)
        PROVE  worker'[w] # worker[w]
    <3>1. /\ v \in Busy /\ worker'[v] # worker[v]
          /\ \E r : inv' = Written(Target(v), r)
      BY <1>1, <2>2, WriterMoves
    <3>2. Target(v) = Target(w)
      BY <2>1, <3>1 DEF Written
    <3>3. v = w
      BY <1>1, <3>1, <3>2 DEF LedgerExact, Target
    <3> QED
      BY <3>1, <3>3
  <2>3. ASSUME NEW m \in Machines, ApplyReconciledMachine(m)
        PROVE  FALSE
    <3>1. m \notin pending /\ inv' = Written(m, Ingested(m, listed[m]))
      BY <2>3 DEF ApplyReconciledMachine, Reconciled
    <3> QED
      BY <2>1, <3>1 DEF Written
  <2>4. CASE ReconcileDone
    BY <2>1, <2>4 DEF ReconcileDone, Pruned, NoRecord
  <2>5. CASE Restart
    BY <2>1, <2>5 DEF Restart, Fresh, NoRecord
  <2>6. inv' # inv
    OBVIOUS
  <2> QED
    BY <1>1, <2>2, <2>3, <2>4, <2>5, <2>6
       DEF Next, CycleStep, Environment, ListProvider, ListFails, Decide, CheckApplicable,
           Enqueue, EndCycle, SessionChange, ProviderCompletes, ProviderFails, ProviderLoses, vars
<1>2. Spec => [][A]_vars
  BY <1>1, TypeCorrect, LedgerIsExact, PTL DEF Spec
<1> QED
  BY <1>2 DEF OnlyDriverWrites, A

-----------------------------------------------------------------------------
(***************************************************************************)
(* What the shard believes of a machine's binding, against what the        *)
(* provider has: DeleteOnlyUnbound and BindingExact.  Both hold for a      *)
(* provider that completes Configure before it answers; with a staged      *)
(* Configure a List from before the call, merged after the worker has      *)
(* finished, undoes it.                                                    *)
(*                                                                         *)
(* The invariant follows a record on its way: at the provider, in a List   *)
(* that is not merged yet, in the inventory and in a worker's hands.       *)
(***************************************************************************)
\* A provider that completes Configure before it answers.
SyncConfigure == "Configure" \notin StagedOps

\* The states in which a machine is known and bound to no cluster.
Free == { "Speculative", "Creating", "Idle", "Deleting" }

\* What is left of a bound machine that no drain was called for.
BoundOrLost == { "Configured", "Failed", "Absent" }

Held == { "blob", "call", "ack", "err" }

Drains == { "Preempt", "Reclaim" }

\* The provider's own records.
ProviderBinding ==
  \A m \in Machines :
    /\ prov[m].state # "Configuring"
    /\ prov[m].state \in Free \cup { "Absent" } => prov[m].cluster = None
    /\ prov[m].state = "Configured" => prov[m].cluster # None

\* What the shard's record of m says of the provider's.
ShownBinding(m) ==
  /\ inv[m].state \in Free => prov[m].cluster = None
  /\ inv[m].state = "Configured" =>
       /\ prov[m].state \in BoundOrLost
       /\ prov[m].state = "Configured" =>
            /\ inv[m].cluster = prov[m].cluster
            /\ inv[m].need = prov[m].meta
            /\ inv[m].prot = prov[m].meta
  /\ inv[m].state = "Configuring" =>
       \E w \in Busy : Target(w) = m /\ worker[w].pc \in Held

\* A drain of m was accepted and not yet begun.
DrainWaits(m) ==
  \/ \E i \in DOMAIN queue : queue[i].m = m /\ queue[i].kind \in Drains
  \/ \E w \in Busy : Target(w) = m /\ worker[w].pc = "begin" /\ worker[w].act.kind \in Drains

\* A listed record not yet merged, as old as it may be: where reconcile would
\* still store it, it is right about the binding.
ListedBinding(m) ==
  /\ listed[m].state # "Absent" => cycle = "apply"
  /\ listed[m].state # "Configuring"
  /\ listed[m].state \in Free =>
       /\ inv[m].state \in { "Absent", "Draining" } => prov[m].cluster = None
       /\ inv[m].state = "Configured" => ~DrainWaits(m)
  /\ listed[m].state = "Configured" /\ inv[m].state = "Absent" =>
       /\ prov[m].state \in BoundOrLost
       /\ prov[m].state = "Configured" =>
            prov[m].cluster = listed[m].cluster /\ prov[m].meta = listed[m].meta
  /\ cycle = "apply" /\ ~Incremental /\ m \notin seen => prov[m].state = "Absent"

\* What worker w can rely on while it holds its machine.
WorkerBinding(w) ==
  /\ worker[w].pc \in Held /\ Record(w).state = "Absent" => prov[Target(w)].state = "Absent"
  /\ worker[w].pc \in { "blob", "call" } /\ worker[w].op = "Configure" =>
       prov[Target(w)].cluster = None
  /\ worker[w].pc = "ack" /\ worker[w].op = "Drain" /\ worker[w].ack.state = "Idle" =>
       prov[Target(w)].cluster = None
  /\ worker[w].pc = "ack" /\ worker[w].op = "Configure" =>
       /\ worker[w].ack.state = "Configured"
       /\ prov[Target(w)].state \in BoundOrLost
       /\ prov[Target(w)].state = "Configured" =>
            /\ prov[Target(w)].cluster = worker[w].act.cluster
            /\ prov[Target(w)].meta = worker[w].act.need

BindingInv ==
  /\ ProviderBinding
  /\ \A m \in Machines : ShownBinding(m) /\ ListedBinding(m)
  /\ \A w \in Busy : WorkerBinding(w)

-----------------------------------------------------------------------------
(* The transition table and the provider's answers. *)

\* Which states lead out of a binding and into one.
LEMMA Exits ==
  ASSUME NEW s \in States, NEW t \in States, CanTransition(s, t)
  PROVE  /\ t \in Free => s \in Free \cup { "Configuring", "Draining" }
         /\ t = "Configured" => s = "Configuring"
<1>1. ASSUME t # "Failed" PROVE t \in validTransitions[s]
  BY <1>1 DEF CanTransition
<1> QED
  BY <1>1 DEF validTransitions, States, Free

\* The rollback of a bootstrap is a transition of the table.
LEMMA RollbackAllowed == CanTransition("Configuring", "Idle")
<1>1. "Idle" \in validTransitions["Configuring"]
  BY DEF validTransitions, States
<1> QED
  BY <1>1 DEF CanTransition

\* What an operation does to the binding of a record it is allowed on.
LEMMA EffectOnBinding ==
  ASSUME NEW p \in ProvRecord, NEW op \in Ops, NEW c, NEW n, NEW st
  PROVE  LET q == PostEffect(p, op, st, c, n)
         IN  /\ q.state = st
             /\ op = "Configure" => q.cluster = c /\ q.meta = n
             /\ op # "Configure" => q.cluster \in { p.cluster, None }
             /\ op = "Drain" /\ st = "Idle" => q.cluster = None
BY DEF PostEffect, ProvRecord

\* A call that is served finds the machine where its worker put it, keeps the
\* provider's records sound, and binds the machine only as it was asked to.
LEMMA ServeBinding ==
  ASSUME SyncConfigure, TypeOK, InFlightInv, BindingInv,
         NEW w \in Busy, worker[w].pc = "call", Serving(w),
         NEW m \in Machines, m = Target(w)
  PROVE  /\ inv[m].state = TransitionalOf(worker[w].op)
         /\ prov[m].state # "Absent"
         /\ \A x \in Machines \ { m } : prov'[x] = prov[x]
         /\ ProviderBinding'
         /\ worker[w].op # "Configure" => prov'[m].cluster \in { prov[m].cluster, None }
         /\ worker[w].op = "Configure" =>
              /\ prov'[m].state = "Configured"
              /\ prov'[m].cluster = worker[w].act.cluster
              /\ prov'[m].meta = worker[w].act.need
<1> DEFINE op == worker[w].op
           act == worker[w].act
           q == Answer(m, op, act.cluster, act.need)
<1>1. /\ op \in Ops /\ act \in Action /\ InFlight(w) /\ WorkerBinding(w)
      /\ prov \in [ Machines -> ProvRecord ] /\ prov[m] \in ProvRecord
  BY BusyTypes DEF Busy, InFlightInv, BindingInv, TypeOK, ProvTypeOK
<1>2. /\ prov[m].state # "Absent" /\ prov[m].state \in States
      /\ prov' = [ prov EXCEPT ![m] = q ]
      /\ Cached(m, op) \/ CanTransition(prov[m].state, TransitionalOf(op))
  BY <1>1 DEF Serving, Serve, Accepts, ProvRecord
<1>3. inv[m].state = TransitionalOf(op)
  BY <1>1, <1>2 DEF InFlight, WorkerBinding, Record, Held
<1>4. prov'[m] = q /\ \A x \in Machines \ { m } : prov'[x] = prov[x]
  BY <1>1, <1>2
<1>5. ASSUME q.state # "Configuring",
             q.state \in Free \cup { "Absent" } => q.cluster = None,
             q.state = "Configured" => q.cluster # None
      PROVE  ProviderBinding'
  BY <1>4, <1>5 DEF BindingInv, ProviderBinding
<1>6. /\ prov[m].state # "Configuring"
      /\ prov[m].state \in Free \cup { "Absent" } => prov[m].cluster = None
      /\ prov[m].state = "Configured" => prov[m].cluster # None
  BY DEF BindingInv, ProviderBinding
<1>7. CASE Cached(m, op)
  <2>1. q = prov[m]
    BY <1>7 DEF Answer
  <2>2. op # "Configure"
    <3> SUFFICES ASSUME op = "Configure" PROVE FALSE
      OBVIOUS
    <3>1. prov[m].state \in { "Configuring", "Configured" }
      BY <1>1, <1>7, OpTable DEF Cached
    <3>2. prov[m].cluster = None
      BY <1>1 DEF WorkerBinding
    <3> QED
      BY <1>6, <3>1, <3>2
  <2>3. ProviderBinding'
    BY <1>5, <1>6, <2>1
  <2> QED
    BY <1>2, <1>3, <1>4, <2>1, <2>2, <2>3
<1>8. CASE ~Cached(m, op)
  <2> DEFINE st == IF op \in StagedOps THEN TransitionalOf(op) ELSE StableOf(op)
  <2>1. q = PostEffect(prov[m], op, st, act.cluster, act.need)
    BY <1>8 DEF Answer
  <2>2. /\ q.state = st
        /\ op = "Configure" => q.cluster = act.cluster /\ q.meta = act.need
        /\ op # "Configure" => q.cluster \in { prov[m].cluster, None }
        /\ op = "Drain" /\ st = "Idle" => q.cluster = None
    BY <1>1, <2>1, EffectOnBinding
  <2>3. CanTransition(prov[m].state, TransitionalOf(op))
    BY <1>2, <1>8
  <2>4. st \in { TransitionalOf(op), StableOf(op) }
    OBVIOUS
  <2>5. op = "Configure" => st = "Configured"
    BY <1>1, OpTable DEF SyncConfigure
  <2> HIDE DEF st, q
  <2>6. CASE op = "Configure"
    <3>1. act.cluster # None
      BY <1>1, <2>6, NoneAssumption DEF InFlight, Action
    <3>2. ProviderBinding'
      BY <1>5, <2>2, <2>5, <2>6, <3>1 DEF Free
    <3> QED
      BY <1>2, <1>3, <1>4, <2>2, <2>5, <2>6, <3>2
  <2>7. CASE op \in { "Create", "Delete" }
    <3>1. prov[m].state \in Free
      BY <1>1, <1>2, <2>3, <2>7, OpTable, Entries DEF Free
    <3>2. st \in Free
      BY <1>1, <2>4, <2>7, OpTable DEF Free
    <3>3. ProviderBinding'
      BY <1>5, <1>6, <2>2, <2>7, <3>1, <3>2 DEF Free
    <3> QED
      BY <1>2, <1>3, <1>4, <2>2, <2>7, <3>3
  <2>8. CASE op = "Drain"
    <3>1. st \in { "Draining", "Idle" }
      BY <1>1, <2>4, <2>8, OpTable
    <3>2. ProviderBinding'
      BY <1>5, <2>2, <2>8, <3>1 DEF Free
    <3> QED
      BY <1>2, <1>3, <1>4, <2>2, <2>8, <3>2
  <2> QED
    BY <1>1, <2>6, <2>7, <2>8 DEF Ops
<1> QED
  BY <1>7, <1>8

-----------------------------------------------------------------------------
(* One worker's step. *)

\* A worker that holds a machine is the only one that does, and no drain of
\* that machine waits once the worker is past its first step.
LEMMA Holder ==
  ASSUME TypeOK, LedgerExact, NEW w \in Busy, NEW m \in Machines, m = Target(w)
  PROVE  /\ \A v \in Busy : Target(v) = m => v = w
         /\ \A i \in DOMAIN queue : queue[i].m # m
         /\ m \in pending
<1>1. m \in Driven
  BY DEF Driven, Target
<1> QED
  BY <1>1 DEF LedgerExact, Queued, Target

\* A step of worker w past "begin", on its own machine m alone, keeps the
\* invariant if it keeps what concerns w and m.
LEMMA OwnBinding ==
  ASSUME TypeOK, LedgerExact, BindingInv,
         NEW w \in Busy, NEW m \in Machines, m = Target(w),
         NEW x, x.act = worker[w].act, x.pc \notin { "idle", "begin" },
         worker' = [ worker EXCEPT ![w] = x ],
         UNCHANGED << cycle, listed, seen, queue >>,
         \A y \in Machines \ { m } : inv'[y] = inv[y] /\ prov'[y] = prov[y],
         ProviderBinding', ShownBinding(m)', WorkerBinding(w)',
         listed[m].state \in Free /\ inv'[m].state \in { "Absent", "Draining" } =>
           prov'[m].cluster = None,
         inv'[m].state = "Absent" => inv[m] = inv'[m] /\ prov'[m] = prov[m],
         prov[m].state = "Absent" => prov'[m].state = "Absent"
  PROVE  BindingInv'
<1>1. w \in Workers /\ worker \in [ Workers -> WorkerRecord ]
  BY DEF Busy, TypeOK
<1>2. /\ worker'[w] = x /\ \A v \in Workers \ { w } : worker'[v] = worker[v]
      /\ Busy' = Busy
  <2>1. worker'[w] = x /\ \A v \in Workers \ { w } : worker'[v] = worker[v]
    BY <1>1
  <2> QED
    BY <1>1, <2>1 DEF Busy
<1>3. /\ \A v \in Busy : Target(v) = m => v = w
      /\ \A i \in DOMAIN queue : queue[i].m # m
  BY Holder
<1>4. \A v \in Busy : Target(v)' = Target(v)
  <2> SUFFICES ASSUME NEW v \in Busy PROVE worker'[v].act = worker[v].act
    BY DEF Target
  <2>1. CASE v = w
    BY <1>2, <2>1
  <2>2. CASE v # w
    BY <1>2, <2>2 DEF Busy
  <2> QED
    BY <2>1, <2>2
<1>5. ASSUME NEW v \in Busy', v # w
      PROVE  WorkerBinding(v)'
  <2>1. v \in Busy /\ worker'[v] = worker[v] /\ Target(v) # m /\ Target(v) \in Machines
    BY <1>2, <1>3, <1>5, BusyTypes DEF Busy
  <2>2. inv'[Target(v)] = inv[Target(v)] /\ prov'[Target(v)] = prov[Target(v)]
    BY <2>1
  <2>3. Target(v)' = Target(v) /\ WorkerBinding(v)
    BY <1>4, <2>1 DEF BindingInv
  <2>4. Record(v)' = Record(v) /\ prov'[Target(v)'] = prov[Target(v)]
    BY <2>2, <2>3 DEF Record
  <2> QED
    BY <2>1, <2>3, <2>4 DEF WorkerBinding
<1>6. ASSUME NEW y \in Machines, y # m
      PROVE  ShownBinding(y)' /\ ListedBinding(y)'
  <2>1. /\ inv'[y] = inv[y] /\ prov'[y] = prov[y] /\ ShownBinding(y) /\ ListedBinding(y)
    BY <1>6 DEF BindingInv
  <2>2. \A v \in Busy : Target(v) = y => worker'[v] = worker[v]
    BY <1>2, <1>6 DEF Busy
  <2>3. ShownBinding(y)'
    BY <1>2, <1>4, <2>1, <2>2 DEF ShownBinding
  <2>4. DrainWaits(y)' => DrainWaits(y)
    BY <1>2, <1>4, <2>2 DEF DrainWaits
  <2>5. ListedBinding(y)'
    BY <2>1, <2>4 DEF ListedBinding
  <2> QED
    BY <2>3, <2>5
<1>7. ListedBinding(m)'
  <2>1. ~DrainWaits(m)'
    BY <1>2, <1>3, <1>4 DEF DrainWaits
  <2>2. ListedBinding(m)
    BY DEF BindingInv
  <2> QED
    BY <2>1, <2>2 DEF ListedBinding
<1> QED
  BY <1>2, <1>5, <1>6, <1>7 DEF BindingInv

\* What a busy worker and its machine satisfy, in one place.
LEMMA BusyFacts ==
  ASSUME TypeOK, InFlightInv, BindingInv, NEW w \in Busy, NEW m \in Machines, m = Target(w)
  PROVE  /\ w \in Workers /\ worker[w] \in WorkerRecord /\ worker[w].op \in Ops
         /\ worker \in [ Workers -> WorkerRecord ] /\ worker[w].act \in Action
         /\ inv \in [ Machines -> InvRecord ] /\ inv[m] \in InvRecord /\ Record(w) = inv[m]
         /\ InFlight(w) /\ WorkerBinding(w) /\ ShownBinding(m) /\ ListedBinding(m)
         /\ ProviderBinding
         /\ inv[m].state # "Absent" =>
              Invariant(inv[m].state, inv[m].host, inv[m].cluster, inv[m].lastError)
BY BusyTypes DEF Busy, TypeOK, InvTypeOK, InFlightInv, BindingInv, Record

\* A worker that neither holds its machine nor has just begun finds it in no
\* half-configured state.
LEMMA NotConfiguring ==
  ASSUME TypeOK, LedgerExact, InFlightInv, BindingInv,
         NEW w \in Busy, NEW m \in Machines, m = Target(w), worker[w].pc \notin Held
  PROVE  inv[m].state # "Configuring"
BY Holder, BusyFacts DEF ShownBinding

\* An executor returns without a write, its machine not half configured.
LEMMA ReturnBinding ==
  ASSUME TypeOK, LedgerExact, InFlightInv, BindingInv,
         NEW w \in Busy, Goto(w, "finish"), UNCHANGED << inv, prov >>,
         UNCHANGED << cycle, listed, seen, queue >>,
         Record(w).state # "Configuring"
  PROVE  BindingInv'
<1>1. PICK m \in Machines : m = Target(w)
  BY BusyTypes DEF Busy
<1> DEFINE x == [ worker[w] EXCEPT !.pc = "finish" ]
<1>2. x.pc = "finish" /\ x.act = worker[w].act /\ worker' = [ worker EXCEPT ![w] = x ]
  BY <1>1, BusyFacts DEF Goto, WorkerRecord
<1> HIDE DEF x
<1>3. worker'[w] = x
  BY <1>1, <1>2, BusyFacts
<1>4. WorkerBinding(w)'
  BY <1>2, <1>3 DEF WorkerBinding, Held
<1>5. ShownBinding(m)'
  BY <1>1, BusyFacts DEF ShownBinding
<1>6. ProviderBinding'
  BY <1>1, BusyFacts DEF ProviderBinding
<1>7. listed[m].state \in Free /\ inv'[m].state \in { "Absent", "Draining" } =>
        prov'[m].cluster = None
  BY <1>1, BusyFacts DEF ListedBinding
<1> QED
  BY <1>1, <1>2, <1>4, <1>5, <1>6, <1>7, OwnBinding

\* The write of record r by worker w on its way to pc.
LEMMA WriteBinding ==
  ASSUME TypeOK, LedgerExact, InFlightInv, BindingInv,
         NEW w \in Busy, NEW m \in Machines, m = Target(w),
         NEW x, x.act = worker[w].act, x.pc \notin { "idle", "begin" },
         worker' = [ worker EXCEPT ![w] = x ], Local,
         NEW r \in InvRecord, r.state # "Absent", inv' = [ inv EXCEPT ![m] = r ],
         r.state \in Free => prov[m].cluster = None,
         r.state = "Configured" =>
           /\ prov[m].state \in BoundOrLost
           /\ prov[m].state = "Configured" =>
                r.cluster = prov[m].cluster /\ r.need = prov[m].meta /\ r.prot = prov[m].meta,
         r.state = "Configuring" => x.pc \in Held,
         r.state = "Draining" => listed[m].state \notin Free,
         x.pc \in { "blob", "call" } /\ x.op = "Configure" => prov[m].cluster = None,
         x.pc # "ack"
  PROVE  BindingInv'
<1>1. /\ worker'[w] = x /\ w \in Busy' /\ Target(w)' = m
      /\ inv'[m] = r /\ prov' = prov
      /\ \A y \in Machines \ { m } : inv'[y] = inv[y]
  BY BusyFacts DEF Busy, Target, Local
<1>2. WorkerBinding(w)'
  BY <1>1 DEF WorkerBinding, Record
<1>3. ShownBinding(m)'
  BY <1>1 DEF ShownBinding
<1>4. ProviderBinding'
  BY <1>1 DEF BindingInv, ProviderBinding
<1> QED
  BY <1>1, <1>2, <1>3, <1>4, OwnBinding DEF Local

\* The opening of an executor.
LEMMA OpenBinding ==
  ASSUME TypeOK, LedgerExact, InFlightInv, BindingInv,
         NEW w \in Busy, worker[w].pc \in { "begin", "bootstrap" },
         NEW start \in States, NEW r \in InvRecord, NEW op \in Ops, NEW pc \in { "blob", "call" },
         Open(w, start, r, op, pc), r.state = TransitionalOf(op),
         op \in { "Create", "Configure", "Delete" } => start \in Free,
         op = "Drain" => /\ start = "Configured"
                         /\ worker[w].pc = "begin" /\ worker[w].act.kind \in Drains
  PROVE  BindingInv'
<1>1. PICK m \in Machines : m = Target(w)
  BY BusyTypes DEF Busy
<1>2. inv[m].state # "Configuring"
  BY <1>1, NotConfiguring DEF Held
<1>3. CASE Record(w).state = start /\ Accepted(Target(w), r)
  <2> DEFINE x == [ worker[w] EXCEPT !.pc = pc, !.op = op ]
  <2>1. /\ x.pc = pc /\ x.op = op /\ x.act = worker[w].act
        /\ worker' = [ worker EXCEPT ![w] = x ]
        /\ inv' = [ inv EXCEPT ![m] = r ] /\ inv[m].state = start /\ Local
    BY <1>1, <1>3, BusyFacts DEF Open, Written, WorkerRecord
  <2> HIDE DEF x
  <2>2. op # "Drain" => prov[m].cluster = None
    BY <1>1, <2>1, BusyFacts DEF ShownBinding, Ops
  <2>3. op = "Drain" => listed[m].state \notin Free
    <3>1. op = "Drain" => DrainWaits(m)
      BY <1>1 DEF DrainWaits
    <3> QED
      BY <1>1, <2>1, <3>1, BusyFacts DEF ListedBinding
  <2>4. /\ r.state \notin { "Absent", "Configured" }
        /\ r.state \in Free => op # "Drain"
        /\ r.state = "Draining" => op = "Drain"
    BY OpTable DEF Free
  <2> QED
    BY <1>1, <2>1, <2>2, <2>3, <2>4, WriteBinding DEF Held
<1>4. CASE ~(Record(w).state = start /\ Accepted(Target(w), r))
  <2>1. /\ Goto(w, "finish") /\ UNCHANGED << inv, prov >>
        /\ UNCHANGED << cycle, listed, seen, queue >>
    BY <1>4 DEF Open, Local
  <2> QED
    BY <1>1, <1>2, <2>1, ReturnBinding DEF Record
<1> QED
  BY <1>3, <1>4

\* The two ways a wait or a call ends in Failed, and the rollback to Idle.
LEMMA GiveUpBinding ==
  ASSUME TypeOK, LedgerExact, InFlightInv, BindingInv,
         NEW w \in Busy, worker[w].pc \in { "blob", "err" },
         NEW r \in InvRecord,
         \/ r.state = "Failed" /\ r.lastError # None
         \/ r = RolledBack(w) /\ worker[w].pc = "blob",
         inv' = Written(Target(w), r), Goto(w, "finish"), Local
  PROVE  BindingInv'
<1>1. PICK m \in Machines : m = Target(w)
  BY BusyTypes DEF Busy
<1> DEFINE x == [ worker[w] EXCEPT !.pc = "finish" ]
<1>2. x.pc = "finish" /\ x.act = worker[w].act /\ worker' = [ worker EXCEPT ![w] = x ]
  BY <1>1, BusyFacts DEF Goto, WorkerRecord
<1> HIDE DEF x
<1>3. inv[m].state \in { "Absent", TransitionalOf(worker[w].op) }
  BY <1>1, BusyFacts DEF InFlight
<1>4. r = RolledBack(w) => r.state = "Idle" /\ r.host = inv[m].host /\ r.cluster = None
  BY <1>1, BusyFacts DEF RolledBack, InvRecord
<1>5. CASE Accepted(m, r)
  <2>1. inv' = [ inv EXCEPT ![m] = r ]
    BY <1>1, <1>5 DEF Written
  <2>2. r.state \in Free => prov[m].cluster = None
    <3>1. r.state \in Free => worker[w].pc = "blob"
      BY DEF Free
    <3>2. worker[w].pc = "blob" => worker[w].op = "Configure"
      BY <1>1, BusyFacts DEF InFlight
    <3> QED
      BY <1>1, <3>1, <3>2, BusyFacts DEF WorkerBinding
  <2> QED
    BY <1>1, <1>2, <1>4, <2>1, <2>2, WriteBinding
<1>6. CASE ~Accepted(m, r)
  <2>1. inv' = inv
    BY <1>1, <1>6 DEF Written
  <2>2. inv[m].state # "Configuring"
    <3> SUFFICES ASSUME inv[m].state = "Configuring" PROVE Accepted(m, r)
      BY <1>6
    <3>1. CanTransition("Configuring", r.state)
      BY <1>4, RollbackAllowed, Transitions DEF Transitional
    <3>2. inv[m].host
      BY <1>1, BusyFacts DEF Invariant
    <3> QED
      BY <1>4, <3>1, <3>2 DEF Accepted, Invariant
  <2> QED
    BY <1>1, <2>1, <2>2, ReturnBinding DEF Local, Record
<1> QED
  BY <1>5, <1>6

\* A call that is served: the binding appears where the worker asked for it.
LEMMA CallBinding ==
  ASSUME SyncConfigure, TypeOK, LedgerExact, InFlightInv, BindingInv,
         NEW w \in Busy, CallServed(w) \/ AnswerLost(w)
  PROVE  BindingInv'
<1>1. PICK m \in Machines : m = Target(w)
  BY BusyTypes DEF Busy
<1> DEFINE op == worker[w].op
<1>2. worker[w].pc = "call" /\ Serving(w) /\ inv' = inv
  BY DEF CallServed, AnswerLost
<1>3. /\ inv[m].state = TransitionalOf(op)
      /\ prov[m].state # "Absent"
      /\ \A y \in Machines \ { m } : prov'[y] = prov[y]
      /\ ProviderBinding'
      /\ op # "Configure" => prov'[m].cluster \in { prov[m].cluster, None }
      /\ op = "Configure" =>
           /\ prov'[m].state = "Configured"
           /\ prov'[m].cluster = worker[w].act.cluster
           /\ prov'[m].meta = worker[w].act.need
  BY <1>1, <1>2, ServeBinding
<1>4. PICK x : /\ worker' = [ worker EXCEPT ![w] = x ]
               /\ x.act = worker[w].act /\ x.op = op
               /\ x.pc \in { "ack", "err" }
               /\ x.pc = "ack" => x.ack = prov'[m]
  <2>1. CASE CallServed(w)
    <3> DEFINE x == [ worker[w] EXCEPT !.pc = "ack", !.ack = prov'[Target(w)] ]
    <3>1. worker' = [ worker EXCEPT ![w] = x ]
      BY <2>1 DEF CallServed
    <3>2. x.act = worker[w].act /\ x.op = op /\ x.pc = "ack" /\ x.ack = prov'[m]
      BY <1>1, BusyFacts DEF WorkerRecord
    <3> HIDE DEF x
    <3> QED
      BY <3>1, <3>2
  <2>2. CASE AnswerLost(w)
    <3> DEFINE x == [ worker[w] EXCEPT !.pc = "err" ]
    <3>1. worker' = [ worker EXCEPT ![w] = x ]
      BY <2>2 DEF AnswerLost, Goto
    <3>2. x.act = worker[w].act /\ x.op = op /\ x.pc = "err"
      BY <1>1, BusyFacts DEF WorkerRecord
    <3> HIDE DEF x
    <3> QED
      BY <3>1, <3>2
  <2> QED
    BY <2>1, <2>2
<1>5. op \in Ops /\ ShownBinding(m) /\ ListedBinding(m)
  BY <1>1, BusyFacts
<1>6. worker'[w] = x /\ w \in Busy' /\ Target(w)' = m
  BY <1>1, <1>4, BusyFacts DEF Target, Busy
<1>7. WorkerBinding(w)'
  <2>1. op = "Drain" /\ prov'[m].state = "Idle" => prov'[m].cluster = None
    BY <1>1, <1>3 DEF ProviderBinding, Free
  <2>2. inv[m].state # "Absent"
    BY <1>3, <1>5, OpTable
  <2> QED
    BY <1>2, <1>3, <1>4, <1>6, <2>1, <2>2 DEF WorkerBinding, Record, BoundOrLost
<1>8. ShownBinding(m)'
  <2>1. inv[m].state \in Free => op # "Configure" /\ prov[m].cluster = None
    BY <1>3, <1>5, OpTable DEF Free, ShownBinding
  <2>2. inv[m].state # "Configured"
    BY <1>3, <1>5, OpTable
  <2> QED
    BY <1>2, <1>3, <1>4, <1>6, <2>1, <2>2 DEF ShownBinding, Held
<1>9. listed[m].state \in Free /\ inv'[m].state \in { "Absent", "Draining" } =>
        prov'[m].cluster = None
  <2>1. inv[m].state = "Draining" => op = "Drain"
    BY <1>3, <1>5, OpTable
  <2>2. inv[m].state # "Absent"
    BY <1>3, <1>5, OpTable
  <2> QED
    BY <1>2, <1>3, <1>5, <2>1, <2>2 DEF ListedBinding
<1>10. inv'[m].state # "Absent"
  BY <1>2, <1>3, <1>5, OpTable
<1> QED
  BY <1>1, <1>2, <1>3, <1>4, <1>7, <1>8, <1>9, <1>10, OwnBinding DEF CallServed, AnswerLost

\* A blob that arrives and a call that is refused: the worker goes on holding
\* the machine.
LEMMA WaitBinding ==
  ASSUME TypeOK, LedgerExact, InFlightInv, BindingInv,
         NEW w \in Busy, BlobArrives(w) \/ CallRefused(w)
  PROVE  BindingInv'
<1>1. PICK m \in Machines : m = Target(w)
  BY BusyTypes DEF Busy
<1>2. PICK pc \in { "call", "err" } :
        /\ Goto(w, pc)
        /\ worker[w].pc = IF pc = "call" THEN "blob" ELSE "call"
  BY DEF BlobArrives, CallRefused
<1> DEFINE x == [ worker[w] EXCEPT !.pc = pc ]
<1>3. /\ x.pc = pc /\ x.act = worker[w].act /\ x.op = worker[w].op
      /\ worker' = [ worker EXCEPT ![w] = x ]
  BY <1>1, <1>2, BusyFacts DEF Goto, WorkerRecord
<1> HIDE DEF x
<1>4. UNCHANGED << inv, prov, cycle, listed, seen, queue >>
  BY DEF BlobArrives, CallRefused, Local
<1>5. worker'[w] = x /\ w \in Busy' /\ Target(w)' = m
  BY <1>1, <1>3, BusyFacts DEF Target, Busy
<1>6. WorkerBinding(w)'
  BY <1>1, <1>2, <1>3, <1>4, <1>5, BusyFacts DEF WorkerBinding, Record, Held
<1>7. ShownBinding(m)'
  BY <1>1, <1>3, <1>4, <1>5, BusyFacts DEF ShownBinding, Held
<1>8. ProviderBinding'
  BY <1>1, <1>4, BusyFacts DEF ProviderBinding
<1>9. listed[m].state \in Free /\ inv'[m].state \in { "Absent", "Draining" } =>
        prov'[m].cluster = None
  BY <1>1, <1>4, BusyFacts DEF ListedBinding
<1> QED
  BY <1>1, <1>3, <1>4, <1>6, <1>7, <1>8, <1>9, OwnBinding

\* The state and the binding an executor writes for its ack.
LEMMA AckedBinding ==
  ASSUME TypeOK, InFlightInv, BindingInv, NEW w \in Busy, worker[w].pc = "ack", WritesAck(w),
         NEW m \in Machines, m = Target(w)
  PROVE  LET r == Acked(w)
         IN  /\ r.state \in Free \cup { "Configured" }
             /\ r.state \in Free => prov[m].cluster = None
             /\ r.state = "Configured" =>
                  /\ prov[m].state \in BoundOrLost
                  /\ prov[m].state = "Configured" =>
                       r.cluster = prov[m].cluster /\ r.need = prov[m].meta /\ r.prot = prov[m].meta
<1> DEFINE op == worker[w].op
           a == worker[w].ack
           act == worker[w].act
<1>1. /\ op \in Ops /\ inv[m] \in InvRecord /\ Record(w) = inv[m]
      /\ inv[m].state \in { "Absent", TransitionalOf(op) }
      /\ a.state \in { TransitionalOf(op), StableOf(op) }
      /\ WorkerBinding(w) /\ ShownBinding(m) /\ ProviderBinding
  BY BusyFacts DEF InFlight
<1>2. inv[m].state = "Absent" => prov[m].cluster = None
  BY <1>1 DEF WorkerBinding, ProviderBinding, Held
<1>3. CASE op \in { "Create", "Delete" }
  <2>1. Acked(w).state = a.state
    BY <1>1, <1>3 DEF Acked, InvRecord
  <2>2. a.state \in Free /\ inv[m].state \in Free \cup { "Absent" }
    BY <1>1, <1>3, OpTable DEF Free
  <2> QED
    BY <1>1, <1>2, <2>1, <2>2 DEF ShownBinding, Free
<1>4. CASE op = "Configure"
  <2>1. Acked(w) = [ inv[m] EXCEPT !.state = a.state, !.host = a.host, !.cluster = act.cluster,
                                   !.need = act.need, !.prot = act.need ]
    BY <1>1, <1>4 DEF Acked
  <2>2. /\ Acked(w).state = a.state /\ Acked(w).cluster = act.cluster
        /\ Acked(w).need = act.need /\ Acked(w).prot = act.need
    BY <1>1, <2>1 DEF InvRecord
  <2>3. /\ a.state = "Configured" /\ prov[m].state \in BoundOrLost
        /\ prov[m].state = "Configured" =>
             prov[m].cluster = act.cluster /\ prov[m].meta = act.need
    BY <1>1, <1>4 DEF WorkerBinding
  <2> QED
    BY <2>2, <2>3 DEF Free
<1>5. CASE op = "Drain"
  <2>1. Acked(w).state = "Idle"
    BY <1>1, <1>5 DEF Acked, InvRecord
  <2>2. prov[m].cluster = None
    BY <1>1, <1>5 DEF WorkerBinding, WritesAck
  <2> QED
    BY <2>1, <2>2 DEF Free
<1> QED
  BY <1>1, <1>3, <1>4, <1>5 DEF Ops

\* The commit of an ack.
LEMMA AckBinding ==
  ASSUME TypeOK, LedgerExact, InFlightInv, BindingInv, NEW w \in Busy, CommitAck(w)
  PROVE  BindingInv'
<1>1. PICK m \in Machines : m = Target(w)
  BY BusyTypes DEF Busy
<1>2. PICK pc \in { "bootstrap", "finish" } :
        /\ worker' = [ worker EXCEPT ![w].ack = NoListing, ![w].pc = pc ]
        /\ pc = "bootstrap" => worker[w].op = "Create" /\ Accepted(m, Acked(w))
  BY <1>1 DEF CommitAck
<1> DEFINE x == [ worker[w] EXCEPT !.ack = NoListing, !.pc = pc ]
<1>3. x.pc = pc /\ x.act = worker[w].act /\ worker' = [ worker EXCEPT ![w] = x ]
  BY <1>1, <1>2, BusyFacts DEF WorkerRecord
<1> HIDE DEF x
<1>4. worker[w].pc = "ack" /\ Local
  BY DEF CommitAck
<1>5. inv[m].state \in { "Absent", TransitionalOf(worker[w].op) } /\ worker[w].op \in Ops
  BY <1>1, <1>4, BusyFacts DEF InFlight
<1>6. CASE WritesAck(w) /\ Accepted(m, Acked(w))
  <2>1. inv' = [ inv EXCEPT ![m] = Acked(w) ] /\ Acked(w) \in InvRecord
    BY <1>1, <1>6, AckedType DEF CommitAck, Written
  <2>2. /\ Acked(w).state \in Free \cup { "Configured" }
        /\ Acked(w).state \in Free => prov[m].cluster = None
        /\ Acked(w).state = "Configured" =>
             /\ prov[m].state \in BoundOrLost
             /\ prov[m].state = "Configured" =>
                  /\ Acked(w).cluster = prov[m].cluster
                  /\ Acked(w).need = prov[m].meta
                  /\ Acked(w).prot = prov[m].meta
    BY <1>1, <1>4, <1>6, AckedBinding
  <2> DEFINE r == Acked(w)
  <2>3. r.state \notin { "Absent", "Configuring", "Draining" }
    BY <2>2 DEF Free
  <2>4. x.pc \notin { "idle", "begin", "blob", "call", "ack" }
    BY <1>3
  <2> HIDE DEF r
  <2> QED
    BY <1>1, <1>3, <1>4, <2>1, <2>2, <2>3, <2>4, WriteBinding DEF r
<1>7. CASE ~(WritesAck(w) /\ Accepted(m, Acked(w)))
  <2>1. inv' = inv
    BY <1>1, <1>7 DEF CommitAck, Written
  <2>2. pc = "finish"
    BY <1>2, <1>7 DEF WritesAck
  <2>3. inv[m].state # "Configuring"
    <3> SUFFICES ASSUME inv[m].state = "Configuring" PROVE FALSE
      OBVIOUS
    <3>1. worker[w].op = "Configure"
      BY <1>5, OpTable
    <3>2. WritesAck(w)
      BY <3>1 DEF WritesAck
    <3>3. Accepted(Target(w), Acked(w))
      BY <1>1, <1>4, <3>2, InFlightCommits, BusyFacts DEF CommitAccepted
    <3> QED
      BY <1>1, <1>7, <3>2, <3>3
  <2>4. worker'[w] = x
    BY <1>1, <1>3, BusyFacts
  <2>5. WorkerBinding(w)'
    BY <1>3, <2>2, <2>4 DEF WorkerBinding, Held
  <2>6. ShownBinding(m)' /\ ProviderBinding'
    BY <1>1, <1>4, <2>1, <2>3, BusyFacts DEF ShownBinding, ProviderBinding, Local
  <2>7. listed[m].state \in Free /\ inv'[m].state \in { "Absent", "Draining" } =>
          prov'[m].cluster = None
    BY <1>1, <1>4, <2>1, BusyFacts DEF ListedBinding, Local
  <2> QED
    BY <1>1, <1>3, <1>4, <2>1, <2>5, <2>6, <2>7, OwnBinding DEF Local
<1> QED
  BY <1>6, <1>7

-----------------------------------------------------------------------------
(* BindingInv is preserved, one lemma for each part of the next-state        *)
(* relation.                                                                 *)

\* Every step of a worker.
LEMMA WorkerKeepsBinding ==
  ASSUME SyncConfigure, TypeOK, LedgerExact, InFlightInv, BindingInv,
         NEW w \in Workers, WorkerStep(w)
  PROVE  BindingInv'
<1>1. CASE Take(w)
  <2>1. /\ queue \in Seq(Action) /\ queue # << >> /\ w \notin Busy
        /\ queue' = Tail(queue)
        /\ UNCHANGED << inv, prov, cycle, listed, seen >>
    BY <1>1 DEF Take, TypeOK, Busy
  <2>2. /\ worker'[w].pc = "begin" /\ worker'[w].act = Head(queue)
        /\ \A v \in Workers \ { w } : worker'[v] = worker[v]
        /\ Busy' = Busy \cup { w }
    BY <1>1 DEF Take, TypeOK, IdleWorker, Busy
  <2>3. /\ 1 \in DOMAIN queue /\ Head(queue) = queue[1]
        /\ \A i \in DOMAIN Tail(queue) : i + 1 \in DOMAIN queue /\ Tail(queue)[i] = queue[i + 1]
    BY <2>1
  <2>4. \A v \in Busy : v # w /\ worker'[v] = worker[v] /\ Target(v)' = Target(v)
    BY <2>1, <2>2 DEF Busy, Target
  <2>5. ASSUME NEW m \in Machines PROVE ShownBinding(m)' /\ ListedBinding(m)'
    <3>1. ShownBinding(m) /\ ListedBinding(m)
      BY DEF BindingInv
    <3>2. ShownBinding(m)'
      BY <2>1, <2>2, <2>4, <3>1 DEF ShownBinding
    <3>3. DrainWaits(m)' => DrainWaits(m)
      <4> SUFFICES ASSUME DrainWaits(m)' PROVE DrainWaits(m)
        OBVIOUS
      <4>1. CASE \E i \in DOMAIN queue' : queue'[i].m = m /\ queue'[i].kind \in Drains
        BY <2>1, <2>3, <4>1 DEF DrainWaits
      <4>2. ASSUME NEW v \in Busy', Target(v)' = m, worker'[v].pc = "begin",
                   worker'[v].act.kind \in Drains
            PROVE  DrainWaits(m)
        <5>1. CASE v = w
          BY <2>2, <2>3, <4>2, <5>1 DEF DrainWaits, Target
        <5>2. CASE v # w
          BY <2>2, <2>4, <4>2, <5>2 DEF DrainWaits
        <5> QED
          BY <5>1, <5>2
      <4> QED
        BY <4>1, <4>2 DEF DrainWaits
    <3>4. ListedBinding(m)'
      BY <2>1, <3>1, <3>3 DEF ListedBinding
    <3> QED
      BY <3>2, <3>4
  <2>6. ASSUME NEW v \in Busy' PROVE WorkerBinding(v)'
    <3>1. CASE v = w
      BY <2>2, <3>1 DEF WorkerBinding, Held
    <3>2. CASE v # w
      BY <2>1, <2>2, <2>4, <3>2 DEF BindingInv, WorkerBinding, Record
    <3> QED
      BY <3>1, <3>2
  <2> QED
    BY <2>1, <2>5, <2>6 DEF BindingInv, ProviderBinding
<1>2. CASE Finish(w)
  <2>1. /\ UNCHANGED << inv, prov, cycle, listed, seen, queue >>
        /\ \A v \in Busy' : v \in Busy /\ worker'[v] = worker[v] /\ Target(v)' = Target(v)
        /\ \A v \in Busy : worker[v].pc \in Held => v \in Busy'
    BY <1>2 DEF Finish, TypeOK, Busy, IdleWorker, Target, Held
  <2>2. ASSUME NEW m \in Machines PROVE ShownBinding(m)' /\ ListedBinding(m)'
    <3>1. ShownBinding(m) /\ ListedBinding(m)
      BY DEF BindingInv
    <3>2. ShownBinding(m)'
      BY <2>1, <3>1 DEF ShownBinding
    <3>3. DrainWaits(m)' => DrainWaits(m)
      BY <2>1 DEF DrainWaits
    <3>4. ListedBinding(m)'
      BY <2>1, <3>1, <3>3 DEF ListedBinding
    <3> QED
      BY <3>2, <3>4
  <2>3. ASSUME NEW v \in Busy' PROVE WorkerBinding(v)'
    BY <2>1, <2>3 DEF BindingInv, WorkerBinding, Record
  <2> QED
    BY <2>1, <2>2, <2>3 DEF BindingInv, ProviderBinding
<1>3. CASE ExecuteStep(w) /\ ~Finish(w)
  <2>1. /\ w \in Busy /\ Record(w) \in InvRecord
        /\ worker[w].act.cluster \in Clusters \cup { None }
        /\ worker[w].act.need \in Needs \cup { None }
    BY <1>3, ExecutorFrame, BusyTypes
  <2>2. /\ TransitionalOf("Create") = "Creating" /\ TransitionalOf("Configure") = "Configuring"
        /\ TransitionalOf("Drain") = "Draining" /\ TransitionalOf("Delete") = "Deleting"
    BY OpTable DEF Ops
  <2>3. CASE executeProvision(w)
    <3> DEFINE r == [ Record(w) EXCEPT !.state = "Creating", !.need = worker[w].act.need ]
    <3>1. r \in InvRecord /\ r.state = TransitionalOf("Create")
      BY <2>1, <2>2 DEF InvRecord, States
    <3>2. Open(w, "Speculative", r, "Create", "call") /\ worker[w].pc = "begin"
      BY <2>3 DEF executeProvision
    <3> HIDE DEF r
    <3> QED
      BY <2>1, <3>1, <3>2, OpenBinding DEF Ops, Free, States
  <2>4. CASE executeBootstrap(w)
    <3> DEFINE r == [ Record(w) EXCEPT !.state = "Configuring", !.cluster = worker[w].act.cluster,
                                       !.need = worker[w].act.need ]
    <3>1. r \in InvRecord /\ r.state = TransitionalOf("Configure")
      BY <2>1, <2>2 DEF InvRecord, States
    <3>2. Open(w, "Idle", r, "Configure", "blob") /\ worker[w].pc \in { "begin", "bootstrap" }
      BY <2>4 DEF executeBootstrap
    <3> HIDE DEF r
    <3> QED
      BY <2>1, <3>1, <3>2, OpenBinding DEF Ops, Free, States
  <2>5. CASE executeDrain(w)
    <3> DEFINE r == [ Record(w) EXCEPT !.state = "Draining" ]
    <3>1. r \in InvRecord /\ r.state = TransitionalOf("Drain")
      BY <2>1, <2>2 DEF InvRecord, States
    <3>2. /\ Open(w, "Configured", r, "Drain", "call")
          /\ worker[w].pc = "begin" /\ worker[w].act.kind \in Drains
      BY <2>5 DEF executeDrain, Drains
    <3> HIDE DEF r
    <3> QED
      BY <2>1, <3>1, <3>2, OpenBinding DEF Ops, Free, States
  <2>6. CASE executeDelete(w)
    <3> DEFINE r == [ Record(w) EXCEPT !.state = "Deleting" ]
    <3>1. r \in InvRecord /\ r.state = TransitionalOf("Delete")
      BY <2>1, <2>2 DEF InvRecord, States
    <3>2. Open(w, "Idle", r, "Delete", "call") /\ worker[w].pc = "begin"
      BY <2>6 DEF executeDelete
    <3> HIDE DEF r
    <3> QED
      BY <2>1, <3>1, <3>2, OpenBinding DEF Ops, Free, States
  <2>7. CASE BlobUnavailable(w)
    <3>1. RolledBack(w) \in InvRecord
      BY <2>1 DEF RolledBack, InvRecord, States
    <3> QED
      BY <2>1, <2>7, <3>1, GiveUpBinding DEF BlobUnavailable
  <2>8. ASSUME NEW why \in { "operator", "session" }, BlobRefused(w, why)
        PROVE  BindingInv'
    <3> DEFINE r == [ Record(w) EXCEPT !.state = "Failed", !.lastError = why ]
    <3>1. r \in InvRecord /\ r.state = "Failed" /\ r.lastError # None
      BY <2>1, ErrorsAssumption DEF InvRecord, States, Errors
    <3>2. inv' = Written(Target(w), r) /\ Goto(w, "finish") /\ Local /\ worker[w].pc = "blob"
      BY <2>8 DEF BlobRefused
    <3> HIDE DEF r
    <3> QED
      BY <2>1, <3>1, <3>2, GiveUpBinding
  <2>9. CASE CommitFailure(w)
    <3> DEFINE r == [ Record(w) EXCEPT !.state = "Failed", !.lastError = "provider" ]
    <3>1. r \in InvRecord /\ r.state = "Failed" /\ r.lastError # None
      BY <2>1, ErrorsAssumption DEF InvRecord, States, Errors
    <3>2. inv' = Written(Target(w), r) /\ Goto(w, "finish") /\ Local /\ worker[w].pc = "err"
      BY <2>9 DEF CommitFailure
    <3> HIDE DEF r
    <3> QED
      BY <2>1, <3>1, <3>2, GiveUpBinding
  <2> QED
    BY <1>3, <2>1, <2>3, <2>4, <2>5, <2>6, <2>7, <2>8, <2>9, WaitBinding, CallBinding, AckBinding
       DEF ExecuteStep
<1> QED
  BY <1>1, <1>2, <1>3 DEF WorkerStep

\* A step that leaves the records and the workers alone, outside reconcile.
LEMMA BindingFrame ==
  ASSUME BindingInv, UNCHANGED << inv, prov, worker >>, cycle' # "apply",
         \A m \in Machines : listed'[m].state = "Absent"
  PROVE  BindingInv'
<1>1. Busy' = Busy
  BY DEF Busy
<1>2. ASSUME NEW m \in Machines PROVE ShownBinding(m)' /\ ListedBinding(m)'
  <2>1. ShownBinding(m)'
    BY <1>1 DEF BindingInv, ShownBinding, Target
  <2>2. ListedBinding(m)'
    BY DEF ListedBinding, Free
  <2> QED
    BY <2>1, <2>2
<1>3. ASSUME NEW w \in Busy PROVE WorkerBinding(w)'
  BY <1>3 DEF BindingInv, WorkerBinding, Record, Target
<1> QED
  BY <1>1, <1>2, <1>3 DEF BindingInv, ProviderBinding

\* Reconcile of one record: what it stores is right about the binding.
LEMMA ReconcileKeepsBinding ==
  ASSUME TypeOK, LedgerExact, InFlightInv, BindingInv,
         NEW m \in Machines, ApplyReconciledMachine(m)
  PROVE  BindingInv'
<1> DEFINE dm == listed[m]
           r == Ingested(m, dm)
<1>1. /\ dm \in ProvRecord /\ dm.state \in States /\ dm.state # "Absent"
      /\ listed \in [ Machines -> ProvRecord ]
      /\ inv \in [ Machines -> InvRecord ] /\ inv[m].state \in States \cup { "Absent" }
  BY DEF ApplyReconciledMachine, TypeOK, ProvRecord, InvTypeOK, InvRecord
<1>2. /\ UNCHANGED << prov, cycle, seen, worker, queue >> /\ inv' = Reconciled(m)
      /\ listed'[m] = NoListing
      /\ \A y \in Machines \ { m } : listed'[y] = listed[y]
  BY <1>1 DEF ApplyReconciledMachine
<1>3. /\ \A y \in Machines \ { m } : inv'[y] = inv[y]
      /\ m \in pending => inv'[m] = inv[m]
  BY <1>1, <1>2 DEF Reconciled, Written
<1>4. Busy' = Busy /\ (\A w \in Busy : Target(w)' = Target(w) /\ Target(w) \in Machines)
  BY <1>2, BusyTypes DEF Busy, Target
<1>5. /\ ShownBinding(m) /\ ListedBinding(m)
  BY DEF BindingInv
<1>6. ShownBinding(m)'
  <2>1. CASE inv'[m] = inv[m]
    BY <1>2, <1>4, <1>5, <2>1 DEF ShownBinding
  <2>2. CASE inv'[m] # inv[m]
    <3>1. /\ m \notin pending /\ inv[m].state # dm.state /\ inv'[m] = r
          /\ inv[m].state = "Absent" \/ CanTransition(inv[m].state, r.state)
      BY <1>1, <1>2, <2>2 DEF Reconciled, Written, Accepted, Ingested
    <3>2. /\ r.state = dm.state /\ r.cluster = dm.cluster
          /\ inv[m].state = "Absent" => r.need = dm.meta /\ r.prot = dm.meta
      BY DEF Ingested
    <3>3. inv[m].state # "Configuring"
      BY <1>5, <3>1, Holder DEF ShownBinding
    <3>4. dm.state # "Configuring"
      BY <1>5 DEF ListedBinding
    <3>5. dm.state \in Free =>
            inv[m].state \in Free \cup { "Absent", "Draining" }
      BY <1>1, <3>1, <3>2, <3>3, Exits
    <3>6. dm.state \in Free => prov[m].cluster = None
      BY <1>5, <3>5 DEF ShownBinding, ListedBinding
    <3>7. dm.state = "Configured" => inv[m].state = "Absent"
      BY <1>1, <3>1, <3>2, <3>3, Exits
    <3>8. dm.state = "Configured" =>
            /\ prov[m].state \in BoundOrLost
            /\ prov[m].state = "Configured" =>
                 prov[m].cluster = dm.cluster /\ prov[m].meta = dm.meta
      BY <1>5, <3>7 DEF ListedBinding
    <3> HIDE DEF r, dm
    <3> QED
      BY <1>2, <3>1, <3>2, <3>4, <3>6, <3>7, <3>8 DEF ShownBinding
  <2> QED
    BY <2>1, <2>2
<1>7. ListedBinding(m)'
  BY <1>2, <1>5 DEF ListedBinding, NoListing, Free
<1>8. ASSUME NEW y \in Machines, y # m
      PROVE  ShownBinding(y)' /\ ListedBinding(y)'
  <2>1. ShownBinding(y) /\ ListedBinding(y) /\ inv'[y] = inv[y] /\ listed'[y] = listed[y]
    BY <1>2, <1>3, <1>8 DEF BindingInv
  <2>2. ShownBinding(y)'
    BY <1>2, <1>4, <2>1 DEF ShownBinding
  <2>3. DrainWaits(y)' <=> DrainWaits(y)
    BY <1>2, <1>4 DEF DrainWaits
  <2>4. ListedBinding(y)'
    BY <1>2, <2>1, <2>3 DEF ListedBinding
  <2> QED
    BY <2>2, <2>4
<1>9. ASSUME NEW w \in Busy PROVE WorkerBinding(w)'
  <2>1. inv'[Target(w)] = inv[Target(w)]
    BY <1>3, <1>4, Holder
  <2> QED
    BY <1>2, <1>4, <2>1 DEF BindingInv, WorkerBinding, Record
<1>10. ProviderBinding'
  BY <1>2 DEF BindingInv, ProviderBinding
<1> QED
  BY <1>4, <1>6, <1>7, <1>8, <1>9, <1>10 DEF BindingInv

\* The cycle: a fresh List agrees with the provider, a pruned machine is gone
\* from it, and the rest touches neither records nor workers.
LEMMA CycleKeepsBinding ==
  ASSUME TypeOK, LedgerExact, InFlightInv, BindingInv, CycleStep
  PROVE  BindingInv'
<1>1. CASE ListProvider
  <2>1. /\ UNCHANGED << inv, prov, worker, queue >> /\ Busy' = Busy /\ cycle' = "apply"
        /\ \A w \in Busy : Target(w)' = Target(w)
    BY <1>1 DEF ListProvider, Busy, Target
  <2>2. ASSUME NEW m \in Machines PROVE ShownBinding(m)' /\ ListedBinding(m)'
    <3>1. ShownBinding(m)
      BY DEF BindingInv
    <3>2. ShownBinding(m)'
      BY <2>1, <3>1 DEF ShownBinding
    <3>3. /\ listed'[m] \in { prov[m], NoListing }
          /\ m \notin seen' /\ ~Incremental => prov[m].state = "Absent"
      BY <1>1 DEF ListProvider, Returned
    <3>4. /\ prov[m].state # "Configuring"
          /\ prov[m].state \in Free => prov[m].cluster = None
      BY DEF BindingInv, ProviderBinding
    <3>5. inv[m].state = "Configured" => listed'[m].state \notin Free
      BY <3>1, <3>3 DEF ShownBinding, BoundOrLost, Free, NoListing
    <3>6. listed'[m].state = "Configured" => listed'[m] = prov[m]
      BY <3>3 DEF NoListing
    <3>7. listed'[m].state \in Free => listed'[m] = prov[m]
      BY <3>3 DEF NoListing, Free
    <3>8. listed'[m].state # "Configuring"
      BY <3>3, <3>4 DEF NoListing
    <3> QED
      BY <2>1, <3>2, <3>3, <3>4, <3>5, <3>6, <3>7, <3>8 DEF ListedBinding, BoundOrLost
  <2>3. ASSUME NEW w \in Busy PROVE WorkerBinding(w)'
    BY <2>1 DEF BindingInv, WorkerBinding, Record
  <2> QED
    BY <2>1, <2>2, <2>3 DEF BindingInv, ProviderBinding
<1>2. ASSUME NEW m \in Machines, ApplyReconciledMachine(m)
      PROVE  BindingInv'
  BY <1>2, ReconcileKeepsBinding
<1>3. CASE ReconcileDone
  <2>1. /\ UNCHANGED << prov, worker, listed >> /\ Busy' = Busy /\ cycle' = "decide"
        /\ \A w \in Busy : Target(w)' = Target(w) /\ Target(w) \in Machines
    BY <1>3, BusyTypes DEF ReconcileDone, Busy, Target
  <2>2. ASSUME NEW m \in Machines
        PROVE  \/ inv'[m] = inv[m]
               \/ inv'[m].state = "Absent" /\ prov[m].state = "Absent"
    <3>1. cycle = "apply" /\ ~Incremental /\ m \notin seen => prov[m].state = "Absent"
      BY DEF BindingInv, ListedBinding
    <3> QED
      BY <1>3, <3>1 DEF ReconcileDone, Pruned, NoRecord
  <2>3. ASSUME NEW m \in Machines PROVE ShownBinding(m)' /\ ListedBinding(m)'
    <3>1. ShownBinding(m)
      BY DEF BindingInv
    <3>2. ShownBinding(m)'
      BY <2>1, <2>2, <3>1 DEF ShownBinding, Free
    <3>3. listed[m].state = "Absent"
      BY <1>3 DEF ReconcileDone
    <3> QED
      BY <2>1, <3>2, <3>3 DEF ListedBinding, Free
  <2>4. ASSUME NEW w \in Busy PROVE WorkerBinding(w)'
    <3>1. WorkerBinding(w)
      BY DEF BindingInv
    <3>2. \/ inv'[Target(w)] = inv[Target(w)]
          \/ inv'[Target(w)].state = "Absent" /\ prov[Target(w)].state = "Absent"
      BY <2>1, <2>2
    <3> QED
      BY <2>1, <3>1, <3>2 DEF WorkerBinding, Record
  <2> QED
    BY <2>1, <2>3, <2>4 DEF BindingInv, ProviderBinding
<1>4. CASE ListFails \/ Decide \/ Enqueue \/ EndCycle
           \/ \E m \in Machines, k \in Kinds : CheckApplicable(m, k)
  <2>1. /\ UNCHANGED << inv, prov, worker, listed >>
        /\ cycle # "apply" /\ cycle' # "apply"
    BY <1>4 DEF ListFails, Decide, Enqueue, EndCycle, CheckApplicable
  <2>2. \A m \in Machines : listed[m].state = "Absent"
    BY <2>1 DEF BindingInv, ListedBinding
  <2> QED
    BY <2>1, <2>2, BindingFrame
<1> QED
  BY <1>1, <1>2, <1>3, <1>4 DEF CycleStep

\* A step of the provider on its own: it binds no machine and forgets none that
\* it does not lose.
LEMMA ProviderKeepsBinding ==
  ASSUME TypeOK, BindingInv, NEW m \in Machines,
         UNCHANGED << inv, cycle, listed, seen, worker, queue >>,
         NEW q, prov' = [ prov EXCEPT ![m] = q ],
         q.state \notin { "Configuring", "Configured" },
         q.state \in Free \cup { "Absent" } => q.cluster = None,
         q.cluster \in { prov[m].cluster, None },
         prov[m].state \in BoundOrLost => q.state \in BoundOrLost,
         prov[m].state # "Absent"
  PROVE  BindingInv'
<1>1. /\ prov'[m] = q /\ \A y \in Machines \ { m } : prov'[y] = prov[y]
      /\ Busy' = Busy /\ \A w \in Busy : Target(w)' = Target(w) /\ Target(w) \in Machines
  BY BusyTypes DEF TypeOK, ProvTypeOK, Busy, Target
<1>2. \A y \in Machines :
        /\ prov'[y].cluster \in { prov[y].cluster, None }
        /\ prov[y].state \in BoundOrLost => prov'[y].state \in BoundOrLost
        /\ prov'[y].state = "Configured" => prov'[y] = prov[y]
        /\ prov[y].state = "Absent" => prov'[y].state = "Absent"
  BY <1>1
<1>3. ProviderBinding'
  BY <1>1 DEF BindingInv, ProviderBinding
<1>4. ASSUME NEW y \in Machines PROVE ShownBinding(y)' /\ ListedBinding(y)'
  <2>1. ShownBinding(y) /\ ListedBinding(y)
    BY DEF BindingInv
  <2>2. ShownBinding(y)'
    BY <1>1, <1>2, <2>1 DEF ShownBinding
  <2>3. DrainWaits(y)' <=> DrainWaits(y)
    BY <1>1 DEF DrainWaits
  <2>4. ListedBinding(y)'
    BY <1>2, <2>1, <2>3 DEF ListedBinding
  <2> QED
    BY <2>2, <2>4
<1>5. ASSUME NEW w \in Busy PROVE WorkerBinding(w)'
  <2>1. WorkerBinding(w)
    BY DEF BindingInv
  <2> QED
    BY <1>1, <1>2, <2>1 DEF WorkerBinding, Record
<1> QED
  BY <1>1, <1>3, <1>4, <1>5 DEF BindingInv

\* The surroundings.
LEMMA EnvironmentKeepsBinding ==
  ASSUME TypeOK, BindingInv, Environment
  PROVE  BindingInv'
<1>1. ASSUME NEW c \in Clusters, SessionChange(c)
      PROVE  BindingInv'
  <2>1. UNCHANGED << inv, prov, cycle, listed, seen, worker, queue >> /\ Busy' = Busy
    BY <1>1 DEF SessionChange, Busy
  <2>2. ASSUME NEW m \in Machines PROVE ShownBinding(m)' /\ ListedBinding(m)'
    BY <2>1 DEF BindingInv, ShownBinding, ListedBinding, DrainWaits, Target
  <2>3. ASSUME NEW w \in Busy PROVE WorkerBinding(w)'
    BY <2>1 DEF BindingInv, WorkerBinding, Record, Target
  <2> QED
    BY <2>1, <2>2, <2>3 DEF BindingInv, ProviderBinding
<1>2. ASSUME NEW m \in Machines, ProviderCompletes(m)
      PROVE  BindingInv'
  <2>1. PICK op \in Ops :
          /\ prov[m].state = TransitionalOf(op)
          /\ prov' = [ prov EXCEPT ![m] =
                         PostEffect(prov[m], op, StableOf(op), prov[m].cluster, prov[m].meta) ]
    BY <1>2 DEF ProviderCompletes, CompleteStaged
  <2> DEFINE q == PostEffect(prov[m], op, StableOf(op), prov[m].cluster, prov[m].meta)
  <2>2. /\ prov[m] \in ProvRecord
        /\ prov[m].state # "Configuring"
        /\ prov[m].state \in Free => prov[m].cluster = None
    BY DEF TypeOK, ProvTypeOK, BindingInv, ProviderBinding
  <2>3. op # "Configure"
    BY <2>1, <2>2, OpTable
  <2>4. /\ q.state = StableOf(op) /\ q.cluster \in { prov[m].cluster, None }
        /\ op = "Drain" /\ StableOf(op) = "Idle" => q.cluster = None
    BY <2>2, <2>3, EffectOnBinding
  <2>5. q.state \in Free /\ q.cluster = None /\ prov[m].state \notin BoundOrLost
    BY <2>1, <2>2, <2>3, <2>4, OpTable DEF Free, BoundOrLost
  <2>6. prov' = [ prov EXCEPT ![m] = q ]
    BY <2>1
  <2> HIDE DEF q
  <2>7. prov[m].state # "Absent" /\ q.state \notin { "Configuring", "Configured" }
    BY <2>1, <2>5, OpTable DEF Free
  <2> QED
    BY <1>2, <2>4, <2>5, <2>6, <2>7, ProviderKeepsBinding DEF ProviderCompletes
<1>3. ASSUME NEW m \in Machines, ProviderFails(m)
      PROVE  BindingInv'
  <2> DEFINE q == [ prov[m] EXCEPT !.state = "Failed" ]
  <2>1. q.state = "Failed" /\ q.cluster = prov[m].cluster
    BY DEF TypeOK, ProvTypeOK, ProvRecord
  <2>2. prov' = [ prov EXCEPT ![m] = q ] /\ prov[m].state # "Absent"
    BY <1>3 DEF ProviderFails, FailMachine
  <2> HIDE DEF q
  <2> QED
    BY <1>3, <2>1, <2>2, ProviderKeepsBinding DEF ProviderFails, Free, BoundOrLost
<1>4. ASSUME NEW m \in Machines, ProviderLoses(m)
      PROVE  BindingInv'
  <2>1. prov' = [ prov EXCEPT ![m] = NoListing ] /\ prov[m].state # "Absent"
    BY <1>4 DEF ProviderLoses, RemoveMachine
  <2>2. NoListing.state = "Absent" /\ NoListing.cluster = None
    BY DEF NoListing
  <2> QED
    BY <1>4, <2>1, <2>2, ProviderKeepsBinding DEF ProviderLoses, Free, BoundOrLost
<1>5. CASE Restart
  <2>1. /\ \A m \in Machines : inv'[m].state = "Absent" /\ listed'[m].state = "Absent"
        /\ cycle' # "apply" /\ Busy' = {} /\ UNCHANGED prov
    BY <1>5 DEF Restart, Fresh, NoRecord, NoListing, Busy, IdleWorker
  <2>2. ASSUME NEW m \in Machines PROVE ShownBinding(m)' /\ ListedBinding(m)'
    BY <2>1 DEF ShownBinding, ListedBinding, Free
  <2> QED
    BY <2>1, <2>2 DEF BindingInv, ProviderBinding
<1> QED
  BY <1>1, <1>2, <1>3, <1>4, <1>5 DEF Environment

-----------------------------------------------------------------------------
(* The theorems. *)

\* A started process knows nothing, and a seeded provider has bound nothing.
LEMMA BindingInit == Init => BindingInv
<1> SUFFICES ASSUME Init PROVE BindingInv
  OBVIOUS
<1>1. \A p \in Seeded : p.state \in { "Speculative", "Idle" } /\ p.cluster = None
  <2>1. [ NoListing EXCEPT !.state = "Speculative" ].state = "Speculative"
        /\ [ NoListing EXCEPT !.state = "Speculative" ].cluster = None
    BY DEF NoListing
  <2>2. [ NoListing EXCEPT !.state = "Idle", !.host = TRUE ].state = "Idle"
        /\ [ NoListing EXCEPT !.state = "Idle", !.host = TRUE ].cluster = None
    BY DEF NoListing
  <2> QED
    BY <2>1, <2>2 DEF Seeded
<1>2. ProviderBinding
  BY <1>1 DEF Init, ProvInit, ProviderBinding
<1>3. /\ \A m \in Machines : inv[m].state = "Absent" /\ listed[m].state = "Absent"
      /\ cycle = "sleep" /\ Busy = {}
  BY DEF Init, Fresh, NoRecord, NoListing, Busy, IdleWorker
<1>4. ASSUME NEW m \in Machines PROVE ShownBinding(m) /\ ListedBinding(m)
  BY <1>3 DEF ShownBinding, ListedBinding, Free
<1> QED
  BY <1>2, <1>3, <1>4 DEF BindingInv

\* With a synchronous Configure every step keeps BindingInv.
LEMMA BindingNext ==
  SyncConfigure /\ TypeOK /\ LedgerExact /\ InFlightInv /\ BindingInv /\ [Next]_vars => BindingInv'
<1> SUFFICES ASSUME SyncConfigure, TypeOK, LedgerExact, InFlightInv, BindingInv, [Next]_vars
             PROVE  BindingInv'
  OBVIOUS
<1>1. CASE Next
  BY <1>1, WorkerKeepsBinding, CycleKeepsBinding, EnvironmentKeepsBinding DEF Next
<1>2. CASE UNCHANGED vars
  <2>1. UNCHANGED << inv, prov, cycle, listed, seen, worker, queue >> /\ Busy' = Busy
    BY <1>2 DEF vars, Busy
  <2>2. ASSUME NEW m \in Machines PROVE ShownBinding(m)' /\ ListedBinding(m)'
    BY <2>1 DEF BindingInv, ShownBinding, ListedBinding, DrainWaits, Target
  <2>3. ASSUME NEW w \in Busy PROVE WorkerBinding(w)'
    BY <2>1 DEF BindingInv, WorkerBinding, Record, Target
  <2> QED
    BY <2>1, <2>2, <2>3 DEF BindingInv, ProviderBinding
<1> QED
  BY <1>1, <1>2

\* BindingInv holds in every reachable state.
LEMMA BindingInvariant == SyncConfigure => (Spec => []BindingInv)
<1> SUFFICES ASSUME SyncConfigure PROVE Spec => []BindingInv
  OBVIOUS
<1>1. TypeOK /\ LedgerExact /\ InFlightInv /\ BindingInv /\ [Next]_vars => BindingInv'
  BY BindingNext
<1> QED
  BY <1>1, BindingInit, TypeCorrect, LedgerIsExact, InFlightInvariant, PTL DEF Spec

\* For a provider that completes Configure before it answers: executeDelete
\* never calls provider.Delete for a machine the provider has bound, whatever
\* Lists, lost answers, failures and restarts came before.
THEOREM DeletesOnlyUnbound == SyncConfigure => (Spec => []DeleteOnlyUnbound)
<1> SUFFICES ASSUME SyncConfigure PROVE Spec => []DeleteOnlyUnbound
  OBVIOUS
<1>1. TypeOK /\ InFlightInv /\ BindingInv => DeleteOnlyUnbound
  <2> SUFFICES ASSUME TypeOK, InFlightInv, BindingInv,
                      NEW w \in Busy, worker[w].pc = "call", worker[w].op = "Delete"
               PROVE  prov[Target(w)].cluster = None
    BY DEF DeleteOnlyUnbound
  <2>1. PICK m \in Machines : m = Target(w)
    BY BusyTypes DEF Busy
  <2>2. inv[m].state \in { "Absent", "Deleting" }
    BY <2>1, BusyFacts, OpTable DEF InFlight
  <2> QED
    BY <2>1, <2>2, BusyFacts DEF WorkerBinding, ShownBinding, ProviderBinding, Held, Free
<1> QED
  BY <1>1, TypeCorrect, InFlightInvariant, BindingInvariant, PTL

\* For the same providers: a machine the shard has Configured, and the provider
\* too, has at the provider the cluster, attribution and protection the shard
\* believes in.
THEOREM BindingsAreExact == SyncConfigure => (Spec => []BindingExact)
<1> SUFFICES ASSUME SyncConfigure PROVE Spec => []BindingExact
  OBVIOUS
<1>1. BindingInv => BindingExact
  BY DEF BindingInv, ShownBinding, BindingExact
<1> QED
  BY <1>1, BindingInvariant, PTL
=============================================================================
