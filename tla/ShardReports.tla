---------------------------- MODULE ShardReports ----------------------------
(***************************************************************************)
(* One shard's reports to the coordinator and the instructions that come   *)
(* back: pkg/shard/coordclient (runOnce, handleInstruction, queueAck),     *)
(* fencing.CoordinatorTerm, and the leader-local soft state of             *)
(* pkg/coordinator/grpc_server.go (ReportShard, EnqueueInstruction,        *)
(* clearAcked, snapshotPending).                                           *)
(*                                                                         *)
(* The report RPC is unreliable: it may be refused by a follower, its      *)
(* answer may be lost, and the handler may run after the client has given  *)
(* up.  Replicas are elected and deposed; a deposed one serves until it    *)
(* notices.  Replicas and the shard lose their memory when they restart.   *)
(* Summary and shortfalls of a report are only ever displayed: left out.   *)
(*                                                                         *)
(* term, leading  the newest term, and the term each replica leads or 0    *)
(* seq            FSM.seq, numbers given out by each replica's process     *)
(* pending        instructions each replica has queued for the shard       *)
(* wire           reports sent and not yet handled; live, that the client  *)
(*                still waits for this one                                 *)
(* client         "idle", "waiting" or "handling" the answer               *)
(* carried        the acks the report in progress took out of pendingAcks  *)
(* answer         instructions of the answer still to be handled           *)
(* pendingAcks, done, hwm, domains  memory of the shard process            *)
(* issued, executed, everDone  history: instructions made; those run by    *)
(*                this shard process, in order; the ids any process ran    *)
(***************************************************************************)
EXTENDS Integers, Sequences, FiniteSets

CONSTANTS Replicas, Domains,
          Kinds,        \* instruction payloads in use
          MaxTerm,      \* bound: elections
          MaxInstr,     \* bound: instructions made
          MaxWire,      \* bound: reports in flight
          MaxRestarts   \* bound: restarts, of replicas and the shard together

ASSUME KindsAssumption == Kinds \subseteq { "AssignDomain", "UnassignDomain", "other", "unknown" }

ASSUME BoundsAssumption ==
  MaxTerm \in Nat /\ MaxInstr \in Nat /\ MaxWire \in Nat /\ MaxRestarts \in Nat

VARIABLES term, leading, seq, pending,
          wire, client, carried, answer, pendingAcks, done, hwm, domains,
          issued, executed, everDone, restarts

coordVars == << term, leading, seq, pending, issued >>
shardVars == << client, carried, answer, pendingAcks, done, hwm, domains,
                executed, everDone >>
vars == << coordVars, wire, shardVars, restarts >>

-----------------------------------------------------------------------------
Instruction == [ id : 1 .. MaxInstr, term : 1 .. MaxTerm, seq : 1 .. MaxInstr,
                 kind : Kinds, domain : Domains ]

Outcome == { "ACCEPTED", "REJECTED_STALE", "REJECTED_INVALID" }

InstructAck == [ id : 1 .. MaxInstr, outcome : Outcome ]

IsLeader(r) == leading[r] # 0

-----------------------------------------------------------------------------
(* Coordinator                                                             *)

\* A caller stamps term and NextSequence; EnqueueInstruction stores it.
EnqueueInstruction(r, kind, d) ==
  /\ IsLeader(r) /\ issued < MaxInstr
  /\ issued' = issued + 1
  /\ seq' = [ seq EXCEPT ![r] = @ + 1 ]
  /\ pending' = [ pending EXCEPT ![r] = @ \cup
       { [ id |-> issued + 1, term |-> leading[r], seq |-> seq[r] + 1,
           kind |-> kind, domain |-> d ] } ]
  /\ UNCHANGED << term, leading, wire, shardVars, restarts >>

\* Faulty variant: what is handed out is forgotten.
clearAckedAndSent(queue, acks) == {}

\* The coordinator looks at the ids only, not at the outcomes.
clearAcked(queue, acks) == { i \in queue : ~ \E a \in acks : a.id = i.id }

\* ReportShard on a replica that calls itself leader: the acks, then the answer.
ReportShard(r, m) ==
  /\ m \in wire /\ IsLeader(r)
  /\ wire' = wire \ { m }
  /\ pending' = [ pending EXCEPT ![r] = clearAcked(@, m.acks) ]
  /\ IF m.live
       THEN /\ client' = "answered"
            /\ answer' = [ term |-> leading[r],
                           instructions |-> { i \in pending[r] : ~ \E a \in m.acks : a.id = i.id } ]
       ELSE UNCHANGED << client, answer >>
  /\ UNCHANGED << term, leading, seq, issued, carried, pendingAcks, done, hwm, domains, executed, everDone, restarts >>

\* A leader restart, or a new leader, begins with nothing pending.
RestartReplica(r) ==
  /\ restarts < MaxRestarts
  /\ restarts' = restarts + 1
  /\ leading' = [ leading EXCEPT ![r] = 0 ]
  /\ seq' = [ seq EXCEPT ![r] = 0 ]
  /\ pending' = [ pending EXCEPT ![r] = {} ]
  /\ UNCHANGED << term, issued, wire, shardVars >>

Elect(r) ==
  /\ term < MaxTerm
  /\ term' = term + 1
  /\ leading' = [ leading EXCEPT ![r] = term + 1 ]
  /\ UNCHANGED << seq, pending, issued, wire, shardVars, restarts >>

StepDown(r) ==
  /\ IsLeader(r) /\ leading[r] < term
  /\ leading' = [ leading EXCEPT ![r] = 0 ]
  /\ UNCHANGED << term, seq, pending, issued, wire, shardVars, restarts >>

-----------------------------------------------------------------------------
(* Shard                                                                   *)

NoAnswer == [ term |-> 0, instructions |-> {} ]

\* runOnce takes the acks and sends the report.
SendReport ==
  /\ client = "idle" /\ Cardinality(wire) < MaxWire
  /\ client' = "waiting"
  /\ carried' = pendingAcks /\ pendingAcks' = {}
  /\ wire' = wire \cup { [ live |-> TRUE, acks |-> pendingAcks ] }
  /\ UNCHANGED << coordVars, answer, done, hwm, domains, executed, everDone, restarts >>

\* The report or its answer is lost, or a follower refused it: the acks go back
\* in front of the queue.  The report may still be on its way.
ReportFails ==
  /\ client \in { "waiting", "answered" }
  /\ client' = "idle"
  /\ pendingAcks' = carried \cup pendingAcks /\ carried' = {}
  /\ answer' = NoAnswer
  /\ wire' = { [ m EXCEPT !.live = FALSE ] : m \in wire }
  /\ UNCHANGED << coordVars, done, hwm, domains, executed, everDone, restarts >>

\* A report nobody waits for is lost.
LateReportLost ==
  /\ \E m \in wire : ~ m.live /\ wire' = wire \ { m }
  /\ UNCHANGED << coordVars, shardVars, restarts >>

\* CoordinatorTerm.Validate, on the answer: one of an older term is not used, and
\* the acks it took are not sent again.
ValidateTerm ==
  /\ client = "answered"
  /\ carried' = {}
  /\ IF answer.term < hwm
       THEN /\ client' = "idle" /\ answer' = NoAnswer /\ UNCHANGED hwm
       ELSE /\ client' = "handling" /\ hwm' = answer.term /\ UNCHANGED answer
  /\ UNCHANGED << coordVars, wire, pendingAcks, done, domains, executed, everDone, restarts >>

queueAck(i, outcome) == pendingAcks' = pendingAcks \cup { [ id |-> i.id, outcome |-> outcome ] }

\* OnAssignDomain and OnUnassignDomain change the shard's domains; the other
\* three handlers are stubs that succeed.
Effect(i) ==
  CASE i.kind = "AssignDomain"   -> domains \cup { i.domain }
    [] i.kind = "UnassignDomain" -> domains \ { i.domain }
    [] i.kind = "other"          -> domains

Execute(i) ==
  /\ domains' = Effect(i)
  /\ done' = done \cup { i.id } /\ everDone' = everDone \cup { i.id }
  /\ executed' = Append(executed, i)
  /\ queueAck(i, "ACCEPTED")
  /\ hwm' = IF i.term > hwm THEN i.term ELSE hwm

\* Faulty variant: a duplicate is dropped without an ack.
DuplicateIgnored(i) == i.id \in done /\ UNCHANGED << pendingAcks, hwm >>

\* What handleInstruction does with an instruction it will not run again or at
\* all.
Duplicate(i) == i.id \in done /\ queueAck(i, "ACCEPTED") /\ UNCHANGED hwm

\* Faulty variant: only the answer is fenced, not each instruction.
StaleNever(i) == FALSE

Stale(i) == i.term < hwm

Refuse(i) ==
  /\ \/ Duplicate(i)
     \/ i.id \notin done /\ Stale(i) /\ queueAck(i, "REJECTED_STALE") /\ UNCHANGED hwm
     \/ /\ i.id \notin done /\ ~ Stale(i) /\ i.kind = "unknown"
        /\ queueAck(i, "REJECTED_INVALID")
        /\ hwm' = IF i.term > hwm THEN i.term ELSE hwm
  /\ UNCHANGED << domains, done, executed, everDone >>

\* The instructions of an answer are handled in the order of their numbers.
handleInstruction ==
  /\ client = "handling"
  /\ \E i \in answer.instructions :
       /\ \A j \in answer.instructions : i.seq <= j.seq
       /\ answer' = [ answer EXCEPT !.instructions = @ \ { i } ]
       /\ \/ Refuse(i)
          \/ i.id \notin done /\ ~ Stale(i) /\ i.kind # "unknown" /\ Execute(i)
  /\ UNCHANGED << coordVars, wire, client, carried, restarts >>

ReportDone ==
  /\ client = "handling" /\ answer.instructions = {}
  /\ client' = "idle" /\ answer' = NoAnswer
  /\ UNCHANGED << coordVars, wire, carried, pendingAcks, done, hwm, domains,
                  executed, everDone, restarts >>

\* The shard process starts again with nothing in memory.
RestartShard ==
  /\ restarts < MaxRestarts
  /\ restarts' = restarts + 1
  /\ client' = "idle" /\ answer' = NoAnswer
  /\ carried' = {} /\ pendingAcks' = {} /\ done' = {} /\ hwm' = 0
  /\ domains' = {} /\ executed' = << >>
  /\ wire' = { [ m EXCEPT !.live = FALSE ] : m \in wire }
  /\ UNCHANGED << coordVars, everDone >>

-----------------------------------------------------------------------------
Init ==
  /\ term = 0 /\ leading = [ r \in Replicas |-> 0 ]
  /\ seq = [ r \in Replicas |-> 0 ]
  /\ pending = [ r \in Replicas |-> {} ]
  /\ wire = {} /\ client = "idle" /\ carried = {} /\ answer = NoAnswer
  /\ pendingAcks = {} /\ done = {} /\ hwm = 0 /\ domains = {}
  /\ issued = 0 /\ executed = << >> /\ everDone = {} /\ restarts = 0

Next ==
  \/ \E r \in Replicas :
       \/ \E k \in Kinds, d \in Domains : EnqueueInstruction(r, k, d)
       \/ \E m \in wire : ReportShard(r, m)
       \/ RestartReplica(r) \/ Elect(r) \/ StepDown(r)
  \/ SendReport \/ ReportFails \/ LateReportLost \/ ValidateTerm \/ handleInstruction \/ ReportDone
  \/ RestartShard

Spec == Init /\ [][Next]_vars

\* The client reports on a ticker and its steps take place; a report reaches the
\* newest leader again and again, and answers arrive again and again.
Fairness ==
  /\ WF_vars(SendReport) /\ WF_vars(handleInstruction) /\ WF_vars(ReportDone)
  /\ WF_vars(ValidateTerm) /\ SF_vars(answer.term = term /\ ValidateTerm)
  /\ WF_vars(ReportFails) /\ WF_vars(LateReportLost)
  /\ \A r \in Replicas :
       /\ WF_vars(StepDown(r))
       /\ SF_vars(leading[r] = term /\ \E m \in wire : m.live /\ ReportShard(r, m))

FairSpec == Spec /\ Fairness

-----------------------------------------------------------------------------
(* Properties                                                              *)

\* Every variable has its type, and the client waits for one report at most.
TypeOK ==
  /\ term \in 0 .. MaxTerm /\ leading \in [ Replicas -> 0 .. MaxTerm ]
  /\ issued \in 0 .. MaxInstr /\ seq \in [ Replicas -> 0 .. issued ]
  /\ pending \in [ Replicas -> SUBSET Instruction ]
  /\ wire \subseteq [ live : BOOLEAN, acks : SUBSET InstructAck ]
  /\ client \in { "idle", "waiting", "answered", "handling" }
  /\ Cardinality({ m \in wire : m.live }) = IF client = "waiting" THEN 1 ELSE 0
  /\ pendingAcks \subseteq InstructAck /\ carried \subseteq InstructAck
  /\ answer \in [ term : 0 .. MaxTerm, instructions : SUBSET Instruction ]
  /\ done \subseteq everDone /\ hwm \in 0 .. MaxTerm /\ domains \subseteq Domains
  /\ executed \in Seq(Instruction) /\ restarts \in 0 .. MaxRestarts

Before(i, j) == i.term < j.term \/ (i.term = j.term /\ i.seq < j.seq)

\* One shard process runs instructions strictly in the order of their (term,
\* sequence) tokens, however leaders change, reports fail and answers repeat:
\* none twice, none of a deposed leader after its successor's.
ExecutedInOrder ==
  \A a, b \in DOMAIN executed : a < b => Before(executed[a], executed[b])

\* A replica takes an instruction off its queue only when a shard process has run
\* it, or it was of a deposed leader or of an unknown kind; a restart of the
\* replica is the one other way to lose it.
DroppedOnlyWhenHandled ==
  [][ \A r \in Replicas : \A i \in pending[r] \ pending'[r] :
        \/ restarts' # restarts
        \/ i.id \in everDone \/ i.kind = "unknown" \/ i.term < term ]_vars

\* While a replica is the newest leader, every instruction it has queued is taken
\* off the queue: an ack that a deposed leader swallowed is sent again when the
\* instruction is.
InstructionsSettle ==
  \A r \in Replicas, n \in 1 .. MaxInstr :
    (\E i \in pending[r] : i.id = n)
      ~> (leading[r] # term \/ ~ \E i \in pending[r] : i.id = n)
=============================================================================
