------------------------ MODULE ShardReportsProofs -------------------------
(***************************************************************************)
(* Theorems about ShardReports, for any number of replicas, elections,     *)
(* instructions, reports and restarts: a shard process runs instructions   *)
(* in the order of their tokens, and none is dropped before it is handled. *)
(***************************************************************************)
EXTENDS ShardReports, SequenceTheorems, FiniteSetTheorems, TLAPS

-----------------------------------------------------------------------------
(* The inductive invariant. *)

\* The client waits for one report at most.
LiveOne ==
  LET live == { m \in wire : m.live }
  IN IF client = "waiting" THEN \E m : live = { m } ELSE live = {}

\* The instructions that may still be handled: queued by a replica, or left of
\* the answer in hand.
Left ==
  { i \in Instruction : i \in answer.instructions \/ \E r \in Replicas : i \in pending[r] }

\* The acks that may still reach a replica.
Acks ==
  { a \in InstructAck : a \in pendingAcks \cup carried \/ \E m \in wire : a \in m.acks }

\* A term has one leader, and only that replica has instructions of the term.
OneLeader ==
  /\ \A r \in Replicas : leading[r] <= term
  /\ \A r, q \in Replicas : leading[r] = leading[q] /\ leading[r] # 0 => r = q
  /\ \A r, q \in Replicas : \A i \in pending[r] :
       /\ leading[q] = i.term => q = r
       /\ \A j \in pending[q] : j.term = i.term => q = r

\* No token or mark is ahead of the newest term.
TermsElected ==
  /\ \A i \in Left : i.term <= term
  /\ \A a \in DOMAIN executed : executed[a].term <= hwm
  /\ hwm <= term /\ answer.term <= term

\* A leader's next number is above all of its term's.
NumbersTaken ==
  \A r \in Replicas :
    /\ \A i \in Left : i.term = leading[r] => i.seq <= seq[r]
    /\ \A a \in DOMAIN executed : executed[a].term = leading[r] => executed[a].seq <= seq[r]

\* Ids and tokens name one instruction.
IdsFresh ==
  /\ \A i \in Left : i.id <= issued
  /\ \A a \in Acks : a.id <= issued
  /\ \A i, j \in Left : i.id = j.id \/ (i.term = j.term /\ i.seq = j.seq) => i = j

\* What has not run is numbered after everything of its term that has.
OrderLeft ==
  \A a \in DOMAIN executed, i \in Left :
    i.term = executed[a].term /\ i.id \notin done /\ i.kind # "unknown"
      => executed[a].seq < i.seq

\* An answer leaves nothing out: a queued instruction numbered before one of the
\* answer's is in the answer too, or will not run.
AnswerComplete ==
  \A r \in Replicas : \A j \in pending[r] : \A i \in answer.instructions :
    i.term = j.term /\ j.seq < i.seq
      => j \in answer.instructions \/ j.id \in done \/ j.kind = "unknown" \/ j.term < hwm

\* An ack is of an instruction that has run or need not.
AcksEarned ==
  \A a \in Acks, i \in Left :
    a.id = i.id => i.id \in everDone \/ i.kind = "unknown" \/ i.term < term

IInv ==
  /\ TypeOK /\ LiveOne
  /\ OneLeader /\ TermsElected /\ NumbersTaken /\ IdsFresh
  /\ OrderLeft /\ AnswerComplete /\ ExecutedInOrder
  /\ AcksEarned

-----------------------------------------------------------------------------
(* Types. *)

Report == [ live : BOOLEAN, acks : SUBSET InstructAck ]

LEMMA InitTyped == Init => TypeOK /\ LiveOne
<1> SUFFICES ASSUME Init PROVE TypeOK /\ LiveOne  OBVIOUS
<1> USE BoundsAssumption DEF Init
<1>1. { m \in wire : m.live } = {}  OBVIOUS
<1>2. Cardinality({ m \in wire : m.live }) = 0  BY <1>1, FS_EmptySet
<1>3. executed \in Seq(Instruction)  OBVIOUS
<1>4. answer \in [ term : 0 .. MaxTerm, instructions : SUBSET Instruction ]  BY DEF NoAnswer
<1> QED  BY <1>1, <1>2, <1>3, <1>4 DEF TypeOK, LiveOne

\* LiveOne is what the count in TypeOK says, of a set known to be finite.
LEMMA LiveCounted ==
  ASSUME NEW live, NEW waiting \in BOOLEAN,
         IF waiting THEN \E m : live = { m } ELSE live = {}
  PROVE  Cardinality(live) = IF waiting THEN 1 ELSE 0
BY FS_Singleton, FS_EmptySet

LEMMA LiveStep == TypeOK /\ LiveOne /\ [Next]_vars => LiveOne'
<1> SUFFICES ASSUME TypeOK, LiveOne, [Next]_vars PROVE LiveOne'  OBVIOUS
<1> USE DEF LiveOne
<1>1. CASE UNCHANGED << wire, client >>  BY <1>1
<1>2. ASSUME NEW r \in Replicas, NEW m \in wire, ReportShard(r, m)  PROVE LiveOne'
  <2>1. wire' = wire \ { m }  BY <1>2 DEF ReportShard
  <2>2. CASE m.live
    <3>1. client' = "answered"  BY <1>2, <2>2 DEF ReportShard
    <3>2. m \in { x \in wire : x.live }  BY <2>2
    <3>3. { x \in wire : x.live } = { m }  BY <3>2
    <3> QED  BY <2>1, <3>1, <3>3
  <2>3. CASE ~ m.live
    <3>1. client' = client  BY <1>2, <2>3 DEF ReportShard
    <3>2. { x \in wire' : x.live } = { x \in wire : x.live }  BY <2>1, <2>3
    <3> QED  BY <3>1, <3>2, Zenon
  <2> QED  BY <2>2, <2>3
<1>3. CASE SendReport
  <2> DEFINE m == [ live |-> TRUE, acks |-> pendingAcks ]
  <2>1. { x \in wire : x.live } = {} /\ client' = "waiting" /\ wire' = wire \cup { m }
    BY <1>3 DEF SendReport
  <2>2. { x \in wire' : x.live } = { m }  BY <2>1
  <2> QED  BY <2>1, <2>2
<1>4. CASE ReportFails \/ RestartShard
  <2>1. client' = "idle" /\ wire' = { [ m EXCEPT !.live = FALSE ] : m \in wire }
    BY <1>4 DEF ReportFails, RestartShard
  <2>2. \A m \in wire : ~ [ m EXCEPT !.live = FALSE ].live  BY DEF TypeOK
  <2>3. { x \in wire' : x.live } = {}  BY <2>1, <2>2
  <2> QED  BY <2>1, <2>3
<1>5. CASE LateReportLost
  <2>1. client' = client /\ { x \in wire' : x.live } = { x \in wire : x.live }
    BY <1>5 DEF LateReportLost, shardVars
  <2> QED  BY <2>1, Zenon
<1>6. CASE ValidateTerm \/ handleInstruction \/ ReportDone
  BY <1>6 DEF ValidateTerm, handleInstruction, ReportDone
<1> QED
  BY <1>1, <1>2, <1>3, <1>4, <1>5, <1>6
  DEF Next, vars, coordVars, shardVars, EnqueueInstruction, RestartReplica, Elect, StepDown

\* A step of handleInstruction on the instruction i.
Handles(i) ==
  /\ client = "handling" /\ i \in answer.instructions
  /\ \A j \in answer.instructions : i.seq <= j.seq
  /\ answer' = [ answer EXCEPT !.instructions = @ \ { i } ]
  /\ \/ Refuse(i)
     \/ i.id \notin done /\ ~ Stale(i) /\ i.kind # "unknown" /\ Execute(i)
  /\ UNCHANGED << coordVars, wire, client, carried, restarts >>

LEMMA HandlesOne ==
  ASSUME handleInstruction
  PROVE  \E i : Handles(i)
BY DEF handleInstruction, Handles

LEMMA HandlesTyped ==
  ASSUME TypeOK, NEW i, Handles(i)
  PROVE  TypeOK'
<1>1. i \in Instruction /\ answer' \in [ term : 0 .. MaxTerm, instructions : SUBSET Instruction ]
  BY DEF TypeOK, Handles
<1>2. i.id \in 1 .. MaxInstr /\ i.term \in 0 .. MaxTerm /\ i.domain \in Domains
  BY <1>1, BoundsAssumption DEF Instruction
<1>3. \A o \in Outcome : [ id |-> i.id, outcome |-> o ] \in InstructAck
  BY <1>2 DEF InstructAck
<1>4. pendingAcks' \subseteq InstructAck
  <2>1. \E o \in Outcome : queueAck(i, o)
    BY DEF Handles, Refuse, Duplicate, Execute, Outcome
  <2> QED  BY <1>3, <2>1 DEF queueAck, TypeOK
<1>5. hwm' \in 0 .. MaxTerm
  BY <1>2 DEF Handles, Refuse, Duplicate, Execute, TypeOK
<1>6. /\ domains' \subseteq Domains /\ done' \subseteq everDone'
      /\ executed' \in Seq(Instruction)
  <2>1. CASE Refuse(i)  BY <2>1 DEF Refuse, TypeOK
  <2>2. CASE Execute(i) /\ i.kind # "unknown"
    <3>1. i.kind \in { "AssignDomain", "UnassignDomain", "other" }
      BY <1>1, <2>2, KindsAssumption DEF Instruction
    <3>2. Effect(i) \subseteq Domains  BY <1>2, <3>1 DEF Effect, TypeOK
    <3> QED  BY <1>1, <2>2, <3>2 DEF Execute, TypeOK
  <2> QED  BY <2>1, <2>2 DEF Handles
<1> QED  BY <1>1, <1>4, <1>5, <1>6 DEF Handles, coordVars, TypeOK

LEMMA TypeStep == TypeOK /\ LiveOne /\ [Next]_vars => TypeOK'
<1> SUFFICES ASSUME TypeOK, LiveOne, [Next]_vars PROVE TypeOK'  OBVIOUS
<1> USE BoundsAssumption DEF coordVars, shardVars
<1>1. Cardinality({ m \in wire' : m.live }) = IF client' = "waiting" THEN 1 ELSE 0
  <2>1. IF client' = "waiting" THEN \E m : { x \in wire' : x.live } = { m }
                               ELSE { x \in wire' : x.live } = {}
    BY LiveStep DEF LiveOne
  <2> QED  BY <2>1, LiveCounted
<1>2. ASSUME NEW r \in Replicas, NEW k \in Kinds, NEW d \in Domains,
             EnqueueInstruction(r, k, d)
      PROVE  TypeOK'
  <2> DEFINE new == [ id |-> issued + 1, term |-> leading[r], seq |-> seq[r] + 1,
                      kind |-> k, domain |-> d ]
  <2>1. issued' = issued + 1 /\ issued < MaxInstr /\ leading[r] \in 1 .. MaxTerm
    BY <1>2 DEF EnqueueInstruction, IsLeader, TypeOK
  <2>2. new \in Instruction
    <3>1. issued + 1 \in 1 .. MaxInstr /\ seq[r] + 1 \in 1 .. MaxInstr  BY <2>1 DEF TypeOK
    <3> QED  BY <2>1, <3>1 DEF Instruction
  <2>3. pending' = [ pending EXCEPT ![r] = @ \cup { new } ]  BY <1>2 DEF EnqueueInstruction
  <2> HIDE DEF new
  <2>4. pending' \in [ Replicas -> SUBSET Instruction ]  BY <2>2, <2>3 DEF TypeOK
  <2>5. seq' \in [ Replicas -> 0 .. issued' ]  BY <1>2, <2>1 DEF EnqueueInstruction, TypeOK
  <2> QED  BY <1>1, <1>2, <2>1, <2>4, <2>5 DEF EnqueueInstruction, TypeOK
<1>3. ASSUME NEW r \in Replicas, NEW m \in wire, ReportShard(r, m)  PROVE TypeOK'
  <2>1. pending' \in [ Replicas -> SUBSET Instruction ]
    BY <1>3 DEF ReportShard, clearAcked, TypeOK
  <2>2. client' \in { "idle", "waiting", "answered", "handling" }
    BY <1>3 DEF ReportShard, TypeOK
  <2>3. answer' \in [ term : 0 .. MaxTerm, instructions : SUBSET Instruction ]
    <3>1. { i \in pending[r] : ~ \E a \in m.acks : a.id = i.id } \subseteq Instruction
          /\ leading[r] \in 0 .. MaxTerm
      BY DEF TypeOK
    <3> QED  BY <1>3, <3>1 DEF ReportShard, TypeOK
  <2> QED  BY <1>1, <1>3, <2>1, <2>2, <2>3 DEF ReportShard, TypeOK
<1>4. ASSUME NEW r \in Replicas, RestartReplica(r) \/ Elect(r) \/ StepDown(r)  PROVE TypeOK'
  <2>1. CASE RestartReplica(r)
    <3>1. 0 \in 0 .. issued /\ 0 \in 0 .. MaxTerm /\ restarts + 1 \in 0 .. MaxRestarts
      BY <2>1 DEF RestartReplica, TypeOK
    <3> QED  BY <1>1, <2>1, <3>1 DEF RestartReplica, TypeOK
  <2>2. CASE Elect(r)  BY <1>1, <2>2 DEF Elect, TypeOK
  <2>3. CASE StepDown(r)  BY <1>1, <2>3 DEF StepDown, TypeOK
  <2> QED  BY <1>4, <2>1, <2>2, <2>3
<1>5. CASE SendReport
  <2>1. [ live |-> TRUE, acks |-> pendingAcks ] \in [ live : BOOLEAN, acks : SUBSET InstructAck ]
    BY DEF TypeOK
  <2>2. wire' \subseteq [ live : BOOLEAN, acks : SUBSET InstructAck ]
    BY <1>5, <2>1 DEF SendReport, TypeOK
  <2> QED  BY <1>1, <1>5, <2>2 DEF SendReport, TypeOK
<1>6. CASE ReportFails \/ RestartShard
  <2>1. wire' = { [ m EXCEPT !.live = FALSE ] : m \in wire }
    BY <1>6 DEF ReportFails, RestartShard
  <2>2. wire' \subseteq [ live : BOOLEAN, acks : SUBSET InstructAck ]  BY <2>1 DEF TypeOK
  <2>3. answer' \in [ term : 0 .. MaxTerm, instructions : SUBSET Instruction ]
    BY <1>6 DEF ReportFails, RestartShard, NoAnswer
  <2>4. executed' \in Seq(Instruction)
    <3>1. << >> \in Seq(Instruction)  OBVIOUS
    <3> QED  BY <1>6, <3>1 DEF ReportFails, RestartShard, TypeOK
  <2>5. restarts' \in 0 .. MaxRestarts /\ hwm' \in 0 .. MaxTerm
    BY <1>6 DEF ReportFails, RestartShard, TypeOK
  <2> QED  BY <1>1, <1>6, <2>2, <2>3, <2>4, <2>5 DEF ReportFails, RestartShard, TypeOK
<1>7. CASE LateReportLost
  BY <1>1, <1>7 DEF LateReportLost, TypeOK
<1>8. CASE ValidateTerm \/ ReportDone
  <2>1. answer' \in [ term : 0 .. MaxTerm, instructions : SUBSET Instruction ]
    BY <1>8 DEF ValidateTerm, ReportDone, NoAnswer, TypeOK
  <2>2. hwm' \in 0 .. MaxTerm  BY <1>8 DEF ValidateTerm, ReportDone, TypeOK
  <2> QED  BY <1>1, <1>8, <2>1, <2>2 DEF ValidateTerm, ReportDone, TypeOK
<1>9. CASE handleInstruction
  BY <1>1, <1>9, HandlesOne, HandlesTyped
<1>10. CASE UNCHANGED vars
  BY <1>10 DEF vars, TypeOK
<1> QED
  BY <1>2, <1>3, <1>4, <1>5, <1>6, <1>7, <1>8, <1>9, <1>10 DEF Next

-----------------------------------------------------------------------------
(* What the steps do to the instructions and acks under way. *)

\* No instruction is new, and the answer in hand stays, is given up, or is all
\* that a replica has queued.
NoNew ==
  /\ issued' = issued
  /\ \A r \in Replicas : pending'[r] \subseteq pending[r]
  /\ \/ answer'.instructions \in { answer.instructions, {} }
     \/ \E r \in Replicas : answer'.instructions = pending'[r]

\* Steps that neither make nor handle an instruction nor change leaders.
Quiet ==
  /\ UNCHANGED << term, leading, seq, everDone >> /\ NoNew /\ Acks' \subseteq Acks
  /\ \/ executed' = executed /\ done' = done /\ hwm <= hwm'
     \/ executed' = << >> /\ answer'.instructions = {}
  /\ hwm' <= term /\ answer'.term <= term

LEMMA LeftShrinks ==
  ASSUME NoNew
  PROVE  Left' \subseteq Left
<1> SUFFICES ASSUME NEW i \in Left' PROVE i \in Left  OBVIOUS
<1>1. CASE \E r \in Replicas : i \in pending'[r]
  <2>1. PICK r \in Replicas : i \in pending[r]  BY <1>1 DEF NoNew
  <2> QED  BY <2>1 DEF Left
<1>2. CASE i \in answer'.instructions /\ ~ \E r \in Replicas : i \in pending'[r]
  <2>1. i \in answer.instructions  BY <1>2 DEF NoNew
  <2> QED  BY <2>1 DEF Left
<1> QED  BY <1>1, <1>2 DEF Left

\* Everything under way is accounted for.
LEMMA LeftAll ==
  ASSUME TypeOK
  PROVE  /\ answer.instructions \subseteq Left
         /\ \A r \in Replicas : pending[r] \subseteq Left
         /\ Left \subseteq Instruction
BY DEF TypeOK, Left

LEMMA ReportShardQuiet ==
  ASSUME TypeOK, OneLeader, TermsElected, NEW r \in Replicas, NEW m \in wire, ReportShard(r, m)
  PROVE  Quiet
<1>1. \A q \in Replicas : pending'[q] \subseteq pending[q]
  BY DEF ReportShard, clearAcked, TypeOK
<1>2. \/ answer' = answer
      \/ answer'.instructions = pending'[r] /\ answer'.term = leading[r]
  BY DEF ReportShard, clearAcked, TypeOK
<1>3. answer'.term <= term  BY <1>2 DEF OneLeader, TermsElected
<1>4. NoNew  BY <1>1, <1>2 DEF NoNew, ReportShard
<1>5. Acks' \subseteq Acks  BY DEF ReportShard, Acks
<1>6. hwm' = hwm /\ hwm <= term /\ hwm \in Int  BY DEF ReportShard, TermsElected, TypeOK
<1> QED  BY <1>3, <1>4, <1>5, <1>6 DEF Quiet, ReportShard

LEMMA ClientQuiet ==
  ASSUME TypeOK, TermsElected, BoundsAssumption,
         SendReport \/ ReportFails \/ LateReportLost \/ ValidateTerm \/ ReportDone \/ RestartShard
  PROVE  Quiet
<1>1. NoNew
  BY DEF NoNew, SendReport, ReportFails, LateReportLost, ValidateTerm, ReportDone, RestartShard,
         coordVars, shardVars, NoAnswer
<1>2. Acks' \subseteq Acks
  <2>1. CASE SendReport  BY <2>1 DEF SendReport, Acks
  <2>2. CASE ReportFails \/ RestartShard
    <3>1. \A m \in wire : [ m EXCEPT !.live = FALSE ].acks = m.acks  BY DEF TypeOK
    <3>2. ASSUME NEW n \in wire'  PROVE \E m \in wire : n.acks = m.acks
      <4>1. wire' = { [ m EXCEPT !.live = FALSE ] : m \in wire }
        BY <2>2 DEF ReportFails, RestartShard
      <4>2. PICK m \in wire : n = [ m EXCEPT !.live = FALSE ]  BY <4>1, Zenon
      <4> QED  BY <3>1, <4>2, Zenon
    <3> QED  BY <2>2, <3>2 DEF ReportFails, RestartShard, Acks
  <2>3. CASE LateReportLost  BY <2>3 DEF LateReportLost, shardVars, Acks
  <2>4. CASE ValidateTerm \/ ReportDone  BY <2>4 DEF ValidateTerm, ReportDone, Acks
  <2> QED  BY <2>1, <2>2, <2>3, <2>4
<1>3. hwm \in 0 .. MaxTerm /\ term \in 0 .. MaxTerm /\ answer.term \in 0 .. MaxTerm
      /\ hwm <= term /\ answer.term <= term
  BY DEF TypeOK, TermsElected
<1>4. answer'.term <= term
  BY <1>3 DEF SendReport, ReportFails, LateReportLost, ValidateTerm, ReportDone, RestartShard,
              shardVars, NoAnswer
<1>5. hwm' <= term
  BY <1>3 DEF SendReport, ReportFails, LateReportLost, ValidateTerm, ReportDone, RestartShard,
              shardVars
<1>6. \/ executed' = executed /\ done' = done /\ hwm <= hwm'
      \/ executed' = << >> /\ answer'.instructions = {}
  BY <1>3 DEF SendReport, ReportFails, LateReportLost, ValidateTerm, ReportDone, RestartShard,
              shardVars, NoAnswer
<1>7. UNCHANGED << term, leading, seq, everDone >>
  BY DEF SendReport, ReportFails, LateReportLost, ValidateTerm, ReportDone, RestartShard,
         coordVars, shardVars
<1> QED  BY <1>1, <1>2, <1>4, <1>5, <1>6, <1>7 DEF Quiet

\* What a quiet step keeps.
LEMMA QuietStep ==
  ASSUME IInv, TypeOK', Quiet
  PROVE  /\ OneLeader' /\ TermsElected' /\ NumbersTaken' /\ IdsFresh'
         /\ OrderLeft' /\ AnswerComplete' /\ ExecutedInOrder' /\ AcksEarned'
<1>1. Left' \subseteq Left  BY LeftShrinks DEF Quiet
<1>2. /\ UNCHANGED << term, leading, seq, everDone, issued >> /\ Acks' \subseteq Acks
      /\ \A r \in Replicas : pending'[r] \subseteq pending[r]
      /\ hwm' <= term /\ answer'.term <= term
  BY DEF Quiet, NoNew
<1>3. \/ executed' = executed /\ done' = done /\ hwm <= hwm'
      \/ executed' = << >> /\ answer'.instructions = {} /\ DOMAIN executed' = {}
  BY DEF Quiet
<1>4. OneLeader'  BY <1>2 DEF IInv, OneLeader
<1>5. TermsElected'
  <2>1. \A a \in DOMAIN executed' : executed'[a].term <= hwm'
    <3>1. CASE executed' = executed /\ hwm <= hwm'
      <4> SUFFICES ASSUME NEW a \in DOMAIN executed PROVE executed[a].term <= hwm'
        BY <3>1
      <4>1. executed[a].term \in 1 .. MaxTerm
        <5>1. executed[a] \in Instruction  BY DEF IInv, TypeOK
        <5> QED  BY <5>1 DEF Instruction
      <4>2. executed[a].term <= hwm  BY DEF IInv, TermsElected
      <4>3. hwm \in 0 .. MaxTerm /\ hwm' \in 0 .. MaxTerm  BY DEF IInv, TypeOK
      <4> QED  BY <3>1, <4>1, <4>2, <4>3, BoundsAssumption
    <3> QED  BY <1>3, <3>1
  <2> QED  BY <1>1, <1>2, <2>1 DEF IInv, TermsElected
<1>6. NumbersTaken'  BY <1>1, <1>2, <1>3 DEF IInv, NumbersTaken
<1>7. IdsFresh'  BY <1>1, <1>2 DEF IInv, IdsFresh
<1>8. OrderLeft'  BY <1>1, <1>3 DEF IInv, OrderLeft
<1>9. ExecutedInOrder'  BY <1>3 DEF IInv, ExecutedInOrder
<1>10. AcksEarned'  BY <1>1, <1>2 DEF IInv, AcksEarned
<1>11. AnswerComplete'
  <2> SUFFICES ASSUME NEW r \in Replicas, NEW j \in pending'[r], NEW i \in answer'.instructions,
                      i.term = j.term, j.seq < i.seq
               PROVE  \/ j \in answer'.instructions \/ j.id \in done' \/ j.kind = "unknown"
                      \/ j.term < hwm'
    BY DEF AnswerComplete
  <2>1. CASE answer'.instructions = answer.instructions
    <3>1. \/ j \in answer.instructions \/ j.id \in done \/ j.kind = "unknown" \/ j.term < hwm
      BY <1>2, <2>1 DEF IInv, AnswerComplete
    <3>2. done' = done /\ hwm <= hwm'  BY <1>3
    <3>3. j.term \in 1 .. MaxTerm /\ hwm \in 0 .. MaxTerm /\ hwm' \in 0 .. MaxTerm
      BY DEF IInv, TypeOK, Instruction
    <3> QED  BY <2>1, <3>1, <3>2, <3>3, BoundsAssumption
  <2>2. CASE \E q \in Replicas : answer'.instructions = pending'[q]
    <3>1. PICK q \in Replicas : answer'.instructions = pending'[q]  BY <2>2
    <3>2. i \in pending[q] /\ j \in pending[r]  BY <1>2, <3>1
    <3>3. q = r  BY <3>2 DEF IInv, OneLeader
    <3> QED  BY <3>1, <3>3
  <2> QED  BY <2>1, <2>2 DEF Quiet, NoNew
<1> QED  BY <1>4, <1>5, <1>6, <1>7, <1>8, <1>9, <1>10, <1>11

\* What is said of the instructions that have run and of the answer in hand does
\* not depend on who leads.
LEMMA LeadershipStep ==
  ASSUME IInv, TypeOK', NEW r \in Replicas, RestartReplica(r) \/ Elect(r) \/ StepDown(r)
  PROVE  /\ OneLeader' /\ TermsElected' /\ NumbersTaken' /\ IdsFresh'
         /\ OrderLeft' /\ AnswerComplete' /\ ExecutedInOrder' /\ AcksEarned'
<1> USE BoundsAssumption
<1>1. /\ UNCHANGED << issued, wire, shardVars >>
      /\ \A q \in Replicas : pending'[q] \subseteq pending[q]
      /\ term \in 0 .. MaxTerm /\ term' \in { term, term + 1 }
      /\ leading' = [ leading EXCEPT ![r] = IF term' = term THEN 0 ELSE term + 1 ]
      /\ \A q \in Replicas : q # r \/ term' # term => seq'[q] = seq[q]
  <2>1. /\ term \in 0 .. MaxTerm /\ term # term + 1 /\ pending \in [ Replicas -> SUBSET Instruction ]
        /\ seq \in [ Replicas -> 0 .. issued ]
    BY DEF IInv, TypeOK
  <2>2. CASE RestartReplica(r)  BY <2>1, <2>2 DEF RestartReplica
  <2>3. CASE Elect(r)  BY <2>1, <2>3 DEF Elect
  <2>4. CASE StepDown(r)  BY <2>1, <2>4 DEF StepDown
  <2> QED  BY <2>2, <2>3, <2>4
<1>2. UNCHANGED << client, carried, answer, pendingAcks, done, hwm, domains, executed, everDone >>
  BY <1>1 DEF shardVars
<1>3. NoNew /\ Left' \subseteq Left
  <2>1. NoNew  BY <1>1, <1>2 DEF NoNew
  <2> QED  BY <2>1, LeftShrinks
<1>4. Acks' = Acks  BY <1>1, <1>2 DEF Acks
<1>5. /\ \A i \in Left : i.term \in 1 .. MaxTerm /\ i.term <= term
      /\ \A q \in Replicas : \A i \in pending[q] : i \in Left
      /\ \A a \in DOMAIN executed : executed[a].term \in 1 .. MaxTerm /\ executed[a].term <= term
  <2>1. \A i \in Instruction : i.term \in 1 .. MaxTerm  BY DEF Instruction
  <2>2. \A a \in DOMAIN executed : executed[a] \in Instruction  BY DEF IInv, TypeOK
  <2>3. \A a \in DOMAIN executed : executed[a].term <= hwm /\ hwm <= term
    BY DEF IInv, TermsElected
  <2>4. hwm \in 0 .. MaxTerm  BY DEF IInv, TypeOK
  <2> QED  BY <1>1, <2>1, <2>2, <2>3, <2>4, LeftAll DEF IInv, TermsElected
<1>6. \A q \in Replicas : leading[q] \in 0 .. MaxTerm /\ leading[q] <= term
  BY DEF IInv, TypeOK, OneLeader
<1>7. \A q \in Replicas : leading'[q] = IF q # r THEN leading[q]
                                        ELSE IF term' = term THEN 0 ELSE term + 1
  BY <1>1 DEF IInv, TypeOK
<1>8. OneLeader'
  <2>1. \A q \in Replicas : leading'[q] <= term'  BY <1>1, <1>6, <1>7
  <2>2. ASSUME NEW p \in Replicas, NEW q \in Replicas, leading'[p] = leading'[q], leading'[p] # 0
        PROVE  p = q
    <3>1. leading[p] = leading[q] /\ leading[p] # 0 => p = q  BY DEF IInv, OneLeader
    <3> QED  BY <1>1, <1>6, <1>7, <2>2, <3>1
  <2>3. ASSUME NEW p \in Replicas, NEW q \in Replicas, NEW i \in pending'[p]
        PROVE  /\ leading'[q] = i.term => q = p
               /\ \A j \in pending'[q] : j.term = i.term => q = p
    <3>1. i \in pending[p] /\ pending'[q] \subseteq pending[q]  BY <1>1
    <3>2. /\ leading[q] = i.term => q = p
          /\ \A j \in pending[q] : j.term = i.term => q = p
      BY <3>1 DEF IInv, OneLeader
    <3>3. i.term \in 1 .. MaxTerm /\ i.term <= term  BY <1>5, <3>1
    <3>4. leading'[q] = i.term => q = p  BY <1>1, <1>7, <3>2, <3>3
    <3> QED  BY <3>1, <3>2, <3>4
  <2> QED  BY <2>1, <2>2, <2>3 DEF OneLeader
<1>9. TermsElected'
  <2>1. \A n \in 0 .. MaxTerm : n <= term => n <= term'  BY <1>1
  <2>2. hwm \in 0 .. MaxTerm /\ answer.term \in 0 .. MaxTerm  BY DEF IInv, TypeOK
  <2> QED  BY <1>2, <1>3, <1>5, <2>1, <2>2 DEF IInv, TermsElected
<1>10. NumbersTaken'
  <2> SUFFICES ASSUME NEW q \in Replicas
               PROVE  /\ \A i \in Left : i.term = leading'[q] => i.seq <= seq'[q]
                      /\ \A a \in DOMAIN executed :
                           executed[a].term = leading'[q] => executed[a].seq <= seq'[q]
    BY <1>2, <1>3 DEF NumbersTaken
  <2>1. CASE q = r
    <3>1. leading'[q] = 0 \/ leading'[q] = term + 1  BY <1>7, <2>1
    <3> QED  BY <1>1, <1>5, <3>1
  <2>2. CASE q # r
    <3>1. leading'[q] = leading[q] /\ seq'[q] = seq[q]  BY <1>1, <1>7, <2>2
    <3> QED  BY <3>1 DEF IInv, NumbersTaken
  <2> QED  BY <2>1, <2>2
<1>11. IdsFresh'  BY <1>1, <1>3, <1>4 DEF IInv, IdsFresh
<1>12. OrderLeft' /\ ExecutedInOrder'
  BY <1>2, <1>3 DEF IInv, OrderLeft, ExecutedInOrder
<1>13. AnswerComplete'  BY <1>1, <1>2 DEF IInv, AnswerComplete
<1>14. AcksEarned'
  <2> SUFFICES ASSUME NEW a \in Acks, NEW i \in Left, a.id = i.id
               PROVE  i.id \in everDone \/ i.kind = "unknown" \/ i.term < term'
    BY <1>2, <1>3, <1>4 DEF AcksEarned
  <2>1. i.id \in everDone \/ i.kind = "unknown" \/ i.term < term  BY DEF IInv, AcksEarned
  <2> QED  BY <1>1, <1>5, <2>1
<1> QED  BY <1>8, <1>9, <1>10, <1>11, <1>12, <1>13, <1>14

LEMMA EnqueueStep ==
  ASSUME IInv, TypeOK', NEW r \in Replicas, NEW k \in Kinds, NEW d \in Domains,
         EnqueueInstruction(r, k, d)
  PROVE  /\ OneLeader' /\ TermsElected' /\ NumbersTaken' /\ IdsFresh'
         /\ OrderLeft' /\ AnswerComplete' /\ ExecutedInOrder' /\ AcksEarned'
<1> DEFINE new == [ id |-> issued + 1, term |-> leading[r], seq |-> seq[r] + 1,
                    kind |-> k, domain |-> d ]
<1> USE BoundsAssumption
<1>1. /\ UNCHANGED << term, leading, wire, client, carried, answer, pendingAcks, done, hwm,
                      executed, everDone >>
      /\ issued' = issued + 1 /\ leading[r] # 0
      /\ seq' = [ seq EXCEPT ![r] = @ + 1 ]
      /\ pending' = [ pending EXCEPT ![r] = @ \cup { new } ]
  BY DEF EnqueueInstruction, IsLeader, shardVars
<1>2. /\ new.id = issued + 1 /\ new.term = leading[r] /\ new.seq = seq[r] + 1
      /\ issued \in 0 .. MaxInstr /\ seq \in [ Replicas -> 0 .. issued ]
      /\ pending \in [ Replicas -> SUBSET Instruction ] /\ leading \in [ Replicas -> 0 .. MaxTerm ]
  BY DEF IInv, TypeOK
<1> HIDE DEF new
<1>3. \A q \in Replicas : /\ pending'[q] = IF q = r THEN pending[q] \cup { new } ELSE pending[q]
                          /\ seq'[q] = IF q = r THEN seq[q] + 1 ELSE seq[q]
  BY <1>1, <1>2
<1>4. Left' \subseteq Left \cup { new }  BY <1>1, <1>3 DEF Left
<1>5. Acks' = Acks  BY <1>1 DEF Acks
<1>6. \A i \in Left : /\ i.term \in 1 .. MaxTerm /\ i.seq \in 1 .. MaxInstr
                      /\ i.id \in 1 .. MaxInstr /\ i.id <= issued
                      /\ i.term = leading[r] => i.seq <= seq[r]
  BY LeftAll DEF IInv, Instruction, IdsFresh, NumbersTaken
<1>7. \A a \in DOMAIN executed : executed[a].term = leading[r] => executed[a].seq <= seq[r]
  BY DEF IInv, NumbersTaken
<1>8. \A a \in DOMAIN executed : executed[a].seq \in 1 .. MaxInstr
  <2>1. \A a \in DOMAIN executed : executed[a] \in Instruction  BY DEF IInv, TypeOK
  <2> QED  BY <2>1 DEF Instruction
<1>9. OneLeader'
  <2>1. ASSUME NEW p \in Replicas, NEW q \in Replicas, NEW i \in pending'[p]
        PROVE  /\ leading[q] = i.term => q = p
               /\ \A j \in pending'[q] : j.term = i.term => q = p
    <3>1. i \in pending[p] \/ (p = r /\ i = new)  BY <1>3
    <3>2. leading[q] = i.term => q = p
      BY <1>1, <1>2, <3>1 DEF IInv, OneLeader
    <3>3. ASSUME NEW j \in pending'[q], j.term = i.term  PROVE q = p
      <4>1. j \in pending[q] \/ (q = r /\ j = new)  BY <1>3
      <4> QED  BY <1>1, <1>2, <3>1, <3>2, <3>3, <4>1 DEF IInv, OneLeader
    <3> QED  BY <3>2, <3>3
  <2> QED  BY <1>1, <2>1 DEF IInv, OneLeader
<1>10. TermsElected'
  BY <1>1, <1>2, <1>4 DEF IInv, TermsElected, OneLeader
<1>11. NumbersTaken'
  <2> SUFFICES ASSUME NEW q \in Replicas
               PROVE  /\ \A i \in Left' : i.term = leading[q] => i.seq <= seq'[q]
                      /\ \A a \in DOMAIN executed :
                           executed[a].term = leading[q] => executed[a].seq <= seq'[q]
    BY <1>1 DEF NumbersTaken
  <2>1. \A i \in Left : i.term = leading[q] => i.seq <= seq[q]  BY DEF IInv, NumbersTaken
  <2>2. \A a \in DOMAIN executed : executed[a].term = leading[q] => executed[a].seq <= seq[q]
    BY DEF IInv, NumbersTaken
  <2>3. leading[q] = leading[r] => q = r  BY <1>1 DEF IInv, OneLeader
  <2>4. seq[q] \in Nat  BY <1>2
  <2>5. seq[q] <= seq'[q] /\ seq'[q] \in Nat
    <3>1. seq'[q] = seq[q] + 1 \/ seq'[q] = seq[q]  BY <1>3, Zenon
    <3> QED  BY <2>4, <3>1
  <2>6. ASSUME NEW i \in Left', i.term = leading[q]  PROVE i.seq <= seq'[q]
    <3>1. CASE i \in Left  BY <1>6, <2>1, <2>4, <2>5, <2>6, <3>1
    <3>2. CASE i = new
      <4>1. q = r /\ i.seq = seq[q] + 1  BY <1>2, <2>3, <2>6, <3>2
      <4>2. seq'[q] = seq[q] + 1  BY <1>3, <4>1, Zenon
      <4> QED  BY <2>4, <4>1, <4>2
    <3> QED  BY <1>4, <3>1, <3>2
  <2>7. ASSUME NEW a \in DOMAIN executed, executed[a].term = leading[q]
        PROVE  executed[a].seq <= seq'[q]
    <3>1. executed[a].seq <= seq[q] /\ executed[a].seq \in 1 .. MaxInstr  BY <1>8, <2>2, <2>7
    <3> QED  BY <2>4, <2>5, <3>1
  <2> QED  BY <2>6, <2>7
<1>12. IdsFresh'
  <2>1. \A i \in Left' : i.id <= issued'  BY <1>1, <1>2, <1>4, <1>6
  <2>2. \A a \in Acks' : a.id <= issued'
    <3>1. \A a \in Acks : a.id \in 1 .. MaxInstr /\ a.id <= issued
      BY DEF Acks, InstructAck, IInv, IdsFresh
    <3> QED  BY <1>1, <1>2, <1>5, <3>1
  <2>3. ASSUME NEW i \in Left', NEW j \in Left',
               i.id = j.id \/ (i.term = j.term /\ i.seq = j.seq)
        PROVE  i = j
    <3>1. CASE i \in Left /\ j \in Left  BY <2>3, <3>1 DEF IInv, IdsFresh
    <3>2. CASE i \in Left /\ j = new  BY <1>2, <1>6, <2>3, <3>2
    <3>3. CASE i = new /\ j \in Left  BY <1>2, <1>6, <2>3, <3>3
    <3> QED  BY <1>4, <3>1, <3>2, <3>3
  <2> QED  BY <2>1, <2>2, <2>3 DEF IdsFresh
<1>13. OrderLeft'
  <2> SUFFICES ASSUME NEW a \in DOMAIN executed, NEW i \in Left',
                      i.term = executed[a].term, i.id \notin done, i.kind # "unknown"
               PROVE  executed[a].seq < i.seq
    BY <1>1 DEF OrderLeft
  <2>1. CASE i \in Left  BY <2>1 DEF IInv, OrderLeft
  <2>2. CASE i = new
    <3>1. executed[a].seq <= seq[r]  BY <1>2, <1>7, <2>2
    <3> QED  BY <1>2, <1>8, <2>2, <3>1
  <2> QED  BY <1>4, <2>1, <2>2
<1>14. AnswerComplete'
  <2> SUFFICES ASSUME NEW q \in Replicas, NEW j \in pending'[q], NEW i \in answer.instructions,
                      i.term = j.term, j.seq < i.seq
               PROVE  \/ j \in answer.instructions \/ j.id \in done \/ j.kind = "unknown"
                      \/ j.term < hwm
    BY <1>1 DEF AnswerComplete
  <2>1. CASE j \in pending[q]  BY <2>1 DEF IInv, AnswerComplete
  <2>2. CASE j = new
    <3>1. i \in Left  BY LeftAll DEF IInv
    <3> QED  BY <1>2, <1>6, <2>2, <3>1
  <2> QED  BY <1>3, <2>1, <2>2
<1>15. ExecutedInOrder'  BY <1>1 DEF IInv, ExecutedInOrder
<1>16. AcksEarned'
  <2>1. ASSUME NEW a \in Acks  PROVE a.id # new.id
    <3>1. a.id \in 1 .. MaxInstr /\ a.id <= issued  BY DEF Acks, InstructAck, IInv, IdsFresh
    <3> QED  BY <1>2, <3>1
  <2> QED  BY <1>1, <1>4, <1>5, <2>1 DEF IInv, AcksEarned
<1> QED  BY <1>9, <1>10, <1>11, <1>12, <1>13, <1>14, <1>15, <1>16

\* Running i: everything that has run is before it, and everything of its term
\* that is left to run is numbered after it.
LEMMA ExecuteFits ==
  ASSUME IInv, NEW i, Handles(i), i.id \notin done, ~ Stale(i), i.kind # "unknown"
  PROVE  /\ \A a \in DOMAIN executed : Before(executed[a], i)
         /\ \A j \in Left : j.term = i.term /\ j.id \notin done /\ j.kind # "unknown" /\ j # i
              => i.seq < j.seq
<1>1. i \in Left /\ i \in answer.instructions  BY LeftAll DEF IInv, Handles
<1>2. \A j \in Left : j.term \in 1 .. MaxTerm /\ j.seq \in 1 .. MaxInstr
  BY LeftAll DEF IInv, Instruction
<1>3. hwm \in 0 .. MaxTerm /\ hwm <= i.term
  BY <1>1, <1>2, BoundsAssumption DEF IInv, TypeOK, Stale
<1>4. ASSUME NEW a \in DOMAIN executed  PROVE Before(executed[a], i)
  <2>1. executed[a].term <= hwm  BY DEF IInv, TermsElected
  <2>2. executed[a].term \in 1 .. MaxTerm
    <3>1. executed[a] \in Instruction  BY DEF IInv, TypeOK
    <3> QED  BY <3>1 DEF Instruction
  <2>3. i.term = executed[a].term => executed[a].seq < i.seq
    BY <1>1, Zenon DEF IInv, OrderLeft
  <2> QED  BY <1>1, <1>2, <1>3, <2>1, <2>2, <2>3, BoundsAssumption DEF Before
<1>5. ASSUME NEW j \in Left, j.term = i.term, j.id \notin done, j.kind # "unknown", j # i
      PROVE  i.seq < j.seq
  <2>1. j.seq # i.seq  BY <1>1, <1>5 DEF IInv, IdsFresh
  <2>2. CASE j \in answer.instructions
    <3>1. i.seq <= j.seq  BY <2>2 DEF Handles
    <3> QED  BY <1>1, <1>2, <2>1, <3>1
  <2>3. CASE j \notin answer.instructions
    <3>1. PICK r \in Replicas : j \in pending[r]  BY <2>3 DEF Left
    <3>2. ~ (j.term < hwm)  BY <1>5 DEF Stale
    <3>3. ~ (j.seq < i.seq)
      BY <1>1, <1>5, <2>3, <3>1, <3>2, Zenon DEF IInv, AnswerComplete
    <3> QED  BY <1>1, <1>2, <2>1, <3>3
  <2> QED  BY <2>2, <2>3
<1> QED  BY <1>4, <1>5

LEMMA HandlesStep ==
  ASSUME IInv, TypeOK', NEW i, Handles(i)
  PROVE  /\ OneLeader' /\ TermsElected' /\ NumbersTaken' /\ IdsFresh'
         /\ OrderLeft' /\ AnswerComplete' /\ ExecutedInOrder' /\ AcksEarned'
<1> USE BoundsAssumption
<1>1. /\ UNCHANGED << term, leading, seq, pending, issued, wire, client, carried >>
      /\ i \in answer.instructions /\ answer'.term = answer.term
      /\ answer'.instructions = answer.instructions \ { i }
  BY DEF Handles, coordVars, IInv, TypeOK
<1>2. i \in Left /\ i \in Instruction /\ i.term \in 1 .. MaxTerm /\ i.term <= term
  BY <1>1, LeftAll DEF IInv, Instruction, TermsElected
<1>3. Left' \subseteq Left  BY <1>1 DEF Left
<1>4. \A a \in Acks' : a \in Acks \/ a.id = i.id
  <2>1. \A a \in pendingAcks' : a \in pendingAcks \/ a.id = i.id
    BY DEF Handles, Refuse, Duplicate, Execute, queueAck
  <2> QED  BY <1>1, <2>1 DEF Acks
<1>5. /\ hwm \in 0 .. MaxTerm /\ hwm' \in 0 .. MaxTerm /\ hwm <= hwm' /\ hwm' <= term
      /\ term \in 0 .. MaxTerm
  <2>1. hwm \in 0 .. MaxTerm /\ hwm <= term /\ term \in 0 .. MaxTerm
    BY DEF IInv, TypeOK, TermsElected
  <2>2. hwm' = hwm \/ hwm' = IF i.term > hwm THEN i.term ELSE hwm
    BY DEF Handles, Refuse, Duplicate, Execute
  <2> QED  BY <1>2, <2>1, <2>2
<1>6. \/ /\ executed' = executed /\ done' = done /\ everDone' = everDone
         /\ i.id \in done \/ i.kind = "unknown" \/ i.term < hwm
      \/ /\ executed' = Append(executed, i) /\ done' = done \cup { i.id }
         /\ everDone' = everDone \cup { i.id } /\ i.term <= hwm'
         /\ i.id \notin done /\ ~ Stale(i) /\ i.kind # "unknown"
  <2>1. CASE Refuse(i)  BY <2>1 DEF Refuse, Duplicate, Stale
  <2>2. CASE i.id \notin done /\ ~ Stale(i) /\ i.kind # "unknown" /\ Execute(i)
    <3>1. i.term <= hwm'  BY <1>2, <1>5, <2>2 DEF Execute
    <3> QED  BY <2>2, <3>1 DEF Execute
  <2> QED  BY <2>1, <2>2 DEF Handles
<1>7. executed \in Seq(Instruction) /\ done \subseteq everDone  BY DEF IInv, TypeOK
<1>8. \A a \in DOMAIN executed' :
        \/ a \in DOMAIN executed /\ executed'[a] = executed[a]
        \/ /\ executed' = Append(executed, i) /\ a = Len(executed) + 1 /\ executed'[a] = i
  <2>1. CASE executed' = executed  BY <2>1
  <2>2. CASE executed' = Append(executed, i)
    <3>1. /\ DOMAIN executed' = 1 .. Len(executed) + 1 /\ DOMAIN executed = 1 .. Len(executed)
          /\ \A a \in 1 .. Len(executed) : executed'[a] = executed[a]
          /\ executed'[Len(executed) + 1] = i /\ Len(executed) \in Nat
      BY <1>2, <1>7, <2>2
    <3> QED  BY <2>2, <3>1
  <2> QED  BY <1>6, <2>1, <2>2
<1>9. OneLeader'  BY <1>1 DEF IInv, OneLeader
<1>10. TermsElected'
  <2>1. ASSUME NEW a \in DOMAIN executed'  PROVE executed'[a].term <= hwm'
    <3>1. CASE a \in DOMAIN executed /\ executed'[a] = executed[a]
      <4>1. executed[a] \in Instruction /\ executed[a].term <= hwm
        BY <1>7, <3>1 DEF IInv, TermsElected
      <4>2. executed[a].term \in 1 .. MaxTerm  BY <4>1 DEF Instruction
      <4> QED  BY <1>5, <3>1, <4>1, <4>2
    <3>2. CASE executed' = Append(executed, i) /\ executed'[a] = i
      <4>1. executed' # executed
        <5>1. Len(executed') = Len(executed) + 1 /\ Len(executed) \in Nat
          BY <1>2, <1>7, <3>2
        <5> QED  BY <5>1
      <4> QED  BY <1>6, <3>2, <4>1
    <3> QED  BY <1>8, <3>1, <3>2
  <2> QED  BY <1>1, <1>3, <1>5, <2>1 DEF IInv, TermsElected
<1>11. NumbersTaken'
  <2>1. \A r \in Replicas : i.term = leading[r] => i.seq <= seq[r]
    BY <1>2 DEF IInv, NumbersTaken
  <2> QED  BY <1>1, <1>3, <1>8, <2>1 DEF IInv, NumbersTaken
<1>12. IdsFresh'
  <2>1. i.id <= issued  BY <1>2 DEF IInv, IdsFresh
  <2> QED  BY <1>1, <1>3, <1>4, <2>1 DEF IInv, IdsFresh
<1>13. AcksEarned'
  <2>1. i.id \in everDone' \/ i.kind = "unknown" \/ i.term < term
    BY <1>2, <1>5, <1>6, <1>7 DEF IInv, TermsElected
  <2>2. everDone \subseteq everDone'  BY <1>6
  <2>3. \A j \in Left : j.id = i.id => j = i  BY <1>2 DEF IInv, IdsFresh
  <2> QED  BY <1>1, <1>3, <1>4, <2>1, <2>2, <2>3 DEF IInv, AcksEarned
<1>14. AnswerComplete'
  <2> SUFFICES ASSUME NEW r \in Replicas, NEW j \in pending[r], NEW x \in answer'.instructions,
                      x.term = j.term, j.seq < x.seq
               PROVE  \/ j \in answer'.instructions \/ j.id \in done' \/ j.kind = "unknown"
                      \/ j.term < hwm'
    BY <1>1 DEF AnswerComplete
  <2>1. \/ j \in answer.instructions \/ j.id \in done \/ j.kind = "unknown" \/ j.term < hwm
    BY <1>1 DEF IInv, AnswerComplete
  <2>2. j.term < hwm => j.term < hwm'
    <3>1. j.term \in 1 .. MaxTerm  BY LeftAll DEF IInv, Instruction
    <3> QED  BY <1>5, <3>1
  <2>3. CASE j = i  BY <1>6, <2>2, <2>3
  <2>4. CASE j # i  BY <1>1, <1>6, <2>1, <2>2, <2>4
  <2> QED  BY <2>3, <2>4
<1>15. OrderLeft' /\ ExecutedInOrder'
  <2>1. CASE executed' = executed
    <3>1. done \subseteq done'  BY <1>6
    <3> QED  BY <1>3, <2>1, <3>1 DEF IInv, OrderLeft, ExecutedInOrder
  <2>2. CASE executed' # executed
    <3>1. /\ executed' = Append(executed, i) /\ done' = done \cup { i.id }
          /\ i.id \notin done /\ ~ Stale(i) /\ i.kind # "unknown"
      BY <1>6, <2>2
    <3>2. /\ \A a \in DOMAIN executed : Before(executed[a], i)
          /\ \A j \in Left : j.term = i.term /\ j.id \notin done /\ j.kind # "unknown" /\ j # i
               => i.seq < j.seq
      BY <3>1, ExecuteFits
    <3>3. OrderLeft'
      <4> SUFFICES ASSUME NEW a \in DOMAIN executed', NEW j \in Left',
                          j.term = executed'[a].term, j.id \notin done', j.kind # "unknown"
                   PROVE  executed'[a].seq < j.seq
        BY DEF OrderLeft
      <4>1. j \in Left /\ j.id \notin done /\ j # i  BY <1>3, <3>1
      <4>2. CASE a \in DOMAIN executed /\ executed'[a] = executed[a]
        BY <4>1, <4>2 DEF IInv, OrderLeft
      <4>3. CASE executed'[a] = i  BY <3>2, <4>1, <4>3
      <4> QED  BY <1>8, <4>2, <4>3
    <3>4. ExecutedInOrder'
      <4> SUFFICES ASSUME NEW a \in DOMAIN executed', NEW b \in DOMAIN executed', a < b
                   PROVE  Before(executed'[a], executed'[b])
        BY DEF ExecutedInOrder, Before
      <4>1. DOMAIN executed = 1 .. Len(executed) /\ DOMAIN executed' = 1 .. Len(executed) + 1
            /\ Len(executed) \in Nat
        BY <1>2, <1>7, <3>1
      <4>2. a \in DOMAIN executed /\ executed'[a] = executed[a]
        BY <1>8, <4>1
      <4>3. CASE b \in DOMAIN executed /\ executed'[b] = executed[b]
        BY <4>2, <4>3 DEF IInv, ExecutedInOrder
      <4>4. CASE executed'[b] = i  BY <3>2, <4>2, <4>4
      <4> QED  BY <1>8, <4>3, <4>4
    <3> QED  BY <3>3, <3>4
  <2> QED  BY <2>1, <2>2
<1> QED  BY <1>9, <1>10, <1>11, <1>12, <1>13, <1>14, <1>15

-----------------------------------------------------------------------------

LEMMA InitIInv == Init => IInv
<1> SUFFICES ASSUME Init PROVE IInv  OBVIOUS
<1>1. TypeOK /\ LiveOne  BY InitTyped
<1>2. Left = {} /\ Acks = {}  BY DEF Init, Left, Acks, NoAnswer
<1>3. executed = << >> /\ DOMAIN executed = {}  BY DEF Init
<1>4. OneLeader /\ TermsElected  BY <1>2, <1>3 DEF Init, OneLeader, TermsElected, NoAnswer
<1>5. NumbersTaken /\ IdsFresh /\ OrderLeft /\ ExecutedInOrder /\ AcksEarned
  BY <1>2, <1>3 DEF NumbersTaken, IdsFresh, OrderLeft, ExecutedInOrder, AcksEarned
<1>6. AnswerComplete  BY DEF Init, AnswerComplete
<1> QED  BY <1>1, <1>4, <1>5, <1>6 DEF IInv

LEMMA StepIInv == IInv /\ [Next]_vars => IInv'
<1> SUFFICES ASSUME IInv, [Next]_vars PROVE IInv'  OBVIOUS
<1>1. TypeOK /\ LiveOne /\ TypeOK' /\ LiveOne'  BY TypeStep, LiveStep DEF IInv
<1>2. CASE UNCHANGED vars
  BY <1>1, <1>2 DEF vars, coordVars, shardVars, IInv, Left, Acks, OneLeader, TermsElected,
     NumbersTaken, IdsFresh, OrderLeft, AnswerComplete, ExecutedInOrder, AcksEarned
<1>3. CASE Quiet
  BY <1>1, <1>3, QuietStep DEF IInv
<1>4. ASSUME NEW r \in Replicas, NEW m \in wire, ReportShard(r, m)  PROVE IInv'
  BY <1>3, <1>4, ReportShardQuiet DEF IInv
<1>5. CASE SendReport \/ ReportFails \/ LateReportLost \/ ValidateTerm \/ ReportDone \/ RestartShard
  BY <1>3, <1>5, ClientQuiet, BoundsAssumption DEF IInv
<1>6. ASSUME NEW r \in Replicas, RestartReplica(r) \/ Elect(r) \/ StepDown(r)  PROVE IInv'
  BY <1>1, <1>6, LeadershipStep DEF IInv
<1>7. ASSUME NEW r \in Replicas, NEW k \in Kinds, NEW d \in Domains, EnqueueInstruction(r, k, d)
      PROVE  IInv'
  BY <1>1, <1>7, EnqueueStep DEF IInv
<1>8. CASE handleInstruction
  <2>1. PICK i : Handles(i)  BY <1>8, HandlesOne
  <2> QED  BY <1>1, <2>1, HandlesStep DEF IInv
<1> QED  BY <1>2, <1>4, <1>5, <1>6, <1>7, <1>8 DEF Next

LEMMA InvariantIInv == Spec => []IInv
BY InitIInv, StepIInv, PTL DEF Spec

\* Every variable has its type, and the client waits for one report at most.
THEOREM ReportsTyped == Spec => []TypeOK
<1>1. IInv => TypeOK  BY DEF IInv
<1> QED  BY <1>1, InvariantIInv, PTL

\* A shard process runs instructions strictly in the order of their tokens: the
\* term mark fences the deposed leader's, handledIDs the repeated ones, and an
\* answer holds everything its leader has queued.
THEOREM InstructionsInOrder == Spec => []ExecutedInOrder
<1>1. IInv => ExecutedInOrder  BY DEF IInv
<1> QED  BY <1>1, InvariantIInv, PTL

LEMMA DroppedStep ==
  IInv /\ [Next]_vars
    => [ \A r \in Replicas : \A i \in pending[r] \ pending'[r] :
           \/ restarts' # restarts
           \/ i.id \in everDone \/ i.kind = "unknown" \/ i.term < term ]_vars
<1> SUFFICES ASSUME IInv, Next, NEW r \in Replicas, NEW i \in pending[r] \ pending'[r],
                    restarts' = restarts
             PROVE  i.id \in everDone \/ i.kind = "unknown" \/ i.term < term
  OBVIOUS
<1>1. pending \in [ Replicas -> SUBSET Instruction ] /\ restarts \in 0 .. MaxRestarts
  BY DEF IInv, TypeOK
<1>2. ASSUME NEW q \in Replicas, NEW m \in wire, ReportShard(q, m)
      PROVE  i.id \in everDone \/ i.kind = "unknown" \/ i.term < term
  <2>1. PICK a \in m.acks : a.id = i.id  BY <1>1, <1>2 DEF ReportShard, clearAcked
  <2>2. a \in Acks  BY DEF IInv, TypeOK, Acks
  <2>3. i \in Left  BY LeftAll DEF IInv
  <2> QED  BY <2>1, <2>2, <2>3 DEF IInv, AcksEarned
<1>3. ASSUME NEW q \in Replicas, RestartReplica(q)  PROVE FALSE
  BY <1>1, <1>3 DEF RestartReplica
<1>4. ASSUME NEW q \in Replicas, NEW k \in Kinds, NEW d \in Domains, EnqueueInstruction(q, k, d)
      PROVE  FALSE
  <2>1. pending[r] \subseteq pending'[r]  BY <1>1, <1>4 DEF EnqueueInstruction
  <2> QED  BY <2>1
<1>5. CASE UNCHANGED pending  BY <1>5
<1> QED
  BY <1>2, <1>3, <1>4, <1>5
  DEF Next, Elect, StepDown, SendReport, ReportFails, LateReportLost, ValidateTerm,
      handleInstruction, ReportDone, RestartShard, coordVars

\* clearAcked looks at the ids only, and yet a replica forgets an instruction
\* only when some shard process has run it, or nobody should: every ack under way
\* was earned.
THEOREM InstructionsNotLost == Spec => DroppedOnlyWhenHandled
BY InvariantIInv, DroppedStep, PTL DEF Spec, DroppedOnlyWhenHandled
=============================================================================
