--------------------------- MODULE AuthorityProofs ---------------------------
(***************************************************************************)
(* Theorems about who may speak: the leaders of the coordinator, with the  *)
(* terms of its log, and the incarnations of a shard, with the epochs that *)
(* fence their calls.                                                      *)
(*                                                                         *)
(* Coordinator, for any replicas, shards, clusters and domains, any        *)
(* founding fleet and any number of entries and elections: replicas agree, *)
(* terms grow along the log, and the committed log implements Assignment.  *)
(*                                                                         *)
(* Fencing, for any number of machines, incarnations and calls: epochs     *)
(* grow, calls pass in order, and only overtaken calls are refused.        *)
(***************************************************************************)
EXTENDS Coordinator, Fencing, TLAPS

-----------------------------------------------------------------------------
(* The inductive invariant. *)

\* Every binding is to a registered shard: what makes Restore lose nothing and
\* the read RPC show every assigned domain.
WellFormed(st) ==
  /\ st \in State
  /\ \A c \in Clusters : st.clusterToShard[c] \in st.shards \cup { None }
  /\ \A d \in Domains : st.domainToShard[d] \in st.shards \cup { None }

\* The history of states is the log replayed from the empty state.
Replayed ==
  /\ states[1] = NewState
  /\ \A i \in 1 .. Len(states) : WellFormed(states[i])
  /\ \A i \in 1 .. Len(log) : states[i + 1] = applyCommand(states[i], log[i].cmd)

\* A stored snapshot is that of the state its index names, with the term of the
\* entry at that index.
Faithful(s) ==
  /\ s.index \in 0 .. Len(log)
  /\ s.snap = ToSnapshot(states[s.index + 1])
  /\ s.index > 0 => s.term = log[s.index].term

SnapshotsFaithful ==
  /\ Faithful(archive)
  /\ DOMAIN disk = Replicas /\ \A r \in Replicas : Faithful(disk[r])

\* No entry has a term above the newest elected one.
TermIsTop == \A i \in 1 .. Len(log) : log[i].term <= term

IInv ==
  /\ TypeOK /\ Replayed /\ SnapshotsFaithful
  /\ TermsGrow /\ TermIsTop /\ ReplicasAgree

-----------------------------------------------------------------------------
(* The operators. *)

LEMMA NewStateWellFormed == WellFormed(NewState)
BY DEF WellFormed, NewState, State

\* Commands keep a state well formed: a binding is made to a registered shard
\* only, and a shard that leaves takes what points at it.
LEMMA AddShardWellFormed ==
  ASSUME NEW st, WellFormed(st), NEW s \in Shards
  PROVE  WellFormed(AddShard(st, s))
BY DEF WellFormed, State, AddShard

LEMMA RemoveShardWellFormed ==
  ASSUME NEW st, WellFormed(st), NEW s \in Shards
  PROVE  WellFormed(RemoveShard(st, s))
BY NoneAssumption DEF WellFormed, State, RemoveShard, Without, Known

LEMMA BindClusterWellFormed ==
  ASSUME NEW st, WellFormed(st), NEW c \in Clusters, NEW s \in Shards
  PROVE  WellFormed(BindCluster(st, c, s))
BY DEF WellFormed, State, BindCluster, Known

LEMMA AssignDomainWellFormed ==
  ASSUME NEW st, WellFormed(st), NEW d \in Domains, NEW s \in Shards
  PROVE  WellFormed(AssignDomain(st, d, s))
BY DEF WellFormed, State, AssignDomain, Known

LEMMA UnassignDomainWellFormed ==
  ASSUME NEW st, WellFormed(st), NEW d \in Domains
  PROVE  WellFormed(UnassignDomain(st, d))
BY DEF WellFormed, State, UnassignDomain

\* What a command is, by its kind.
LEMMA CommandKinds ==
  ASSUME NEW cmd \in Command
  PROVE  \/ cmd.kind = "AddShard" /\ cmd.shard \in Shards
         \/ cmd.kind = "RemoveShard" /\ cmd.shard \in Shards
         \/ cmd.kind = "BindCluster" /\ cmd.cluster \in Clusters /\ cmd.shard \in Shards
         \/ cmd.kind = "AssignDomain" /\ cmd.domain \in Domains /\ cmd.shard \in Shards
         \/ cmd.kind = "UnassignDomain" /\ cmd.domain \in Domains
BY DEF Command

LEMMA ApplyCommandCases ==
  ASSUME NEW st, NEW cmd \in Command
  PROVE  /\ cmd.kind = "AddShard" => applyCommand(st, cmd) = AddShard(st, cmd.shard)
         /\ cmd.kind = "RemoveShard" => applyCommand(st, cmd) = RemoveShard(st, cmd.shard)
         /\ cmd.kind = "BindCluster" =>
              applyCommand(st, cmd) = BindCluster(st, cmd.cluster, cmd.shard)
         /\ cmd.kind = "AssignDomain" =>
              applyCommand(st, cmd) = AssignDomain(st, cmd.domain, cmd.shard)
         /\ cmd.kind = "UnassignDomain" =>
              applyCommand(st, cmd) = UnassignDomain(st, cmd.domain)
BY DEF applyCommand

LEMMA ApplyCommandWellFormed ==
  ASSUME NEW st, WellFormed(st), NEW cmd \in Command
  PROVE  WellFormed(applyCommand(st, cmd))
<1>1. CASE cmd.kind = "AddShard" /\ cmd.shard \in Shards
  BY <1>1, ApplyCommandCases, AddShardWellFormed, Zenon
<1>2. CASE cmd.kind = "RemoveShard" /\ cmd.shard \in Shards
  BY <1>2, ApplyCommandCases, RemoveShardWellFormed, Zenon
<1>3. CASE cmd.kind = "BindCluster" /\ cmd.cluster \in Clusters /\ cmd.shard \in Shards
  BY <1>3, ApplyCommandCases, BindClusterWellFormed, Zenon
<1>4. CASE cmd.kind = "AssignDomain" /\ cmd.domain \in Domains /\ cmd.shard \in Shards
  BY <1>4, ApplyCommandCases, AssignDomainWellFormed, Zenon
<1>5. CASE cmd.kind = "UnassignDomain" /\ cmd.domain \in Domains
  BY <1>5, ApplyCommandCases, UnassignDomainWellFormed, Zenon
<1> QED  BY <1>1, <1>2, <1>3, <1>4, <1>5, CommandKinds

\* A heartbeat beside the log changes no assignment.
LEMMA HeartbeatSilent ==
  ASSUME NEW st \in State, NEW s \in Shards
  PROVE  MarkHeartbeat(st, s) = st
<1>1. CASE Known(st, s)
  <2>1. st.shards \cup { s } = st.shards  BY <1>1 DEF Known
  <2> QED  BY <2>1, <1>1 DEF MarkHeartbeat, State
<1> QED  BY <1>1 DEF MarkHeartbeat

\* A list of pairs made from a function gives it back.
LEMMA LookupOfPairs ==
  ASSUME NEW D, NEW f \in [ D -> Shards \cup { None } ], NEW x \in D
  PROVE  Lookup({ << y, f[y] >> : y \in { z \in D : f[z] # None } }, x) = f[x]
<1> DEFINE pairs == { << y, f[y] >> : y \in { z \in D : f[z] # None } }
<1>1. ASSUME NEW p \in pairs, p[1] = x  PROVE p[2] = f[x]
  BY <1>1
<1>2. CASE f[x] = None
  <2>1. ~ \E p \in pairs : p[1] = x  BY <1>2
  <2> QED  BY <2>1, <1>2 DEF Lookup
<1>3. CASE f[x] # None
  <2>1. << x, f[x] >> \in pairs  BY <1>3
  <2>2. \E p \in pairs : p[1] = x  BY <2>1
  <2> HIDE DEF pairs
  <2>3. /\ (CHOOSE p \in pairs : p[1] = x) \in pairs
        /\ (CHOOSE p \in pairs : p[1] = x)[1] = x
    BY <2>2
  <2>4. (CHOOSE p \in pairs : p[1] = x)[2] = f[x]  BY <2>3, <1>1
  <2>5. Lookup(pairs, x) = f[x]  BY <2>2, <2>4 DEF Lookup
  <2> QED  BY <2>5 DEF pairs
<1> QED  BY <1>2, <1>3

\* Restore ignores every error and yet undoes Snapshot on a well-formed state.
LEMMA RestoreUndoesSnapshot ==
  ASSUME NEW st, WellFormed(st)
  PROVE  Restore(ToSnapshot(st)) = st
<1> DEFINE snap == ToSnapshot(st)
<1>1. st \in State  BY DEF WellFormed
<1>2. snap.shards = st.shards  BY DEF ToSnapshot
<1>3. \A c \in Clusters : Lookup(snap.clusterToShard, c) = st.clusterToShard[c]
  BY <1>1, LookupOfPairs DEF ToSnapshot, State
<1>4. \A d \in Domains : Lookup(snap.domainToShard, d) = st.domainToShard[d]
  BY <1>1, LookupOfPairs DEF ToSnapshot, State
<1> HIDE DEF snap
<1>5. Restore(snap).shards = st.shards  BY <1>2 DEF Restore
<1>6. Restore(snap).clusterToShard = st.clusterToShard
  BY <1>1, <1>2, <1>3 DEF Restore, WellFormed, State
<1>7. Restore(snap).domainToShard = st.domainToShard
  BY <1>1, <1>2, <1>4 DEF Restore, WellFormed, State
<1>8. Restore(snap) = [ shards |-> Restore(snap).shards,
                        clusterToShard |-> Restore(snap).clusterToShard,
                        domainToShard |-> Restore(snap).domainToShard ]
  BY DEF Restore
<1>9. st = [ shards |-> st.shards, clusterToShard |-> st.clusterToShard,
             domainToShard |-> st.domainToShard ]
  BY <1>1 DEF State
<1> QED  BY <1>5, <1>6, <1>7, <1>8, <1>9 DEF snap

-----------------------------------------------------------------------------
(* The beginning. *)

LEMMA FoundedWellFormed ==
  ASSUME NEW n \in 0 .. Len(Founding)
  PROVE  WellFormed(Founded(n))
<1>1. \A i \in 1 .. n : Founding[i] \in Shards  BY FoundingAssumption
<1> QED  BY <1>1, NewStateWellFormed DEF Founded, WellFormed, NewState, State

LEMMA FoundingReplayed ==
  /\ Founded(0) = NewState
  /\ \A i \in 1 .. Len(Founding) : Founded(i) = AddShard(Founded(i - 1), Founding[i])
<1>1. { Founding[i] : i \in 1 .. 0 } = {}  OBVIOUS
<1>2. Founded(0) = NewState  BY <1>1 DEF Founded, NewState
<1>3. ASSUME NEW i \in 1 .. Len(Founding)
      PROVE  Founded(i) = AddShard(Founded(i - 1), Founding[i])
  <2>1. { Founding[j] : j \in 1 .. i } = { Founding[j] : j \in 1 .. i - 1 } \cup { Founding[i] }
    BY FoundingAssumption
  <2> QED  BY <2>1 DEF Founded, AddShard, NewState
<1> QED  BY <1>2, <1>3

LEMMA InitIInv == Init => IInv
<1> SUFFICES ASSUME Init PROVE IInv  OBVIOUS
<1> DEFINE L == Len(Founding)
<1>1. /\ L \in Nat /\ DOMAIN Founding = 1 .. L
      /\ \A i \in 1 .. L : Founding[i] \in Shards
  BY FoundingAssumption
<1>2. /\ log \in Seq([ term : 1 .. MaxTerm, cmd : Command ]) /\ Len(log) = L
      /\ \A i \in 1 .. L :
           /\ log[i].term = 1
           /\ log[i].cmd = [ kind |-> "AddShard", shard |-> Founding[i] ]
  <2>1. \A i \in 1 .. L : [ kind |-> "AddShard", shard |-> Founding[i] ] \in Command
    BY <1>1 DEF Command
  <2> QED  BY <1>1, <2>1, BoundAssumption DEF Init
<1>3. /\ states \in Seq(State) /\ Len(states) = L + 1
      /\ \A i \in 1 .. L + 1 : states[i] = Founded(i - 1) /\ WellFormed(states[i])
  <2>1. \A i \in 1 .. L + 1 : WellFormed(Founded(i - 1))  BY <1>1, FoundedWellFormed
  <2>2. \A i \in 1 .. L + 1 : Founded(i - 1) \in State  BY <2>1 DEF WellFormed
  <2> QED  BY <1>1, <2>1, <2>2 DEF Init
<1>4. \A r \in Replicas : fsm[r] = states[L + 1] /\ applied[r] = L
  BY <1>1, <1>3 DEF Init
<1>5. Faithful(NoSnapshot)
  BY <1>1, <1>2, <1>3, FoundingReplayed DEF Faithful, NoSnapshot, EmptySnapshot
<1> HIDE DEF L
<1>6. TypeOK
  <2>1. fsm \in [ Replicas -> State ]
    BY <1>1, <1>3, <1>4, FoundedWellFormed DEF Init, WellFormed, L
  <2>2. applied \in [ Replicas -> 0 .. Len(log) ]  BY <1>1, <1>2 DEF Init, L
  <2>3. \A r \in Replicas : disk[r].index \in 0 .. Len(log)
    BY <1>5 DEF Init, Faithful
  <2>4. term \in 0 .. MaxTerm /\ leading \in [ Replicas -> 0 .. MaxTerm ]
    BY BoundAssumption DEF Init
  <2> QED  BY <1>2, <1>3, <2>1, <2>2, <2>3, <2>4 DEF TypeOK
<1>7. Replayed
  <2>1. \A i \in 1 .. L : states[i + 1] = applyCommand(states[i], log[i].cmd)
    <3> SUFFICES ASSUME NEW i \in 1 .. L
                 PROVE  states[i + 1] = applyCommand(states[i], log[i].cmd)
      OBVIOUS
    <3>1. log[i].cmd \in Command /\ log[i].cmd.kind = "AddShard" /\ log[i].cmd.shard = Founding[i]
      <4>1. log[i].cmd = [ kind |-> "AddShard", shard |-> Founding[i] ]  BY <1>2
      <4>2. Founding[i] \in Shards  BY <1>1 DEF L
      <4> QED  BY <4>1, <4>2 DEF Command
    <3>2. applyCommand(states[i], log[i].cmd) = AddShard(states[i], Founding[i])
      BY <3>1, ApplyCommandCases, Zenon
    <3>3. states[i] = Founded(i - 1) /\ states[i + 1] = Founded(i)  BY <1>1, <1>3
    <3> QED  BY <3>2, <3>3, FoundingReplayed DEF L
  <2>2. states[1] = NewState
    <3>1. 1 \in 1 .. L + 1 /\ 1 - 1 = 0  BY <1>1
    <3>2. states[1] = Founded(0)  BY <1>3, <3>1
    <3> QED  BY <3>2, FoundingReplayed
  <2>3. \A i \in 1 .. Len(states) : WellFormed(states[i])  BY <1>3
  <2>4. \A i \in 1 .. Len(log) : states[i + 1] = applyCommand(states[i], log[i].cmd)
    BY <1>2, <2>1
  <2> QED  BY <2>2, <2>3, <2>4 DEF Replayed
<1>8. SnapshotsFaithful  BY <1>5 DEF Init, SnapshotsFaithful
<1>9. TermsGrow /\ TermIsTop  BY <1>1, <1>2 DEF TermsGrow, TermIsTop, Init
<1>10. ReplicasAgree  BY <1>4 DEF ReplicasAgree
<1> QED  BY <1>6, <1>7, <1>8, <1>9, <1>10 DEF IInv

-----------------------------------------------------------------------------
(* The steps. *)

\* An entry committed in the newest term: the log and the history grow together,
\* and what was said of the entries before it still holds.
Committed(cmd) ==
  /\ log' = Append(log, [ term |-> term, cmd |-> cmd ])
  /\ states' = Append(states, applyCommand(states[Len(states)], cmd))

LEMMA CommitStep ==
  ASSUME IInv, NEW cmd \in Command, NEW r \in Replicas, LeadsNewest(r), Committed(cmd)
  PROVE  /\ log' \in Seq([ term : 1 .. MaxTerm, cmd : Command ])
         /\ states' \in Seq(State) /\ Len(states') = Len(log') + 1
         /\ Len(log') = Len(log) + 1
         /\ \A i \in 1 .. Len(states) : states'[i] = states[i]
         /\ states'[Len(states')] = applyCommand(states[Len(states)], cmd)
         /\ \A i \in 1 .. Len(log) : log'[i] = log[i]
         /\ Replayed' /\ TermsGrow'
         /\ \A i \in 1 .. Len(log') : log'[i].term <= term
         /\ \A s : Faithful(s) => Faithful(s)'
<1> DEFINE st == applyCommand(states[Len(states)], cmd)
           e == [ term |-> term, cmd |-> cmd ]
<1> USE BoundAssumption
<1>1. /\ log \in Seq([ term : 1 .. MaxTerm, cmd : Command ])
      /\ states \in Seq(State) /\ Len(states) = Len(log) + 1 /\ Len(log) \in Nat
  BY DEF IInv, TypeOK
<1>2. term \in 1 .. MaxTerm /\ e \in [ term : 1 .. MaxTerm, cmd : Command ]
  <2>1. leading[r] \in 0 .. MaxTerm  BY DEF IInv, TypeOK
  <2> QED  BY <2>1 DEF LeadsNewest, IsLeader
<1>3. WellFormed(st) /\ st \in State
  <2>1. WellFormed(states[Len(states)])  BY <1>1 DEF IInv, Replayed
  <2> QED  BY <2>1, ApplyCommandWellFormed DEF WellFormed
<1>4. /\ log' \in Seq([ term : 1 .. MaxTerm, cmd : Command ]) /\ Len(log') = Len(log) + 1
      /\ \A i \in 1 .. Len(log) : log'[i] = log[i]
      /\ log'[Len(log) + 1] = e
  <2> HIDE DEF e
  <2> QED  BY <1>1, <1>2 DEF Committed, e
<1>5. /\ states' \in Seq(State) /\ Len(states') = Len(states) + 1
      /\ \A i \in 1 .. Len(states) : states'[i] = states[i]
      /\ states'[Len(states) + 1] = st
  <2> HIDE DEF st
  <2> QED  BY <1>1, <1>3 DEF Committed, st
<1>6. Replayed'
  <2>1. states'[1] = NewState  BY <1>1, <1>5 DEF IInv, Replayed
  <2>2. \A i \in 1 .. Len(states') : WellFormed(states'[i])
    <3> HIDE DEF st
    <3> QED  BY <1>1, <1>3, <1>5 DEF IInv, Replayed
  <2>3. ASSUME NEW i \in 1 .. Len(log')
        PROVE  states'[i + 1] = applyCommand(states'[i], log'[i].cmd)
    <3>1. CASE i \in 1 .. Len(log)
      <4>1. states[i + 1] = applyCommand(states[i], log[i].cmd)
        BY <3>1 DEF IInv, Replayed
      <4>2. i \in 1 .. Len(states) /\ i + 1 \in 1 .. Len(states)  BY <1>1, <3>1
      <4>3. states'[i] = states[i] /\ states'[i + 1] = states[i + 1] /\ log'[i] = log[i]
        BY <1>4, <1>5, <3>1, <4>2
      <4> QED  BY <4>1, <4>3, Zenon
    <3>2. CASE i = Len(log) + 1
      <4>1. i = Len(states)  BY <1>1, <3>2
      <4>2. states'[i + 1] = st /\ states'[i] = states[Len(states)] /\ log'[i].cmd = cmd
        BY <1>1, <1>4, <1>5, <3>2, <4>1
      <4> QED  BY <4>2, Zenon
    <3> QED  BY <1>1, <1>4, <3>1, <3>2
  <2> QED  BY <2>1, <2>2, <2>3 DEF Replayed, WellFormed
<1>7. \A i \in 1 .. Len(log') : log'[i].term <= term
  <2> SUFFICES ASSUME NEW i \in 1 .. Len(log')  PROVE log'[i].term <= term  OBVIOUS
  <2>1. CASE i \in 1 .. Len(log)
    <3>1. log[i].term <= term  BY <2>1 DEF IInv, TermIsTop
    <3> QED  BY <1>4, <2>1, <3>1
  <2>2. CASE i = Len(log) + 1
    <3>1. log'[i].term = term  BY <1>4, <2>2
    <3> QED  BY <1>2, <3>1
  <2> QED  BY <1>1, <1>4, <2>1, <2>2
<1>8. TermsGrow'
  <2> SUFFICES ASSUME NEW i \in 1 .. Len(log'), NEW j \in 1 .. Len(log'), i < j
               PROVE  log'[i].term <= log'[j].term
    BY <1>4 DEF TermsGrow
  <2> HIDE DEF e, st
  <2>0. i \in Nat /\ j \in Nat  BY <1>1, <1>4
  <2>1. CASE j \in 1 .. Len(log)
    <3>1. i \in 1 .. Len(log)  BY <1>1, <2>0, <2>1
    <3>2. TermsGrow /\ DOMAIN log = 1 .. Len(log)  BY <1>1 DEF IInv
    <3>3. log[i].term <= log[j].term  BY <2>1, <3>1, <3>2 DEF TermsGrow
    <3> QED  BY <1>4, <2>1, <3>1, <3>3
  <2>2. CASE j = Len(log) + 1
    <3>1. log'[j].term = term  BY <1>4, <2>2 DEF e
    <3>2. log'[i].term <= term  BY <1>7
    <3> QED  BY <3>1, <3>2
  <2>3. Len(log') = Len(log) + 1 /\ Len(log) \in Nat  BY <1>1, <1>4
  <2>4. j \in 1 .. Len(log) \/ j = Len(log) + 1  BY <2>3
  <2> QED  BY <2>1, <2>2, <2>4
<1>9. ASSUME NEW s, Faithful(s)  PROVE Faithful(s)'
  <2> HIDE DEF e, st
  <2>1. s.index \in 0 .. Len(log) /\ s.index \in Nat  BY <1>1, <1>9 DEF Faithful
  <2>2. s.index + 1 \in 1 .. Len(states) /\ s.index \in 0 .. Len(log')
    BY <1>1, <1>4, <2>1
  <2>3. states'[s.index + 1] = states[s.index + 1]  BY <1>5, <2>2
  <2>4. s.index > 0 => log'[s.index] = log[s.index]  BY <1>1, <1>4, <2>1
  <2> QED  BY <1>9, <2>2, <2>3, <2>4 DEF Faithful
<1> HIDE DEF e, st
<1> QED  BY <1>1, <1>4, <1>5, <1>6, <1>7, <1>8, <1>9 DEF st

\* The entry is committed and applied by the leader, which had everything before it.
LEMMA ApplyStep ==
  ASSUME IInv, NEW r \in Replicas, NEW cmd \in Command, Apply(r, cmd),
         fsm' = [ fsm EXCEPT ![r] = applyCommand(@, cmd) ],
         UNCHANGED << term, leading, disk, archive >>
  PROVE  IInv'
<1>1. Committed(cmd) /\ LeadsNewest(r)  BY DEF Apply, Committed
<1>2. /\ log' \in Seq([ term : 1 .. MaxTerm, cmd : Command ])
      /\ states' \in Seq(State) /\ Len(states') = Len(log') + 1
      /\ Len(log') = Len(log) + 1
      /\ \A i \in 1 .. Len(states) : states'[i] = states[i]
      /\ states'[Len(states')] = applyCommand(states[Len(states)], cmd)
  BY <1>1, CommitStep
<1>3. Replayed' /\ TermsGrow'  BY <1>1, CommitStep
<1>4. \A i \in 1 .. Len(log') : log'[i].term <= term  BY <1>1, CommitStep
<1>5. \A s : Faithful(s) => Faithful(s)'  BY <1>1, CommitStep
<1>6. TermIsTop'  BY <1>4 DEF TermIsTop
<1>7. SnapshotsFaithful'  BY <1>5 DEF IInv, SnapshotsFaithful, Faithful
<1>8. /\ applied[r] = Len(log) /\ applied' = [ applied EXCEPT ![r] = @ + 1 ]
      /\ applied \in [ Replicas -> 0 .. Len(log) ] /\ Len(log) \in Nat
      /\ Len(states) = Len(log) + 1 /\ fsm \in [ Replicas -> State ]
  BY DEF Apply, IInv, TypeOK
<1>9. ReplicasAgree'
  <2> SUFFICES ASSUME NEW q \in Replicas PROVE fsm'[q] = states'[applied'[q] + 1]
    BY DEF ReplicasAgree
  <2>1. fsm[q] = states[applied[q] + 1]  BY DEF IInv, ReplicasAgree
  <2>2. CASE q = r
    <3>1. fsm[r] = states[Len(states)]  BY <1>8, <2>1, <2>2
    <3>2. fsm'[r] = applyCommand(states[Len(states)], cmd)  BY <1>8, <3>1
    <3>3. applied'[r] + 1 = Len(states')  BY <1>2, <1>8
    <3> QED  BY <1>2, <2>2, <3>2, <3>3
  <2>3. CASE q # r
    <3>1. fsm'[q] = fsm[q] /\ applied'[q] = applied[q]  BY <1>8, <2>3
    <3>2. applied[q] + 1 \in 1 .. Len(states)  BY <1>8
    <3> QED  BY <1>2, <2>1, <3>1, <3>2
  <2> QED  BY <2>2, <2>3
<1>10. TypeOK'
  <2>1. applied' \in [ Replicas -> 0 .. Len(log') ]  BY <1>2, <1>8
  <2>2. fsm' \in [ Replicas -> State ]
    <3>1. WellFormed(fsm[r])  BY <1>8 DEF IInv, Replayed, ReplicasAgree
    <3>2. applyCommand(fsm[r], cmd) \in State
      BY <3>1, ApplyCommandWellFormed DEF WellFormed
    <3> QED  BY <1>8, <3>2
  <2>3. \A q \in Replicas : disk'[q].index \in 0 .. Len(log')
    BY <1>7 DEF SnapshotsFaithful, Faithful
  <2> QED  BY <1>2, <2>1, <2>2, <2>3 DEF IInv, TypeOK
<1> QED  BY <1>3, <1>6, <1>7, <1>9, <1>10 DEF IInv

LEMMA ReportUnknownShardStep ==
  ASSUME IInv, NEW r \in Replicas, NEW s \in Shards, ReportUnknownShard(r, s)
  PROVE  IInv'
<1> DEFINE cmd == [ kind |-> "AddShard", shard |-> s ]
<1>1. cmd \in Command /\ cmd.kind = "AddShard" /\ cmd.shard = s  BY DEF Command
<1>2. Apply(r, cmd) /\ UNCHANGED << term, leading, disk, archive >>
  BY DEF ReportUnknownShard
<1> HIDE DEF cmd
<1>3. WellFormed(fsm[r])
  <2>1. fsm[r] = states[applied[r] + 1] /\ applied[r] + 1 \in 1 .. Len(states)
    BY DEF IInv, TypeOK, ReplicasAgree
  <2> QED  BY <2>1 DEF IInv, Replayed
<1>4. AddShard(fsm[r], s) \in State  BY <1>3, AddShardWellFormed DEF WellFormed
<1>5. MarkHeartbeat(AddShard(fsm[r], s), s) = applyCommand(fsm[r], cmd)
  BY <1>1, <1>4, HeartbeatSilent, ApplyCommandCases
<1>6. fsm' = [ fsm EXCEPT ![r] = applyCommand(@, cmd) ]
  BY <1>5, Zenon DEF ReportUnknownShard
<1> QED  BY <1>1, <1>2, <1>6, ApplyStep

LEMMA AdminCommandStep ==
  ASSUME IInv, NEW r \in Replicas, NEW cmd \in Command, AdminCommand(r, cmd)
  PROVE  IInv'
BY ApplyStep DEF AdminCommand

LEMMA ApplyUnansweredStep ==
  ASSUME IInv, NEW r \in Replicas, NEW cmd \in Command, ApplyUnanswered(r, cmd)
  PROVE  IInv'
<1>1. Committed(cmd) /\ LeadsNewest(r)  BY DEF ApplyUnanswered, Committed
<1>2. /\ log' \in Seq([ term : 1 .. MaxTerm, cmd : Command ])
      /\ states' \in Seq(State) /\ Len(states') = Len(log') + 1
      /\ Len(log') = Len(log) + 1
      /\ \A i \in 1 .. Len(states) : states'[i] = states[i]
  BY <1>1, CommitStep
<1>3. Replayed' /\ TermsGrow'  BY <1>1, CommitStep
<1>4. \A i \in 1 .. Len(log') : log'[i].term <= term  BY <1>1, CommitStep
<1>5. \A s : Faithful(s) => Faithful(s)'  BY <1>1, CommitStep
<1>6. TermIsTop'  BY <1>4 DEF TermIsTop, ApplyUnanswered
<1>7. SnapshotsFaithful'
  BY <1>5 DEF IInv, SnapshotsFaithful, Faithful, ApplyUnanswered
<1>8. /\ UNCHANGED << term, leading, fsm, applied, disk, archive >>
      /\ applied \in [ Replicas -> 0 .. Len(log) ] /\ Len(log) \in Nat
      /\ Len(states) = Len(log) + 1
  BY DEF ApplyUnanswered, IInv, TypeOK
<1>9. ReplicasAgree'
  BY <1>2, <1>8 DEF IInv, ReplicasAgree
<1>10. TypeOK'
  <2>1. applied' \in [ Replicas -> 0 .. Len(log') ]  BY <1>2, <1>8
  <2>2. \A q \in Replicas : disk'[q].index \in 0 .. Len(log')
    BY <1>7 DEF SnapshotsFaithful, Faithful
  <2> QED  BY <1>2, <1>8, <2>1, <2>2 DEF IInv, TypeOK
<1> QED  BY <1>3, <1>6, <1>7, <1>9, <1>10 DEF IInv

\* Cutting a sequence keeps the part that is left.
LEMMA CutKeeps ==
  ASSUME NEW S, NEW l \in Seq(S), NEW n \in 1 .. Len(l)
  PROVE  /\ SubSeq(l, 1, n) \in Seq(S) /\ Len(SubSeq(l, 1, n)) = n
         /\ \A i \in 1 .. n : SubSeq(l, 1, n)[i] = l[i]
OBVIOUS

\* The entries of the log have terms of elections.
LEMMA EntryTerms ==
  ASSUME TypeOK
  PROVE  \A i \in 1 .. Len(log) : log[i].term \in 1 .. MaxTerm
<1> DEFINE Entry == [ term : 1 .. MaxTerm, cmd : Command ]
<1>1. \A e \in Entry : e.term \in 1 .. MaxTerm  OBVIOUS
<1>2. log \in Seq(Entry)  BY DEF TypeOK
<1> HIDE DEF Entry
<1>3. \A i \in 1 .. Len(log) : log[i] \in Entry  BY <1>2
<1> QED  BY <1>1, <1>3

\* Steps that leave the log and its history alone.
LEMMA LogKept ==
  ASSUME IInv, UNCHANGED << log, states >>
  PROVE  Replayed' /\ TermsGrow' /\ (\A s : Faithful(s) => Faithful(s)')
BY DEF IInv, Replayed, TermsGrow, Faithful

\* What a replica has applied is a state of the history, and well formed.
LEMMA AppliedState ==
  ASSUME IInv, NEW r \in Replicas
  PROVE  /\ applied[r] \in 0 .. Len(log) /\ Len(log) \in Nat
         /\ applied[r] + 1 \in 1 .. Len(states)
         /\ fsm[r] = states[applied[r] + 1] /\ WellFormed(fsm[r])
BY DEF IInv, TypeOK, Replayed, ReplicasAgree

\* What a stored snapshot restores to is the state its index names.
LEMMA RestoredState ==
  ASSUME IInv, NEW s, Faithful(s)
  PROVE  Restore(s.snap) = states[s.index + 1] /\ Restore(s.snap) \in State
<1>1. s.index + 1 \in 1 .. Len(states)  BY DEF IInv, TypeOK, Faithful
<1>2. WellFormed(states[s.index + 1])  BY <1>1 DEF IInv, Replayed
<1> QED  BY <1>2, RestoreUndoesSnapshot DEF Faithful, WellFormed

LEMMA SnapshotOfFaithful ==
  ASSUME IInv, NEW r \in Replicas
  PROVE  Faithful(SnapshotOf(r))
BY AppliedState DEF Faithful, SnapshotOf

\* A replica stores a faithful snapshot, and the archive stays or becomes one.
LEMMA StoreStep ==
  ASSUME IInv, NEW r \in Replicas, NEW s, Faithful(s),
         disk' = [ disk EXCEPT ![r] = s ],
         archive' = archive \/ archive' = s,
         UNCHANGED << log, states >>
  PROVE  SnapshotsFaithful'
<1>1. /\ Faithful(archive) /\ \A q \in Replicas : Faithful(disk[q])
      /\ DOMAIN disk = Replicas
  BY DEF IInv, SnapshotsFaithful
<1>2. \A q \in Replicas : disk'[q] = s \/ disk'[q] = disk[q]  OBVIOUS
<1>3. Faithful(archive') /\ \A q \in Replicas : Faithful(disk'[q])  BY <1>1, <1>2
<1> QED  BY <1>1, <1>3 DEF SnapshotsFaithful, Faithful

\* Faithful snapshots and replicas of the same log: what is left of the type.
LEMMA TypeKept ==
  ASSUME IInv, UNCHANGED << log, states >>, SnapshotsFaithful',
         term' \in 0 .. MaxTerm, leading' \in [ Replicas -> 0 .. MaxTerm ],
         fsm' \in [ Replicas -> State ], applied' \in [ Replicas -> 0 .. Len(log) ]
  PROVE  TypeOK'
BY DEF IInv, TypeOK, SnapshotsFaithful, Faithful

LEMMA SnapshotStep ==
  ASSUME IInv, NEW r \in Replicas, openLatestSnapshot(r) \/ TakeSnapshot(r)
  PROVE  IInv'
<1>1. /\ disk' = [ disk EXCEPT ![r] = SnapshotOf(r) ]
      /\ UNCHANGED << log, states, term, leading, fsm, applied >>
      /\ archive' = archive \/ archive' = disk'[r]
  BY DEF openLatestSnapshot, TakeSnapshot
<1>2. disk'[r] = SnapshotOf(r)  BY <1>1 DEF IInv, SnapshotsFaithful
<1>3. SnapshotsFaithful'  BY <1>1, <1>2, SnapshotOfFaithful, StoreStep
<1>4. Replayed' /\ TermsGrow'  BY <1>1, LogKept
<1>5. TermIsTop' /\ ReplicasAgree'  BY <1>1 DEF IInv, TermIsTop, ReplicasAgree
<1>6. TypeOK'  BY <1>1, <1>3, TypeKept DEF IInv, TypeOK
<1> QED  BY <1>3, <1>4, <1>5, <1>6 DEF IInv

LEMMA ApplyEntryStep ==
  ASSUME IInv, NEW r \in Replicas, ApplyEntry(r)
  PROVE  IInv'
<1>1. /\ applied[r] < Len(log) /\ UNCHANGED << log, states, term, leading, disk, archive >>
      /\ fsm' = [ fsm EXCEPT ![r] = applyCommand(fsm[r], log[applied[r] + 1].cmd) ]
      /\ applied' = [ applied EXCEPT ![r] = applied[r] + 1 ]
  BY DEF ApplyEntry
<1>2. /\ applied \in [ Replicas -> 0 .. Len(log) ] /\ fsm \in [ Replicas -> State ]
      /\ Len(log) \in Nat /\ Len(states) = Len(log) + 1
  BY DEF IInv, TypeOK
<1>3. applyCommand(fsm[r], log[applied[r] + 1].cmd) = states[applied[r] + 2]
  <2>1. applied[r] + 1 \in 1 .. Len(log)  BY <1>1, <1>2
  <2>2. states[(applied[r] + 1) + 1]
          = applyCommand(states[applied[r] + 1], log[applied[r] + 1].cmd)
    BY <2>1 DEF IInv, Replayed
  <2>3. (applied[r] + 1) + 1 = applied[r] + 2  BY <1>2
  <2> QED  BY <2>2, <2>3, AppliedState
<1>4. states[applied[r] + 2] \in State
  BY <1>1, <1>2 DEF IInv, Replayed, WellFormed
<1>5. applied' \in [ Replicas -> 0 .. Len(log) ] /\ fsm' \in [ Replicas -> State ]
  BY <1>1, <1>2, <1>3, <1>4
<1>6. ReplicasAgree'
  <2> SUFFICES ASSUME NEW q \in Replicas PROVE fsm'[q] = states[applied'[q] + 1]
    BY <1>1 DEF ReplicasAgree
  <2>1. fsm[q] = states[applied[q] + 1]  BY AppliedState
  <2> QED  BY <1>1, <1>2, <1>3, <2>1
<1>7. Replayed' /\ TermsGrow'  BY <1>1, LogKept
<1>8. SnapshotsFaithful' /\ TermIsTop'
  BY <1>1 DEF IInv, SnapshotsFaithful, Faithful, TermIsTop
<1>9. TypeOK'  BY <1>1, <1>5, <1>8, TypeKept DEF IInv, TypeOK
<1> QED  BY <1>6, <1>7, <1>8, <1>9 DEF IInv

\* A replica that takes its state from a faithful snapshot, its own or another's.
LEMMA RestoreStep ==
  ASSUME IInv, NEW r \in Replicas, NEW s, Faithful(s),
         fsm' = [ fsm EXCEPT ![r] = Restore(s.snap) ],
         applied' = [ applied EXCEPT ![r] = s.index ],
         SnapshotsFaithful', leading' \in [ Replicas -> 0 .. MaxTerm ],
         UNCHANGED << log, states, term >>
  PROVE  IInv'
<1>1. /\ applied \in [ Replicas -> 0 .. Len(log) ] /\ fsm \in [ Replicas -> State ]
      /\ term \in 0 .. MaxTerm
  BY DEF IInv, TypeOK
<1>2. s.index \in 0 .. Len(log)  BY DEF Faithful
<1>3. Restore(s.snap) = states[s.index + 1] /\ Restore(s.snap) \in State
  BY RestoredState
<1>4. applied' \in [ Replicas -> 0 .. Len(log) ] /\ fsm' \in [ Replicas -> State ]
  BY <1>1, <1>2, <1>3
<1>5. TypeOK'  BY <1>1, <1>4, TypeKept
<1>6. ReplicasAgree'
  <2> SUFFICES ASSUME NEW q \in Replicas PROVE fsm'[q] = states[applied'[q] + 1]
    BY DEF ReplicasAgree
  <2>1. fsm[q] = states[applied[q] + 1]  BY AppliedState
  <2> QED  BY <1>1, <1>3, <2>1
<1>7. Replayed' /\ TermsGrow'  BY LogKept
<1>8. TermIsTop'  BY DEF IInv, TermIsTop
<1> QED  BY <1>5, <1>6, <1>7, <1>8 DEF IInv

LEMMA InstallSnapshotStep ==
  ASSUME IInv, NEW r \in Replicas, NEW from \in Replicas, InstallSnapshot(r, from)
  PROVE  IInv'
<1>1. Faithful(disk[from])  BY DEF IInv, SnapshotsFaithful
<1>2. SnapshotsFaithful'  BY <1>1, StoreStep DEF InstallSnapshot
<1>3. leading' \in [ Replicas -> 0 .. MaxTerm ]  BY DEF InstallSnapshot, IInv, TypeOK
<1> QED  BY <1>1, <1>2, <1>3, RestoreStep DEF InstallSnapshot

LEMMA RestartStep ==
  ASSUME IInv, NEW r \in Replicas, Restart(r)
  PROVE  IInv'
<1>1. Faithful(disk[r])  BY DEF IInv, SnapshotsFaithful
<1>2. SnapshotsFaithful'  BY DEF Restart, IInv, SnapshotsFaithful, Faithful
<1>3. leading' \in [ Replicas -> 0 .. MaxTerm ]
  BY BoundAssumption DEF Restart, IInv, TypeOK
<1> QED  BY <1>1, <1>2, <1>3, RestoreStep DEF Restart

LEMMA ReportKnownShardStep ==
  ASSUME IInv, NEW r \in Replicas, NEW s \in Shards, ReportKnownShard(r, s)
  PROVE  IInv'
<1>1. fsm[r] \in State /\ fsm \in [ Replicas -> State ]  BY DEF IInv, TypeOK
<1>2. MarkHeartbeat(fsm[r], s) = fsm[r]  BY <1>1, HeartbeatSilent
<1>3. fsm' = fsm  BY <1>1, <1>2 DEF ReportKnownShard
<1> QED
  BY <1>3 DEF ReportKnownShard, IInv, TypeOK, Replayed, SnapshotsFaithful, Faithful,
              TermsGrow, TermIsTop, ReplicasAgree

LEMMA LeadershipStep ==
  ASSUME IInv, NEW r \in Replicas, Elect(r) \/ StepDown(r)
  PROVE  IInv'
<1> USE BoundAssumption
<1>1. /\ UNCHANGED << log, states, fsm, applied, disk, archive >>
      /\ term' \in 0 .. MaxTerm /\ leading' \in [ Replicas -> 0 .. MaxTerm ] /\ term <= term'
  BY DEF Elect, StepDown, IInv, TypeOK
<1>2. TermIsTop'
  <2>1. log \in Seq([ term : 1 .. MaxTerm, cmd : Command ]) /\ term \in 0 .. MaxTerm
    BY DEF IInv, TypeOK
  <2> SUFFICES ASSUME NEW i \in 1 .. Len(log) PROVE log[i].term <= term'
    BY <1>1 DEF TermIsTop
  <2>2. log[i].term \in 1 .. MaxTerm  BY EntryTerms DEF IInv
  <2>3. log[i].term <= term  BY DEF IInv, TermIsTop
  <2> QED  BY <1>1, <2>1, <2>2, <2>3
<1>3. TypeOK'  BY <1>1 DEF IInv, TypeOK
<1> QED  BY <1>1, <1>2, <1>3 DEF IInv, Replayed, SnapshotsFaithful, Faithful, TermsGrow, ReplicasAgree

\* The log is cut to the archive's index, the term to the archive's: no entry
\* left is above it, and every replica is rebuilt from the archive or empty.
LEMMA RestoreSnapshotStep ==
  ASSUME IInv, NEW r \in Replicas, RestoreSnapshot(r)
  PROVE  IInv'
<1> DEFINE n == archive.index
<1> USE BoundAssumption
<1>1. /\ log \in Seq([ term : 1 .. MaxTerm, cmd : Command ]) /\ states \in Seq(State)
      /\ Len(states) = Len(log) + 1 /\ Len(log) \in Nat
  BY DEF IInv, TypeOK
<1>2. n \in 1 .. Len(log) /\ archive.term = log[n].term /\ Faithful(archive)
  BY DEF RestoreSnapshot, IInv, SnapshotsFaithful, Faithful
<1>3. /\ log' = SubSeq(log, 1, n) /\ states' = SubSeq(states, 1, n + 1)
      /\ term' = archive.term /\ leading' = [ x \in Replicas |-> 0 ] /\ archive' = archive
      /\ disk' = [ x \in Replicas |-> IF x = r THEN archive ELSE NoSnapshot ]
      /\ fsm' = [ x \in Replicas |-> IF x = r THEN Restore(archive.snap) ELSE NewState ]
      /\ applied' = [ x \in Replicas |-> IF x = r THEN n ELSE 0 ]
  BY DEF RestoreSnapshot
<1> HIDE DEF n
<1>4. /\ log' \in Seq([ term : 1 .. MaxTerm, cmd : Command ]) /\ Len(log') = n
      /\ \A i \in 1 .. n : log'[i] = log[i]
  BY <1>1, <1>2, <1>3, CutKeeps, Zenon
<1>5. /\ states' \in Seq(State) /\ Len(states') = n + 1
      /\ \A i \in 1 .. n + 1 : states'[i] = states[i]
  <2>1. n + 1 \in 1 .. Len(states)  BY <1>1, <1>2
  <2> QED  BY <1>1, <1>3, <2>1, CutKeeps, Zenon
<1>6. Replayed'
  <2>1. \A i \in 1 .. n + 1 : WellFormed(states'[i])
    <3> SUFFICES ASSUME NEW i \in 1 .. n + 1  PROVE WellFormed(states'[i])  OBVIOUS
    <3>1. i \in 1 .. Len(states)  BY <1>1, <1>2
    <3>2. WellFormed(states[i])  BY <3>1 DEF IInv, Replayed
    <3> QED  BY <1>5, <3>2
  <2>2. ASSUME NEW i \in 1 .. n  PROVE states'[i + 1] = applyCommand(states'[i], log'[i].cmd)
    <3>1. states[i + 1] = applyCommand(states[i], log[i].cmd)
      BY <1>1, <1>2 DEF IInv, Replayed
    <3>2. states'[i] = states[i] /\ states'[i + 1] = states[i + 1] /\ log'[i] = log[i]
      BY <1>2, <1>4, <1>5
    <3> QED  BY <3>1, <3>2, Zenon
  <2>3. states'[1] = NewState
    <3>1. 1 \in 1 .. n + 1  BY <1>1, <1>2
    <3>2. states[1] = NewState  BY DEF IInv, Replayed
    <3> QED  BY <1>5, <3>1, <3>2
  <2> QED  BY <1>4, <1>5, <2>1, <2>2, <2>3 DEF Replayed, WellFormed
<1>7. \A i, j \in 1 .. n : i < j => log[i].term <= log[j].term
  <2>1. TermsGrow /\ DOMAIN log = 1 .. Len(log)  BY <1>1 DEF IInv
  <2>2. \A i \in 1 .. n : i \in DOMAIN log  BY <1>1, <1>2, <2>1
  <2> QED  BY <2>1, <2>2 DEF TermsGrow
<1>8. TermsGrow'  BY <1>4, <1>7 DEF TermsGrow
<1>9. \A i \in 1 .. n : log[i].term <= log[n].term
  <2> SUFFICES ASSUME NEW i \in 1 .. n PROVE log[i].term <= log[n].term  OBVIOUS
  <2>1. log[i].term \in 1 .. MaxTerm /\ log[n].term \in 1 .. MaxTerm
    BY <1>1, <1>2, EntryTerms DEF IInv
  <2>2. CASE i = n  BY <2>1, <2>2
  <2>3. CASE i # n  BY <1>2, <1>7, <2>3
  <2> QED  BY <2>2, <2>3
<1>10. TermIsTop'  BY <1>2, <1>3, <1>4, <1>9 DEF TermIsTop
<1>11. Faithful(archive)' /\ Faithful(NoSnapshot)'
  <2>1. n \in 0 .. n /\ n + 1 \in 1 .. n + 1 /\ 1 \in 1 .. n + 1  BY <1>2
  <2>2. archive.snap = ToSnapshot(states'[n + 1])
    BY <1>2, <1>5, <2>1 DEF Faithful, n
  <2>3. Faithful(archive)'  BY <1>2, <1>3, <1>4, <2>1, <2>2 DEF Faithful, n
  <2>4. Faithful(NoSnapshot)'
    BY <1>2, <1>4, <1>6 DEF Faithful, NoSnapshot, EmptySnapshot, Replayed
  <2> QED  BY <2>3, <2>4
<1>12. SnapshotsFaithful'
  <2>1. DOMAIN disk' = Replicas  BY <1>3
  <2>2. ASSUME NEW q \in Replicas  PROVE Faithful(disk[q])'
    <3>1. CASE q = r
      <4>1. disk'[q] = archive'  BY <1>3, <3>1
      <4> QED  BY <1>11, <4>1 DEF Faithful
    <3>2. CASE q # r
      <4>1. disk'[q] = NoSnapshot  BY <1>3, <3>2
      <4> QED  BY <1>11, <4>1 DEF Faithful
    <3> QED  BY <3>1, <3>2
  <2> QED  BY <1>11, <2>1, <2>2 DEF SnapshotsFaithful
<1>13. Restore(archive.snap) = states'[n + 1] /\ Restore(archive.snap) \in State
  BY <1>2, <1>5, RestoredState DEF n
<1>14. ReplicasAgree'
  <2> SUFFICES ASSUME NEW q \in Replicas PROVE fsm'[q] = states'[applied'[q] + 1]
    BY DEF ReplicasAgree
  <2>1. CASE q = r
    <3>1. fsm'[q] = Restore(archive.snap) /\ applied'[q] = n  BY <1>3, <2>1
    <3> QED  BY <1>13, <3>1
  <2>2. CASE q # r
    <3>1. fsm'[q] = NewState /\ applied'[q] + 1 = 1  BY <1>3, <2>2
    <3> QED  BY <1>6, <3>1 DEF Replayed
  <2> QED  BY <2>1, <2>2
<1>15. TypeOK'
  <2>1. fsm' \in [ Replicas -> State ]
    BY <1>3, <1>13, NewStateWellFormed DEF WellFormed
  <2>2. applied' \in [ Replicas -> 0 .. Len(log') ]  BY <1>2, <1>3, <1>4
  <2>3. leading' \in [ Replicas -> 0 .. MaxTerm ]  BY <1>3
  <2>4. term' \in 0 .. MaxTerm
    <3>1. log[n].term \in 1 .. MaxTerm  BY <1>2, EntryTerms DEF IInv
    <3> QED  BY <1>2, <1>3, <3>1
  <2>5. \A q \in Replicas : disk'[q].index \in 0 .. Len(log')
    BY <1>12 DEF SnapshotsFaithful, Faithful
  <2> QED  BY <1>4, <1>5, <2>1, <2>2, <2>3, <2>4, <2>5 DEF TypeOK
<1> QED  BY <1>6, <1>8, <1>10, <1>12, <1>14, <1>15 DEF IInv

LEMMA StepIInv == IInv /\ [Next]_vars => IInv'
<1> SUFFICES ASSUME IInv, [Next]_vars PROVE IInv'  OBVIOUS
<1>1. CASE UNCHANGED vars
  BY <1>1 DEF vars, IInv, TypeOK, Replayed, SnapshotsFaithful, Faithful, TermsGrow,
              TermIsTop, ReplicasAgree
<1>2. ASSUME NEW r \in Replicas, NEW s \in Shards,
             ReportUnknownShard(r, s) \/ ReportKnownShard(r, s)
      PROVE  IInv'
  BY <1>2, ReportUnknownShardStep, ReportKnownShardStep
<1>3. ASSUME NEW r \in Replicas, NEW cmd \in Command,
             AdminCommand(r, cmd) \/ ApplyUnanswered(r, cmd)
      PROVE  IInv'
  BY <1>3, AdminCommandStep, ApplyUnansweredStep
<1>4. ASSUME NEW r \in Replicas,
             \/ openLatestSnapshot(r) \/ ApplyEntry(r) \/ TakeSnapshot(r) \/ Restart(r)
             \/ Elect(r) \/ StepDown(r) \/ RestoreSnapshot(r)
      PROVE  IInv'
  BY <1>4, SnapshotStep, ApplyEntryStep, RestartStep, LeadershipStep, RestoreSnapshotStep
<1>5. ASSUME NEW r \in Replicas, NEW q \in Replicas, InstallSnapshot(r, q)
      PROVE  IInv'
  BY <1>5, InstallSnapshotStep
<1> QED  BY <1>1, <1>2, <1>3, <1>4, <1>5 DEF Next

LEMMA InvariantIInv == Spec => []IInv
BY InitIInv, StepIInv, PTL DEF Spec

\* However a replica came to have n entries, it has the state that the first n
\* entries make: heartbeats beside the log, Restore's swallowed errors and the
\* archive change no assignment.
THEOREM ReplicasNeverDisagree == Spec => []ReplicasAgree
<1>1. IInv => ReplicasAgree  BY DEF IInv
<1> QED  BY <1>1, InvariantIInv, PTL

\* A node restored from the archive commits at no lower term than its last
\* entry's: RestoreSnapshot seeds CurrentTerm.
THEOREM LogTermsGrow == Spec => []TermsGrow
<1>1. IInv => TermsGrow  BY DEF IInv
<1> QED  BY <1>1, InvariantIInv, PTL

\* Every variable has its type, and no replica has applied more than is committed.
THEOREM CoordinatorTyped == Spec => []TypeOK
<1>1. IInv => TypeOK  BY DEF IInv
<1> QED  BY <1>1, InvariantIInv, PTL

-----------------------------------------------------------------------------
(* The committed log implements Assignment. *)

\* On a well-formed state the read RPC, which goes by the registered shards,
\* shows every assigned domain.
LEMMA OwnershipShown ==
  ASSUME NEW st, WellFormed(st)
  PROVE  Ownership(st) = [ members |-> st.shards, home |-> st.clusterToShard,
                           owner |-> st.domainToShard ]
<1>1. ASSUME NEW d \in Domains
      PROVE  << d, st.domainToShard[d] >> \in ListDomainAssignments(st)
               <=> st.domainToShard[d] # None
  <2>1. CASE st.domainToShard[d] = None
    <3>1. \A s \in st.shards : s # None  BY NoneAssumption DEF WellFormed, State
    <3>2. << d, None >> \notin ListDomainAssignments(st)
      BY <3>1 DEF ListDomainAssignments
    <3> QED  BY <2>1, <3>2
  <2>2. CASE st.domainToShard[d] # None
    <3>1. st.domainToShard[d] \in st.shards  BY <2>2 DEF WellFormed
    <3>2. << d, st.domainToShard[d] >>
            \in DomainsForShard(st, st.domainToShard[d]) \X { st.domainToShard[d] }
      BY DEF DomainsForShard
    <3> QED  BY <2>2, <3>1, <3>2 DEF ListDomainAssignments
  <2> QED  BY <2>1, <2>2
<1>2. [ d \in Domains |-> IF << d, st.domainToShard[d] >> \in ListDomainAssignments(st)
                            THEN st.domainToShard[d] ELSE None ]
        = st.domainToShard
  <2>1. st.domainToShard = [ d \in Domains |-> st.domainToShard[d] ]
    BY DEF WellFormed, State
  <2>2. \A d \in Domains :
          (IF << d, st.domainToShard[d] >> \in ListDomainAssignments(st)
             THEN st.domainToShard[d] ELSE None) = st.domainToShard[d]
    BY <1>1
  <2> QED  BY <2>1, <2>2
<1> QED  BY <1>2 DEF Ownership

\* The mapped variables.
cur  == Ownership(states[Len(states)])
past == { Ownership(states[i]) : i \in DOMAIN states }

\* A command on a well-formed state makes a step of the assignment, or none: the
\* commands the FSM answers with an error, and an assignment repeated, change
\* nothing.
Moves(a, b) ==
  \/ b = a
  \/ \E s \in Shards :
       \/ b = [ a EXCEPT !.members = @ \cup { s } ]
       \/ b = [ members |-> a.members \ { s }, home |-> Abstract!Drop(a.home, s),
                owner |-> Abstract!Drop(a.owner, s) ]
  \/ \E c \in Clusters, s \in Shards :
       s \in a.members /\ a.home[c] = None /\ b = [ a EXCEPT !.home[c] = s ]
  \/ \E d \in Domains :
       \/ b = [ a EXCEPT !.owner[d] = None ]
       \/ \E s \in Shards :
            s \in a.members /\ a.owner[d] = None /\ b = [ a EXCEPT !.owner[d] = s ]

LEMMA CommandMoves ==
  ASSUME NEW st, WellFormed(st), NEW cmd \in Command
  PROVE  Moves(Ownership(st), Ownership(applyCommand(st, cmd)))
<1> DEFINE Shown(x) == [ members |-> x.shards, home |-> x.clusterToShard,
                         owner |-> x.domainToShard ]
<1>1. Ownership(st) = Shown(st)  BY OwnershipShown
<1>2. Ownership(applyCommand(st, cmd)) = Shown(applyCommand(st, cmd))
  BY ApplyCommandWellFormed, OwnershipShown
<1>3. st \in State  BY DEF WellFormed
<1>4. ASSUME NEW s \in Shards  PROVE Moves(Shown(st), Shown(AddShard(st, s)))
  <2>1. Shown(AddShard(st, s)) = [ Shown(st) EXCEPT !.members = @ \cup { s } ]
    BY <1>3 DEF AddShard, State
  <2> HIDE DEF Shown
  <2> QED  BY <2>1 DEF Moves
<1>5. ASSUME NEW s \in Shards  PROVE Moves(Shown(st), Shown(RemoveShard(st, s)))
  <2>1. CASE Known(st, s)
    <3>1. Shown(RemoveShard(st, s))
            = [ members |-> Shown(st).members \ { s },
                home |-> Abstract!Drop(Shown(st).home, s),
                owner |-> Abstract!Drop(Shown(st).owner, s) ]
      BY <2>1 DEF RemoveShard, Without, Abstract!Drop
    <3> HIDE DEF Shown
    <3> QED  BY <3>1 DEF Moves
  <2>2. CASE ~ Known(st, s)
    <3>1. RemoveShard(st, s) = st  BY <2>2 DEF RemoveShard
    <3> QED  BY <3>1 DEF Moves
  <2> QED  BY <2>1, <2>2
<1>6. ASSUME NEW c \in Clusters, NEW s \in Shards
      PROVE  Moves(Shown(st), Shown(BindCluster(st, c, s)))
  <2>1. CASE Known(st, s) /\ st.clusterToShard[c] = None
    <3>1. Shown(BindCluster(st, c, s)) = [ Shown(st) EXCEPT !.home[c] = s ]
      BY <1>3, <2>1 DEF BindCluster, State
    <3>2. s \in Shown(st).members /\ Shown(st).home[c] = None  BY <2>1 DEF Known
    <3> HIDE DEF Shown
    <3> QED  BY <3>1, <3>2 DEF Moves
  <2>2. CASE ~ (Known(st, s) /\ st.clusterToShard[c] = None)
    <3>1. BindCluster(st, c, s) = st  BY <2>2 DEF BindCluster
    <3> QED  BY <3>1 DEF Moves
  <2> QED  BY <2>1, <2>2
<1>7. ASSUME NEW d \in Domains, NEW s \in Shards
      PROVE  Moves(Shown(st), Shown(AssignDomain(st, d, s)))
  <2>1. CASE Known(st, s) /\ st.domainToShard[d] = None
    <3>1. Shown(AssignDomain(st, d, s)) = [ Shown(st) EXCEPT !.owner[d] = s ]
      BY <1>3, <2>1 DEF AssignDomain, State
    <3>2. s \in Shown(st).members /\ Shown(st).owner[d] = None  BY <2>1 DEF Known
    <3> HIDE DEF Shown
    <3> QED  BY <3>1, <3>2 DEF Moves
  <2>2. CASE ~ (Known(st, s) /\ st.domainToShard[d] = None)
    <3>1. AssignDomain(st, d, s) = st  BY <1>3, <2>2 DEF AssignDomain, State
    <3> QED  BY <3>1 DEF Moves
  <2> QED  BY <2>1, <2>2
<1>8. ASSUME NEW d \in Domains  PROVE Moves(Shown(st), Shown(UnassignDomain(st, d)))
  <2>1. Shown(UnassignDomain(st, d)) = [ Shown(st) EXCEPT !.owner[d] = None ]
    BY <1>3 DEF UnassignDomain, State
  <2> HIDE DEF Shown
  <2> QED  BY <2>1 DEF Moves
<1> HIDE DEF Shown
<1> QED
  BY <1>1, <1>2, <1>4, <1>5, <1>6, <1>7, <1>8, CommandKinds, ApplyCommandCases, Zenon

LEMMA InitAssignment == Init => Abstract!Init
<1> SUFFICES ASSUME Init PROVE Abstract!Init  OBVIOUS
<1> DEFINE L == Len(Founding)
<1>1. L \in Nat  BY FoundingAssumption
<1>2. Len(states) = L + 1 /\ DOMAIN states = 1 .. L + 1
      /\ \A i \in 1 .. L + 1 : states[i] = Founded(i - 1)
  BY <1>1 DEF Init
<1>3. cur = Ownership(Founded(L))  BY <1>1, <1>2 DEF cur
<1>4. past = { Ownership(Founded(n)) : n \in 0 .. L }
  <2>1. ASSUME NEW n \in 0 .. L  PROVE Ownership(Founded(n)) \in past
    <3>1. n + 1 \in 1 .. L + 1 /\ (n + 1) - 1 = n  BY <1>1
    <3> QED  BY <1>2, <3>1 DEF past
  <2>2. ASSUME NEW i \in 1 .. L + 1
        PROVE  Ownership(states[i]) \in { Ownership(Founded(n)) : n \in 0 .. L }
    <3>1. i - 1 \in 0 .. L  BY <1>1
    <3> QED  BY <1>2, <3>1
  <2> QED  BY <1>2, <2>1, <2>2 DEF past
<1>5. cur \in { Ownership(Founded(n)) : n \in 0 .. L }
  <2>1. L \in 0 .. L  BY <1>1
  <2> QED  BY <1>3, <2>1
<1> QED  BY <1>4, <1>5, Zenon DEF Abstract!Init, cur, past

\* A committed entry is a step of the assignment or none.
LEMMA CommitMoves ==
  ASSUME IInv, NEW r \in Replicas, NEW cmd \in Command, LeadsNewest(r), Committed(cmd)
  PROVE  Moves(cur, cur') /\ past' = past \cup { cur' } /\ cur \in past
<1> DEFINE n == Len(states)
<1>1. /\ states \in Seq(State) /\ n \in Nat \ { 0 } /\ DOMAIN states = 1 .. n
      /\ WellFormed(states[n])
  BY DEF IInv, TypeOK, Replayed
<1>2. /\ states' \in Seq(State) /\ Len(states') = n + 1 /\ DOMAIN states' = 1 .. n + 1
      /\ \A i \in 1 .. n : states'[i] = states[i]
      /\ states'[n + 1] = applyCommand(states[n], cmd)
  <2>1. /\ states' \in Seq(State) /\ Len(states') = Len(log') + 1
        /\ Len(log') = Len(log) + 1
        /\ \A i \in 1 .. Len(states) : states'[i] = states[i]
        /\ states'[Len(states')] = applyCommand(states[Len(states)], cmd)
    BY CommitStep
  <2>2. Len(states) = Len(log) + 1  BY DEF IInv, TypeOK
  <2> QED  BY <2>1, <2>2
<1> HIDE DEF n
<1>3. cur' = Ownership(applyCommand(states[n], cmd)) /\ cur = Ownership(states[n])
  BY <1>2 DEF cur, n
<1>4. past' = past \cup { cur' }
  <2>1. cur' = Ownership(states'[n + 1])  BY <1>2 DEF cur
  <2>2. past' = { Ownership(states'[i]) : i \in 1 .. n + 1 }  BY <1>2 DEF past
  <2>3. past = { Ownership(states'[i]) : i \in 1 .. n }  BY <1>1, <1>2 DEF past
  <2>4. 1 .. n + 1 = 1 .. n \cup { n + 1 }  BY <1>1
  <2> QED  BY <2>1, <2>2, <2>3, <2>4
<1>5. cur \in past  BY <1>1, <1>3 DEF past
<1> QED  BY <1>1, <1>3, <1>4, <1>5, CommandMoves

\* The same in the words of Assignment.
LEMMA MovesAreSteps ==
  ASSUME Moves(cur, cur'), past' = past \cup { cur' }, cur \in past
  PROVE  [Abstract!Next]_<< cur, past >>
<1> USE DEF Moves, Abstract!Next, Abstract!Join, Abstract!Leave, Abstract!Bind,
            Abstract!Assign, Abstract!Release, Abstract!Become
<1>1. CASE cur' = cur  BY <1>1
<1>2. CASE \E s \in Shards :
             \/ cur' = [ cur EXCEPT !.members = @ \cup { s } ]
             \/ cur' = [ members |-> cur.members \ { s }, home |-> Abstract!Drop(cur.home, s),
                         owner |-> Abstract!Drop(cur.owner, s) ]
  BY <1>2, Zenon DEF cur, past
<1>3. CASE \E c \in Clusters, s \in Shards :
             s \in cur.members /\ cur.home[c] = None /\ cur' = [ cur EXCEPT !.home[c] = s ]
  <2>1. PICK c \in Clusters, s \in Shards :
               s \in cur.members /\ cur.home[c] = None /\ cur' = [ cur EXCEPT !.home[c] = s ]
    BY <1>3, Zenon
  <2>2. Abstract!Bind(c, s)  BY <2>1, Zenon DEF cur, past
  <2> QED  BY <2>2, Zenon
<1>4. CASE \E d \in Domains :
             \/ cur' = [ cur EXCEPT !.owner[d] = None ]
             \/ \E s \in Shards :
                  s \in cur.members /\ cur.owner[d] = None /\ cur' = [ cur EXCEPT !.owner[d] = s ]
  BY <1>4, Zenon DEF cur, past
<1> QED  BY <1>1, <1>2, <1>3, <1>4

\* A disaster restore goes back to a state the coordinator was in.
LEMMA RestoreIsRollback ==
  ASSUME IInv, NEW r \in Replicas, RestoreSnapshot(r)
  PROVE  cur' \in past /\ past' \subseteq past /\ cur' \in past'
<1> DEFINE n == archive.index
<1>1. /\ states \in Seq(State) /\ Len(states) = Len(log) + 1 /\ Len(log) \in Nat
      /\ n \in 1 .. Len(log) /\ states' = SubSeq(states, 1, n + 1)
  BY DEF IInv, TypeOK, SnapshotsFaithful, Faithful, RestoreSnapshot
<1> HIDE DEF n
<1>2. n + 1 \in 1 .. Len(states)  BY <1>1
<1>3. /\ states' \in Seq(State) /\ Len(states') = n + 1
      /\ \A i \in 1 .. n + 1 : states'[i] = states[i]
  BY <1>1, <1>2, CutKeeps, Zenon
<1>4. DOMAIN states' = 1 .. n + 1 /\ DOMAIN states = 1 .. Len(states)  BY <1>1, <1>3
<1>5. cur' = Ownership(states[n + 1])  BY <1>1, <1>3 DEF cur
<1>6. past' = { Ownership(states[i]) : i \in 1 .. n + 1 }  BY <1>3, <1>4 DEF past
<1>7. 1 .. n + 1 \subseteq 1 .. Len(states) /\ n + 1 \in 1 .. n + 1  BY <1>1
<1> QED  BY <1>4, <1>5, <1>6, <1>7 DEF past

LEMMA NextAssignment == IInv /\ [Next]_vars => [Abstract!Next]_<< cur, past >>
<1> SUFFICES ASSUME IInv, [Next]_vars PROVE [Abstract!Next]_<< cur, past >>  OBVIOUS
<1>1. CASE UNCHANGED states  BY <1>1 DEF cur, past
<1>2. ASSUME NEW r \in Replicas, NEW cmd \in Command, LeadsNewest(r), Committed(cmd)
      PROVE  [Abstract!Next]_<< cur, past >>
  BY <1>2, CommitMoves, MovesAreSteps
<1>3. ASSUME NEW r \in Replicas, NEW s \in Shards, ReportUnknownShard(r, s)
      PROVE  [Abstract!Next]_<< cur, past >>
  <2>1. [ kind |-> "AddShard", shard |-> s ] \in Command  BY DEF Command
  <2> QED  BY <1>2, <1>3, <2>1 DEF ReportUnknownShard, Apply, Committed
<1>4. ASSUME NEW r \in Replicas, NEW cmd \in Command,
             AdminCommand(r, cmd) \/ ApplyUnanswered(r, cmd)
      PROVE  [Abstract!Next]_<< cur, past >>
  BY <1>2, <1>4 DEF AdminCommand, ApplyUnanswered, Apply, Committed
<1>5. ASSUME NEW r \in Replicas, RestoreSnapshot(r)
      PROVE  [Abstract!Next]_<< cur, past >>
  <2>1. cur' \in past /\ past' \subseteq past /\ cur' \in past'
    BY <1>5, RestoreIsRollback
  <2> QED  BY <2>1 DEF Abstract!Next, Abstract!Rollback, cur, past
<1> QED
  BY <1>1, <1>3, <1>4, <1>5
  DEF vars, Next, ReportKnownShard, openLatestSnapshot, ApplyEntry, TakeSnapshot, Restart,
      Elect, StepDown, InstallSnapshot

\* The committed log implements the assignment: a domain passes from shard to
\* shard only through UnassignDomain or RemoveShard, BindCluster never rebinds,
\* and RestoreSnapshot returns to a past state.
THEOREM CoordinatorImplementsAssignment == Spec => ImplementsAssignment
<1>1. Spec => [][Abstract!Next]_<< cur, past >>
  BY InvariantIInv, NextAssignment, PTL DEF Spec
<1>2. Spec => Abstract!Init  BY InitAssignment, PTL DEF Spec
<1> QED  BY <1>1, <1>2, PTL DEF ImplementsAssignment, Abstract!Spec, cur, past

-----------------------------------------------------------------------------
(* The inductive invariant. *)

\* Incarnations start one after the other, and one at a time is in LoadEpoch.
StartOrder ==
  /\ \A p \in Procs : proc[p].pc \in { "off", "read", "truncated" } => proc[p].epoch = 0
  /\ \A p \in Procs : proc[p].pc = "up" => proc[p].epoch # 0
  /\ \A p, q \in Procs : p < q /\ proc[q].pc # "off" => proc[p].pc # "off"
  /\ \A p, q \in Procs : Loading(p) /\ p < q => proc[q].pc = "off"
  /\ \A p, q \in Procs : Loading(p) /\ Loading(q) => p = q

\* No epoch handed out is above the file, or above the value that the process
\* which has emptied the file is about to increment.
EpochTop ==
  /\ \A q \in Procs : file # Torn => proc[q].epoch <= file
  /\ \A p, q \in Procs : Loading(p) => proc[q].epoch <= proc[p].prev

\* The calls that are under way or have passed for some machine.
Made == wire \cup UNION { passed[m] : m \in Machines }

\* Every call carries the epoch of the process that made it and a number that
\* this process has taken.
CallsStamped ==
  \A c \in Made :
    /\ c.epoch = proc[c.proc].epoch /\ c.epoch # 0
    /\ c.seq \in 1 .. proc[c.proc].seq

\* No number is used twice.
NumbersFresh ==
  /\ \A c, d \in wire : c.proc = d.proc /\ c.seq = d.seq => c = d
  /\ \A c \in wire, m \in Machines :
       \A d \in passed[m] : ~ (c.proc = d.proc /\ c.seq = d.seq)

\* The mark of a machine is the token of a call that passed, and the highest.
MarkIsTop ==
  \A m \in Machines :
    /\ \A c \in passed[m] : ~ Newer(c, hwm[m])
    /\ hwm[m] # NoMark =>
         \E c \in passed[m] : hwm[m] = [ epoch |-> c.epoch, seq |-> c.seq ]

FencingInv ==
  /\ FencingTypeOK /\ StartOrder /\ EpochTop /\ EpochsGrow
  /\ CallsStamped /\ NumbersFresh /\ MarkIsTop /\ FencedOnlyWhenOvertaken

-----------------------------------------------------------------------------

LEMMA FencingInitInv == FencingInit => FencingInv
<1> SUFFICES ASSUME FencingInit PROVE FencingInv  OBVIOUS
<1> USE BoundsAssumption DEF FencingInit
<1>1. FencingTypeOK  BY DEF FencingTypeOK, NoMark, Token, Procs, Torn
<1>2. StartOrder /\ EpochTop /\ EpochsGrow
  BY DEF StartOrder, EpochTop, EpochsGrow, Loading, Torn, Procs
<1>3. Made = {}  BY DEF Made
<1>4. CallsStamped /\ NumbersFresh /\ MarkIsTop /\ FencedOnlyWhenOvertaken
  BY <1>3 DEF CallsStamped, NumbersFresh, MarkIsTop, FencedOnlyWhenOvertaken, NoMark
<1> QED  BY <1>1, <1>2, <1>4 DEF FencingInv

\* The part of the invariant that speaks of the processes and the file only.
Start == StartOrder /\ EpochTop /\ EpochsGrow

\* What a step of LoadEpoch or a crash does to the processes, one by one.
LEMMA StartLocals ==
  ASSUME FencingTypeOK, NEW p \in Procs
  PROVE  /\ LoadEpoch(p) \/ Crash(p) =>
              \A q \in Procs : /\ proc'[q].seq = proc[q].seq
                               /\ q # p => proc'[q] = proc[q]
         /\ ReadEpoch(p) => /\ proc'[p].pc = "read" /\ proc'[p].prev = file
                            /\ proc'[p].epoch = proc[p].epoch
         /\ ParseFails(p) => proc'[p].pc = "dead" /\ proc'[p].epoch = 0
         /\ Truncate(p) => /\ proc'[p].pc = "truncated" /\ proc'[p].epoch = 0
                           /\ proc'[p].prev = proc[p].prev
         /\ WriteEpoch(p) => /\ proc'[p].pc = "up" /\ proc'[p].prev = proc[p].prev
                             /\ proc'[p].epoch = proc[p].prev + 1
         /\ Crash(p) => proc'[p].pc = "dead" /\ proc'[p].epoch = proc[p].epoch
<1> USE DEF FencingTypeOK, Set
<1>1. ReadEpoch(p) => /\ proc'[p].pc = "read" /\ proc'[p].prev = file
                      /\ proc'[p].epoch = proc[p].epoch /\ proc'[p].seq = proc[p].seq
  BY DEF ReadEpoch
<1>2. ParseFails(p) => /\ proc'[p].pc = "dead" /\ proc'[p].epoch = 0
                       /\ proc'[p].seq = proc[p].seq
  BY DEF ParseFails
<1>3. Truncate(p) => /\ proc'[p].pc = "truncated" /\ proc'[p].epoch = 0
                     /\ proc'[p].prev = proc[p].prev /\ proc'[p].seq = proc[p].seq
  BY DEF Truncate
<1>4. WriteEpoch(p) => /\ proc'[p].pc = "up" /\ proc'[p].prev = proc[p].prev
                       /\ proc'[p].epoch = proc[p].prev + 1 /\ proc'[p].seq = proc[p].seq
  BY DEF WriteEpoch
<1>5. Crash(p) => /\ proc'[p].pc = "dead" /\ proc'[p].epoch = proc[p].epoch
                  /\ proc'[p].seq = proc[p].seq
  BY DEF Crash
<1>6. LoadEpoch(p) \/ Crash(p) => \A q \in Procs \ { p } : proc'[q] = proc[q]
  BY DEF LoadEpoch, ReadEpoch, ParseFails, Truncate, WriteEpoch, Crash
<1> QED  BY <1>1, <1>2, <1>3, <1>4, <1>5, <1>6 DEF LoadEpoch

LEMMA StartTypes ==
  ASSUME FencingTypeOK
  PROVE  /\ file \in Nat \cup { Torn } /\ Torn \notin Nat
         /\ \A q \in Procs : q \in Nat /\ proc[q].epoch \in Nat /\ proc[q].prev \in Nat
BY DEF FencingTypeOK, Procs, Torn

LEMMA StartStep ==
  ASSUME FencingTypeOK, Start, NEW p \in Procs, LoadEpoch(p) \/ Crash(p)
  PROVE  Start' /\ (\A q \in Procs : proc[q].epoch # 0 => proc'[q].epoch = proc[q].epoch)
                /\ (\A q \in Procs : proc'[q].seq = proc[q].seq)
<1>0. \A q \in Procs : /\ proc'[q].seq = proc[q].seq
                       /\ q # p => proc'[q] = proc[q]
  BY StartLocals
<1>t. /\ file \in Nat \cup { Torn } /\ Torn \notin Nat
      /\ \A q \in Procs : q \in Nat /\ proc[q].epoch \in Nat /\ proc[q].prev \in Nat
  BY StartTypes
<1>s. StartOrder /\ EpochTop /\ EpochsGrow  BY DEF Start
<1>1. CASE ReadEpoch(p)
  <2>1. /\ proc[p].pc = "off" /\ proc'[p].pc = "read" /\ proc'[p].prev = file
        /\ proc'[p].epoch = proc[p].epoch /\ file' = file /\ file \in Nat
        /\ \A q \in Procs : ~ Loading(q) /\ (q < p => proc[q].pc # "off")
    BY <1>1, <1>t, StartLocals DEF ReadEpoch
  <2>2. proc[p].epoch = 0  BY <1>s, <2>1 DEF StartOrder
  <2>3. StartOrder'  BY <1>0, <1>t, <1>s, <2>1, <2>2 DEF StartOrder, Loading
  <2>4. EpochTop'  BY <1>0, <1>t, <1>s, <2>1, <2>2 DEF EpochTop, Loading
  <2>5. EpochsGrow'  BY <1>0, <1>s, <2>1, <2>2 DEF EpochsGrow
  <2> QED  BY <1>0, <2>1, <2>3, <2>4, <2>5 DEF Start
<1>2. CASE ParseFails(p)
  <2>1. /\ proc[p].pc = "off" /\ proc'[p].pc = "dead" /\ proc'[p].epoch = 0 /\ file' = file
        /\ \A q \in Procs : ~ Loading(q) /\ (q < p => proc[q].pc # "off")
    BY <1>2, StartLocals DEF ParseFails
  <2>2. proc[p].epoch = 0  BY <1>s, <2>1 DEF StartOrder
  <2>3. StartOrder'  BY <1>0, <1>t, <1>s, <2>1 DEF StartOrder, Loading
  <2>4. EpochTop'  BY <1>0, <1>t, <1>s, <2>1, <2>2 DEF EpochTop, Loading
  <2>5. EpochsGrow'  BY <1>0, <1>s, <2>1 DEF EpochsGrow
  <2> QED  BY <1>0, <2>1, <2>2, <2>3, <2>4, <2>5 DEF Start
<1>3. CASE Truncate(p)
  <2>1. /\ proc[p].pc = "read" /\ proc'[p].pc = "truncated" /\ proc'[p].epoch = 0
        /\ proc'[p].prev = proc[p].prev /\ file' = Torn
    BY <1>3, StartLocals DEF Truncate
  <2>2. proc[p].epoch = 0 /\ Loading(p)  BY <1>s, <1>3, <2>1 DEF StartOrder, Loading, Truncate
  <2>n. Torn' = Torn  BY DEF Torn
  <2>3. StartOrder'  BY <1>0, <1>t, <1>s, <2>1, <2>2 DEF StartOrder, Loading
  <2>4. EpochTop'  BY <1>0, <1>t, <1>s, <2>1, <2>2, <2>n DEF EpochTop, Loading
  <2>5. EpochsGrow'  BY <1>0, <1>s, <2>1 DEF EpochsGrow
  <2> QED  BY <1>0, <2>1, <2>2, <2>3, <2>4, <2>5 DEF Start
<1>4. CASE WriteEpoch(p)
  <2>1. /\ proc[p].pc = "truncated" /\ proc'[p].pc = "up" /\ proc'[p].prev = proc[p].prev
        /\ proc'[p].epoch = proc[p].prev + 1 /\ file' = proc[p].prev + 1
    BY <1>4, StartLocals DEF WriteEpoch
  <2>2. Loading(p) /\ proc[p].epoch = 0  BY <1>s, <2>1 DEF Loading, StartOrder
  <2>3. \A q \in Procs : /\ proc[q].epoch <= proc[p].prev
                         /\ Loading(q) => q = p
                         /\ p < q => proc[q].pc = "off" /\ proc[q].epoch = 0
    BY <1>s, <2>2 DEF EpochTop, StartOrder
  <2>4. StartOrder'  BY <1>0, <1>t, <1>s, <2>1, <2>3 DEF StartOrder, Loading
  <2>5. EpochTop'  BY <1>0, <1>t, <2>1, <2>3 DEF EpochTop, Loading
  <2>6. EpochsGrow'  BY <1>0, <1>t, <1>s, <2>1, <2>3 DEF EpochsGrow
  <2> QED  BY <1>0, <2>1, <2>2, <2>4, <2>5, <2>6 DEF Start
<1>5. CASE Crash(p)
  <2>1. /\ proc[p].pc \in { "read", "truncated", "up" } /\ proc'[p].pc = "dead"
        /\ proc'[p].epoch = proc[p].epoch /\ file' = file
    BY <1>5, StartLocals DEF Crash
  <2>2. \A q \in Procs : proc'[q].epoch = proc[q].epoch  BY <1>0, <2>1
  <2>3. StartOrder'  BY <1>0, <1>t, <1>s, <2>1 DEF StartOrder, Loading
  <2>4. EpochTop'  BY <1>0, <1>s, <2>1, <2>2 DEF EpochTop, Loading
  <2>5. EpochsGrow'  BY <1>s, <2>2 DEF EpochsGrow
  <2> QED  BY <1>0, <2>2, <2>3, <2>4, <2>5 DEF Start
<1> QED  BY <1>1, <1>2, <1>3, <1>4, <1>5 DEF LoadEpoch

\* Steps that leave the epochs and the file alone keep what is said of them.
LEMMA StartKept ==
  ASSUME FencingTypeOK, Start, file' = file, FencingTypeOK',
         \A q \in Procs : /\ proc'[q].pc = proc[q].pc /\ proc'[q].epoch = proc[q].epoch
                          /\ proc'[q].prev = proc[q].prev
  PROVE  Start'
<1> USE BoundsAssumption DEF Start, Loading, Procs, Torn
<1>1. StartOrder'  BY DEF StartOrder
<1>2. EpochTop'  BY DEF EpochTop
<1>3. EpochsGrow'  BY DEF EpochsGrow
<1> QED  BY <1>1, <1>2, <1>3

LEMMA TypeStep ==
  ASSUME FencingTypeOK, [FencingNext]_fencingVars
  PROVE  FencingTypeOK'
<1> USE BoundsAssumption DEF FencingTypeOK, Procs, Torn, Set
<1>1. ASSUME NEW p \in Procs, LoadEpoch(p) \/ Crash(p)  PROVE FencingTypeOK'
  <2> DEFINE Process == [ pc : { "off", "read", "truncated", "up", "dead" },
                          prev : Nat, epoch : Nat, seq : Nat ]
  <2>p. /\ proc \in [ Procs -> Process ] /\ proc[p] \in Process
        /\ proc[p].prev \in Nat /\ proc[p].epoch \in Nat
    OBVIOUS
  <2>u. ASSUME proc' \in [ Procs -> Process ], file' \in Nat \cup { Torn },
               UNCHANGED << wire, hwm, passed, fenced >>
        PROVE  FencingTypeOK'
    BY <2>u
  <2> HIDE DEF FencingTypeOK
  <2>1. CASE ReadEpoch(p)
    <3>1. file \in Nat /\ UNCHANGED << file, wire, hwm, passed, fenced >>
      BY <2>1 DEF ReadEpoch, FencingTypeOK
    <3>2. proc' \in [ Procs -> Process ]  BY <2>1, <2>p, <3>1 DEF ReadEpoch
    <3> QED  BY <2>u, <3>1, <3>2
  <2>s. ASSUME NEW pc \in { "off", "read", "truncated", "up", "dead" }, NEW e \in Nat,
               Set(p, pc, e)
        PROVE  proc' \in [ Procs -> Process ]
    BY <2>p, <2>s
  <2> HIDE DEF Process, Set
  <2>2. CASE ParseFails(p)
    <3>1. proc' \in [ Procs -> Process ]  BY <2>2, <2>s DEF ParseFails
    <3> QED  BY <2>2, <2>u, <3>1 DEF ParseFails
  <2>3. CASE Truncate(p)
    <3>1. proc' \in [ Procs -> Process ]  BY <2>3, <2>s DEF Truncate
    <3> QED  BY <2>3, <2>u, <3>1 DEF Truncate
  <2>4. CASE WriteEpoch(p)
    <3>1. proc[p].prev + 1 \in Nat  BY <2>p
    <3>2. proc' \in [ Procs -> Process ]  BY <2>4, <2>s, <3>1 DEF WriteEpoch
    <3> QED  BY <2>4, <2>u, <3>1, <3>2 DEF WriteEpoch
  <2>5. CASE Crash(p)
    <3>1. proc' \in [ Procs -> Process ]  BY <2>5, <2>p, <2>s DEF Crash
    <3>2. UNCHANGED << file, wire, hwm, passed, fenced >>  BY <2>5 DEF Crash
    <3>3. file \in Nat \cup { Torn }  BY DEF FencingTypeOK
    <3> QED  BY <2>u, <3>1, <3>2, <3>3
  <2> QED  BY <1>1, <2>1, <2>2, <2>3, <2>4, <2>5 DEF LoadEpoch
<1>2. ASSUME NEW p \in Procs, NEW m \in Machines, Send(p, m)  PROVE FencingTypeOK'
  <2>1. proc[p].seq + 1 \in Nat /\ proc[p].epoch \in Nat  OBVIOUS
  <2>2. proc' \in [ Procs -> [ pc : { "off", "read", "truncated", "up", "dead" },
                               prev : Nat, epoch : Nat, seq : Nat ] ]
    BY <1>2, <2>1 DEF Send
  <2>3. wire' \subseteq Call  BY <1>2, <2>1 DEF Send, Call
  <2> QED  BY <1>2, <2>2, <2>3 DEF Send
<1>3. ASSUME NEW c \in wire, Pass(c)  PROVE FencingTypeOK'
  BY <1>3 DEF Pass, Call, Token
<1>4. ASSUME NEW c \in wire, Fence(c)  PROVE FencingTypeOK'
  BY <1>4 DEF Fence, Call
<1>5. ASSUME NEW c \in wire, Lose(c)  PROVE FencingTypeOK'
  BY <1>5 DEF Lose
<1>6. CASE UNCHANGED fencingVars  BY <1>6 DEF fencingVars
<1> QED  BY <1>1, <1>2, <1>3, <1>4, <1>5, <1>6 DEF FencingNext, checkFence

-----------------------------------------------------------------------------

\* The order of tokens is the order in which the calls were made.
LEMMA TokenOrder ==
  ASSUME FencingInv, NEW c \in Made, NEW d \in Made,
         c \in Call, d \in Call
  PROVE  /\ Newer(c, d) => Earlier(d, c)
         /\ ~ Newer(c, d) /\ ~ (c.proc = d.proc /\ c.seq = d.seq) => Earlier(c, d)
<1>1. /\ c.proc \in Procs /\ d.proc \in Procs /\ c.proc \in Nat /\ d.proc \in Nat
      /\ c.epoch \in Nat /\ d.epoch \in Nat /\ c.seq \in Nat /\ d.seq \in Nat
  BY BoundsAssumption DEF Call, Procs
<1>2. /\ c.epoch = proc[c.proc].epoch /\ c.epoch # 0
      /\ d.epoch = proc[d.proc].epoch /\ d.epoch # 0
  BY DEF FencingInv, CallsStamped
<1>3. /\ c.proc < d.proc => c.epoch < d.epoch
      /\ d.proc < c.proc => d.epoch < c.epoch
      /\ c.proc = d.proc => c.epoch = d.epoch
  BY <1>1, <1>2 DEF FencingInv, EpochsGrow
<1> QED  BY <1>1, <1>3 DEF Newer, Earlier

LEMMA MadeType == ASSUME FencingTypeOK PROVE Made \subseteq Call
BY DEF FencingTypeOK, Made

\* A step that makes no call and lets none pass keeps what is said of calls.
LEMMA CallsKept ==
  ASSUME FencingInv, FencingTypeOK', wire' \subseteq wire, UNCHANGED << hwm, passed >>,
         \A q \in Procs : proc[q].epoch # 0 => proc'[q].epoch = proc[q].epoch,
         \A q \in Procs : proc'[q].seq = proc[q].seq
  PROVE  CallsStamped' /\ NumbersFresh' /\ MarkIsTop'
<1>1. Made' \subseteq Made  BY DEF Made
<1>2. CallsStamped'
  BY <1>1, MadeType DEF FencingInv, CallsStamped, Call
<1>3. NumbersFresh'  BY DEF FencingInv, NumbersFresh
<1>4. MarkIsTop'  BY DEF FencingInv, MarkIsTop
<1> QED  BY <1>2, <1>3, <1>4

LEMMA SendStep ==
  ASSUME FencingInv, FencingTypeOK', NEW p \in Procs, NEW m \in Machines, Send(p, m)
  PROVE  FencingInv'
<1> USE BoundsAssumption
<1> DEFINE s == [ proc |-> p, machine |-> m,
                  epoch |-> proc[p].epoch, seq |-> proc[p].seq + 1 ]
<1>0. /\ proc[p].epoch # 0 /\ proc[p].epoch \in Nat /\ proc[p].seq \in Nat
      /\ \A q \in Procs : proc[q].seq \in Nat
  BY DEF FencingInv, FencingTypeOK, Send, StartOrder
<1>1. Start'
  BY StartKept DEF FencingInv, FencingTypeOK, Start, Send
<1>2. Made' \subseteq Made \cup { s } /\ s.epoch = proc[p].epoch /\ s.seq = proc[p].seq + 1 /\ s.proc = p
  BY DEF Made, Send
<1>3. \A q \in Procs : proc'[q].epoch = proc[q].epoch
                       /\ proc'[q].seq = IF q = p THEN proc[q].seq + 1 ELSE proc[q].seq
  BY DEF FencingInv, FencingTypeOK, Send
<1>4. CallsStamped'
  BY <1>0, <1>2, <1>3, MadeType DEF FencingInv, CallsStamped, Call
<1>5. \A c \in Made : ~ (c.proc = s.proc /\ c.seq = s.seq)
  BY <1>0, <1>2 DEF FencingInv, CallsStamped
<1>6. NumbersFresh'
  <2>1. wire' = wire \cup { s } /\ passed' = passed  BY DEF Send
  <2>2. \A k \in Machines : passed[k] \subseteq Made  BY DEF Made
  <2>3. wire \subseteq Made  BY DEF Made
  <2> HIDE DEF s
  <2> QED  BY <1>5, <2>1, <2>2, <2>3 DEF FencingInv, NumbersFresh
<1>7. MarkIsTop' /\ FencedOnlyWhenOvertaken'
  BY DEF FencingInv, MarkIsTop, FencedOnlyWhenOvertaken, Send
<1> QED  BY <1>1, <1>4, <1>6, <1>7 DEF FencingInv, Start

LEMMA PassStep ==
  ASSUME FencingInv, FencingTypeOK', NEW c \in wire, Pass(c)
  PROVE  FencingInv'
<1> USE BoundsAssumption
<1>0. c \in Call /\ c.machine \in Machines /\ c.epoch \in Nat /\ c.seq \in Nat
  BY DEF FencingInv, FencingTypeOK, Call
<1>1. Start'  BY StartKept DEF FencingInv, Start, Pass
<1>2. /\ \A m \in Machines : m # c.machine => passed'[m] = passed[m] /\ hwm'[m] = hwm[m]
      /\ passed'[c.machine] = passed[c.machine] \cup { c }
      /\ hwm'[c.machine] = [ epoch |-> c.epoch, seq |-> c.seq ]
      /\ wire' = wire \ { c } /\ proc' = proc
  BY <1>0 DEF FencingInv, FencingTypeOK, Pass
<1>3. Made' \subseteq Made
  <2>1. \A m \in Machines : passed'[m] \subseteq passed[m] \cup wire  BY <1>0, <1>2
  <2> QED  BY <1>2, <2>1 DEF Made
<1>4. CallsStamped'  BY <1>2, <1>3 DEF FencingInv, CallsStamped
<1>5. NumbersFresh'
  <2>1. \A a, b \in wire' : a.proc = b.proc /\ a.seq = b.seq => a = b
    BY <1>2 DEF FencingInv, NumbersFresh
  <2>2. ASSUME NEW a \in wire', NEW m \in Machines, NEW d \in passed'[m]
        PROVE  ~ (a.proc = d.proc /\ a.seq = d.seq)
    <3>1. CASE d \in passed[m]  BY <1>2, <3>1 DEF FencingInv, NumbersFresh
    <3>2. CASE d \notin passed[m]
      <4>1. d = c  BY <1>2, <3>2
      <4> QED  BY <1>2, <4>1 DEF FencingInv, NumbersFresh
    <3> QED  BY <3>1, <3>2
  <2> QED  BY <2>1, <2>2 DEF NumbersFresh
<1>6. MarkIsTop'
  <2> SUFFICES ASSUME NEW m \in Machines
               PROVE  /\ \A d \in passed'[m] : ~ Newer(d, hwm'[m])
                      /\ hwm'[m] # NoMark =>
                           \E d \in passed'[m] : hwm'[m] = [ epoch |-> d.epoch, seq |-> d.seq ]
    BY DEF MarkIsTop, Newer
  <2>1. CASE m # c.machine
    <3>1. passed'[m] = passed[m] /\ hwm'[m] = hwm[m]  BY <1>2, <2>1
    <3> QED  BY <3>1 DEF FencingInv, MarkIsTop
  <2>2. CASE m = c.machine
    <3>1. ASSUME NEW d \in passed'[m]  PROVE ~ Newer(d, hwm'[m])
      <4>1. CASE d = c  BY <1>0, <1>2, <2>2, <4>1 DEF Newer
      <4>2. CASE d # c
        <5>1. d \in passed[m] /\ d \in Call
          BY <1>2, <2>2, <3>1, <4>2 DEF FencingInv, FencingTypeOK
        <5>2. ~ Newer(d, hwm[m]) /\ Newer(c, hwm[m])
          BY <5>1, <2>2 DEF FencingInv, MarkIsTop, Pass, Mark
        <5>3. hwm[m] \in Token  BY DEF FencingInv, FencingTypeOK
        <5> QED  BY <1>0, <1>2, <2>2, <5>1, <5>2, <5>3 DEF Newer, Token, Call
      <4> QED  BY <4>1, <4>2
    <3>2. c \in passed'[m] /\ hwm'[m] = [ epoch |-> c.epoch, seq |-> c.seq ]
      BY <1>2, <2>2
    <3> QED  BY <3>1, <3>2
  <2> QED  BY <2>1, <2>2
<1>7. FencedOnlyWhenOvertaken'  BY DEF FencingInv, FencedOnlyWhenOvertaken, Pass
<1> QED  BY <1>1, <1>4, <1>5, <1>6, <1>7 DEF FencingInv, Start

\* A refused call finds, among those that passed, one that was made later.
LEMMA FenceStep ==
  ASSUME FencingInv, FencingTypeOK', NEW c \in wire, Fence(c)
  PROVE  FencingInv'
<1> USE BoundsAssumption
<1>0. c \in Call /\ c.machine \in Machines /\ c \in Made /\ c.epoch \in Nat /\ c.seq \in Nat
  BY DEF FencingInv, FencingTypeOK, Call, Made
<1>1. Start'  BY StartKept DEF FencingInv, Start, Fence
<1>2. CallsStamped' /\ NumbersFresh' /\ MarkIsTop'
  BY CallsKept DEF Fence
<1>3. \E d \in passed[c.machine] : Earlier(c, d)
  <2>1. ~ Newer(c, hwm[c.machine])  BY DEF Fence, Mark
  <2>2. c.epoch # 0  BY <1>0 DEF FencingInv, CallsStamped
  <2>3. hwm[c.machine] # NoMark
    BY <1>0, <2>1, <2>2 DEF Newer, NoMark
  <2>4. PICK d \in passed[c.machine] :
          hwm[c.machine] = [ epoch |-> d.epoch, seq |-> d.seq ]
    BY <1>0, <2>3 DEF FencingInv, MarkIsTop
  <2>5. d \in Call /\ d \in Made  BY <1>0 DEF FencingInv, FencingTypeOK, Made
  <2>6. ~ Newer(c, d)  BY <2>1, <2>4, <2>5 DEF Newer
  <2>7. ~ (c.proc = d.proc /\ c.seq = d.seq)
    BY <1>0, <2>5 DEF FencingInv, NumbersFresh
  <2> QED  BY <1>0, <2>5, <2>6, <2>7, TokenOrder
<1>4. FencedOnlyWhenOvertaken'
  <2> SUFFICES ASSUME NEW r \in fenced' PROVE \E d \in r.before : Earlier(r.call, d)
    BY DEF FencedOnlyWhenOvertaken, Earlier
  <2>1. CASE r \in fenced  BY <2>1 DEF FencingInv, FencedOnlyWhenOvertaken
  <2>2. CASE r = [ call |-> c, before |-> passed[c.machine] ]  BY <2>2, <1>3
  <2> QED  BY <2>1, <2>2 DEF Fence
<1> QED  BY <1>1, <1>2, <1>4 DEF FencingInv, Start

LEMMA FencingInvStep == FencingInv /\ [FencingNext]_fencingVars => FencingInv'
<1> SUFFICES ASSUME FencingInv, [FencingNext]_fencingVars PROVE FencingInv'  OBVIOUS
<1>0. FencingTypeOK'  BY TypeStep DEF FencingInv
<1>1. ASSUME NEW p \in Procs, LoadEpoch(p) \/ Crash(p)  PROVE FencingInv'
  <2>1. /\ Start'
        /\ \A q \in Procs : proc[q].epoch # 0 => proc'[q].epoch = proc[q].epoch
        /\ \A q \in Procs : proc'[q].seq = proc[q].seq
    BY <1>1, StartStep DEF FencingInv, Start
  <2>2. UNCHANGED << wire, hwm, passed, fenced >>
    BY <1>1 DEF LoadEpoch, ReadEpoch, ParseFails, Truncate, WriteEpoch, Crash
  <2>3. CallsStamped' /\ NumbersFresh' /\ MarkIsTop'
    BY <1>0, <2>1, <2>2, CallsKept
  <2>4. FencedOnlyWhenOvertaken'  BY <2>2 DEF FencingInv, FencedOnlyWhenOvertaken
  <2> QED  BY <1>0, <2>1, <2>3, <2>4 DEF FencingInv, Start
<1>2. ASSUME NEW p \in Procs, NEW m \in Machines, Send(p, m)  PROVE FencingInv'
  BY <1>0, <1>2, SendStep
<1>3. ASSUME NEW c \in wire, checkFence(c)  PROVE FencingInv'
  BY <1>0, <1>3, PassStep, FenceStep DEF checkFence
<1>4. ASSUME NEW c \in wire, Lose(c)  PROVE FencingInv'
  <2>1. Start'  BY <1>0, <1>4, StartKept DEF FencingInv, Start, Lose
  <2>2. CallsStamped' /\ NumbersFresh' /\ MarkIsTop'
    BY <1>0, <1>4, CallsKept DEF Lose
  <2>3. FencedOnlyWhenOvertaken'  BY <1>4 DEF FencingInv, FencedOnlyWhenOvertaken, Lose
  <2> QED  BY <1>0, <2>1, <2>2, <2>3 DEF FencingInv, Start
<1>5. CASE UNCHANGED fencingVars
  <2>1. Start'  BY <1>0, <1>5, StartKept DEF FencingInv, Start, fencingVars
  <2>2. CallsStamped' /\ NumbersFresh' /\ MarkIsTop'
    BY <1>0, <1>5, CallsKept DEF fencingVars
  <2>3. FencedOnlyWhenOvertaken'  BY <1>5 DEF FencingInv, FencedOnlyWhenOvertaken, fencingVars
  <2> QED  BY <1>0, <2>1, <2>2, <2>3 DEF FencingInv, Start
<1> QED  BY <1>1, <1>2, <1>3, <1>4, <1>5 DEF FencingNext

LEMMA FencingInvAlways == FencingSpec => []FencingInv
<1>1. FencingInit => FencingInv  BY FencingInitInv
<1>2. FencingInv /\ [FencingNext]_fencingVars => FencingInv'  BY FencingInvStep
<1> QED  BY <1>1, <1>2, PTL DEF FencingSpec

-----------------------------------------------------------------------------
\* Every variable of the model keeps its type, for any number of incarnations.
THEOREM FencingTypeCorrect == FencingSpec => []FencingTypeOK
<1>1. FencingInv => FencingTypeOK  BY DEF FencingInv
<1> QED  BY <1>1, FencingInvAlways, PTL

\* LoadEpoch never hands out an epoch twice, and later processes get higher
\* ones, wherever earlier ones crashed.
THEOREM EpochsAlwaysGrow == FencingSpec => []EpochsGrow
<1>1. FencingInv => EpochsGrow  BY DEF FencingInv
<1> QED  BY <1>1, FencingInvAlways, PTL

\* checkFence refuses a call only when a later one for the machine has passed.
THEOREM OnlyOvertakenFenced == FencingSpec => []FencedOnlyWhenOvertaken
<1>1. FencingInv => FencedOnlyWhenOvertaken  BY DEF FencingInv
<1> QED  BY <1>1, FencingInvAlways, PTL

\* checkFence lets the calls for a machine pass in the order they were made.
THEOREM CallsPassInOrder == FencingSpec => PassedInOrder
<1>1. FencingInv /\ [FencingNext]_fencingVars =>
        [ \A m \in Machines : \A c \in passed'[m] \ passed[m] : \A d \in passed[m] : Earlier(d, c) ]_fencingVars
  <2> SUFFICES ASSUME FencingInv, FencingNext, NEW m \in Machines,
                      NEW c \in passed'[m] \ passed[m], NEW d \in passed[m]
               PROVE  Earlier(d, c)
    OBVIOUS
  <2>1. c \in wire /\ Pass(c) /\ m = c.machine
    <3>1. PICK x \in wire : Pass(x)
      BY DEF FencingNext, LoadEpoch, ReadEpoch, ParseFails, Truncate, WriteEpoch, Crash,
             Send, Lose, Fence, checkFence
    <3>2. x.machine \in Machines  BY DEF FencingInv, FencingTypeOK, Call
    <3> QED  BY <3>1, <3>2 DEF Pass, FencingInv, FencingTypeOK
  <2>2. c \in Made /\ d \in Made /\ c \in Call /\ d \in Call
    BY <2>1 DEF Made, FencingInv, FencingTypeOK
  <2>3. Newer(c, hwm[m]) /\ ~ Newer(d, hwm[m]) /\ hwm[m] \in Token
    BY <2>1 DEF Pass, Mark, FencingInv, MarkIsTop, FencingTypeOK
  <2>4. Newer(c, d)
    BY <2>2, <2>3 DEF Newer, Call, Token
  <2> QED  BY <2>2, <2>4, TokenOrder
<1> QED  BY <1>1, FencingInvAlways, PTL DEF FencingSpec, PassedInOrder

=============================================================================
