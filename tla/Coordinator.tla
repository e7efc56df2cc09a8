---------------------------- MODULE Coordinator ----------------------------
(***************************************************************************)
(* The replicated state of the coordinator (pkg/coordinator): the Raft FSM *)
(* over shards, clusterToShard and domainToShard, the RPCs that commit     *)
(* commands, heartbeats written beside the log, snapshots, restarts, the   *)
(* exported archive and the restore from it.                               *)
(*                                                                         *)
(* hashicorp/raft is external and seen as this code sees it: one committed *)
(* log, applied in order by every replica at its own pace; a replica that  *)
(* calls itself leader may have been deposed without knowing, and only the *)
(* leader of the newest term commits; Apply may report an error for an     *)
(* entry that is committed all the same.                                   *)
(*                                                                         *)
(* log      the committed commands with their terms; states[n + 1] is the  *)
(*          state the first n make (history, what replicas are compared    *)
(*          to).                                                           *)
(* term     the newest elected term; leading[r] the term r believes to     *)
(*          lead, 0 when it follows.                                       *)
(* fsm      FSM.state of each replica, after applied[r] entries.           *)
(* disk     each replica's newest Raft snapshot.                           *)
(* archive  the newest exported or saved snapshot.                         *)
(***************************************************************************)
EXTENDS Integers, Sequences, FiniteSets

CONSTANTS Replicas, Shards, Clusters, Domains, None,
          Founding,  \* the shards registered before the behaviour begins, in order
          MaxLog,    \* bound: entries committed
          MaxTerm    \* bound: elections

ASSUME NoneAssumption == None \notin Shards

ASSUME BoundAssumption == MaxLog \in Nat /\ MaxTerm \in Nat \ { 0 }

ASSUME FoundingAssumption == Founding \in Seq(Shards)

VARIABLES log, states, term, leading, fsm, applied, disk, archive

vars == << log, states, term, leading, fsm, applied, disk, archive >>

-----------------------------------------------------------------------------
(* State                                                                   *)

\* A ShardEntry is its ID: address and times decide nothing here.
State == [ shards : SUBSET Shards,
           clusterToShard : [ Clusters -> Shards \cup { None } ],
           domainToShard  : [ Domains -> Shards \cup { None } ] ]

NewState == [ shards |-> {},
              clusterToShard |-> [ c \in Clusters |-> None ],
              domainToShard  |-> [ d \in Domains |-> None ] ]

Known(st, s) == s \in st.shards

\* ErrShardExists leaves the entry alone.
AddShard(st, s) == [ st EXCEPT !.shards = @ \cup { s } ]

Without(f, s) == [ x \in DOMAIN f |-> IF f[x] = s THEN None ELSE f[x] ]

\* Removing a shard cleans up what points at it.
RemoveShard(st, s) ==
  IF ~ Known(st, s) THEN st
  ELSE [ shards |-> st.shards \ { s },
         clusterToShard |-> Without(st.clusterToShard, s),
         domainToShard  |-> Without(st.domainToShard, s) ]

\* ErrShardNotFound, ErrClusterAlreadyBound: no change.
BindCluster(st, c, s) ==
  IF Known(st, s) /\ st.clusterToShard[c] = None
    THEN [ st EXCEPT !.clusterToShard[c] = s ] ELSE st

\* Faulty variant: a domain is handed over without being released.
AssignDomainOver(st, d, s) ==
  IF Known(st, s) THEN [ st EXCEPT !.domainToShard[d] = s ] ELSE st

\* ErrShardNotFound, ErrDomainAlreadyAssigned: no change.
AssignDomain(st, d, s) ==
  IF Known(st, s) /\ st.domainToShard[d] \in { None, s }
    THEN [ st EXCEPT !.domainToShard[d] = s ] ELSE st

UnassignDomain(st, d) == [ st EXCEPT !.domainToShard[d] = None ]

\* Faulty variant: a heartbeat creates the entry it does not find.
MarkHeartbeatUnchecked(st, s) == [ st EXCEPT !.shards = @ \cup { s } ]

\* A heartbeat is written to the leader's own state, not through Raft: the entry
\* is put back with its new LastHeartbeat, and only if there is one.
MarkHeartbeat(st, s) ==
  IF Known(st, s) THEN [ st EXCEPT !.shards = @ \cup { s } ] ELSE st

-----------------------------------------------------------------------------
(* FSM                                                                     *)

Command ==
  [ kind : { "AddShard", "RemoveShard" }, shard : Shards ]
    \cup [ kind : { "BindCluster" }, cluster : Clusters, shard : Shards ]
    \cup [ kind : { "AssignDomain" }, domain : Domains, shard : Shards ]
    \cup [ kind : { "UnassignDomain" }, domain : Domains ]

applyCommand(st, cmd) ==
  CASE cmd.kind = "AddShard"       -> AddShard(st, cmd.shard)
    [] cmd.kind = "RemoveShard"    -> RemoveShard(st, cmd.shard)
    [] cmd.kind = "BindCluster"    -> BindCluster(st, cmd.cluster, cmd.shard)
    [] cmd.kind = "AssignDomain"   -> AssignDomain(st, cmd.domain, cmd.shard)
    [] cmd.kind = "UnassignDomain" -> UnassignDomain(st, cmd.domain)

\* FSM.Snapshot writes the shards as a list, the two maps beside it.
ToSnapshot(st) ==
  [ shards |-> st.shards,
    clusterToShard |-> { << c, st.clusterToShard[c] >> :
                          c \in { x \in Clusters : st.clusterToShard[x] # None } },
    domainToShard  |-> { << d, st.domainToShard[d] >> :
                          d \in { x \in Domains : st.domainToShard[x] # None } } ]

Lookup(pairs, x) ==
  IF \E p \in pairs : p[1] = x THEN (CHOOSE p \in pairs : p[1] = x)[2] ELSE None

\* FSM.Restore re-adds the shards and then the bindings, ignoring the errors: a
\* binding to a shard that the list does not have is dropped.
Restore(snap) ==
  LET Bound(pairs, x) ==
        IF Lookup(pairs, x) \in snap.shards THEN Lookup(pairs, x) ELSE None
  IN [ shards |-> snap.shards,
       clusterToShard |-> [ c \in Clusters |-> Bound(snap.clusterToShard, c) ],
       domainToShard  |-> [ d \in Domains |-> Bound(snap.domainToShard, d) ] ]

EmptySnapshot == ToSnapshot(NewState)

\* A stored snapshot: raft.SnapshotMeta and the state payload.
NoSnapshot == [ index |-> 0, term |-> 0, snap |-> EmptySnapshot ]

\* raft.Snapshot: the applied state, with the index and the term of its last entry.
SnapshotOf(r) ==
  [ index |-> applied[r], term |-> log[applied[r]].term, snap |-> ToSnapshot(fsm[r]) ]

-----------------------------------------------------------------------------
(* RPCs                                                                    *)

IsLeader(r) == leading[r] # 0

LeadsNewest(r) == IsLeader(r) /\ leading[r] = term

\* raft.Apply: the entry is committed by the leader of the newest term, and the
\* caller waits until the leader's FSM has applied it and everything before it.
Apply(r, cmd) ==
  /\ LeadsNewest(r) /\ applied[r] = Len(log) /\ Len(log) < MaxLog
  /\ log' = Append(log, [ term |-> term, cmd |-> cmd ])
  /\ states' = Append(states, applyCommand(states[Len(states)], cmd))
  /\ applied' = [ applied EXCEPT ![r] = @ + 1 ]

\* The same call answered with an error (a timeout, leadership lost) although
\* the entry commits: the handler returns and the FSM applies it later.
ApplyUnanswered(r, cmd) ==
  /\ LeadsNewest(r) /\ Len(log) < MaxLog
  /\ log' = Append(log, [ term |-> term, cmd |-> cmd ])
  /\ states' = Append(states, applyCommand(states[Len(states)], cmd))
  /\ UNCHANGED << term, leading, fsm, applied, disk, archive >>

\* ReportShard of a shard the leader's state did not have when it looked: it
\* registers it and then marks the heartbeat.  The look may be out of date.
ReportUnknownShard(r, s) ==
  /\ Apply(r, [ kind |-> "AddShard", shard |-> s ])
  /\ fsm' = [ fsm EXCEPT ![r] = MarkHeartbeat(AddShard(@, s), s) ]
  /\ UNCHANGED << term, leading, disk, archive >>

\* ReportShard of a registered shard; the deposed leader serves it too.
ReportKnownShard(r, s) ==
  /\ IsLeader(r)
  /\ fsm' = [ fsm EXCEPT ![r] = MarkHeartbeat(@, s) ]
  /\ UNCHANGED << log, states, term, leading, applied, disk, archive >>

\* AssignDomain, UnassignDomain, RemoveShard, and BindCluster by its
\* constructor: one command each.
AdminCommand(r, cmd) ==
  /\ cmd.kind # "AddShard"
  /\ Apply(r, cmd)
  /\ fsm' = [ fsm EXCEPT ![r] = applyCommand(@, cmd) ]
  /\ UNCHANGED << term, leading, disk, archive >>

\* SnapshotSave and the export loop: a fresh snapshot of what the leader has
\* applied, copied out.
openLatestSnapshot(r) ==
  /\ IsLeader(r) /\ applied[r] > 0
  /\ disk' = [ disk EXCEPT ![r] = SnapshotOf(r) ]
  /\ archive' = disk'[r]
  /\ UNCHANGED << log, states, term, leading, fsm, applied >>

DomainsForShard(st, s) == { d \in Domains : st.domainToShard[d] = s }

\* The read RPC walks the registered shards and lists the domains of each.
ListDomainAssignments(st) == UNION { DomainsForShard(st, s) \X { s } : s \in st.shards }

-----------------------------------------------------------------------------
(* Replicas                                                                *)

\* FSM.Apply on a replica that has the entry.
ApplyEntry(r) ==
  /\ applied[r] < Len(log)
  /\ fsm' = [ fsm EXCEPT ![r] = applyCommand(@, log[applied[r] + 1].cmd) ]
  /\ applied' = [ applied EXCEPT ![r] = @ + 1 ]
  /\ UNCHANGED << log, states, term, leading, disk, archive >>

\* Raft's own periodic snapshot.
TakeSnapshot(r) ==
  /\ applied[r] > disk[r].index
  /\ disk' = [ disk EXCEPT ![r] = SnapshotOf(r) ]
  /\ UNCHANGED << log, states, term, leading, fsm, applied, archive >>

\* A replica far behind is sent another's snapshot instead of entries.
InstallSnapshot(r, from) ==
  /\ disk[from].index > applied[r]
  /\ fsm' = [ fsm EXCEPT ![r] = Restore(disk[from].snap) ]
  /\ applied' = [ applied EXCEPT ![r] = disk[from].index ]
  /\ disk' = [ disk EXCEPT ![r] = disk[from] ]
  /\ UNCHANGED << log, states, term, leading, archive >>

\* The process stops and starts: the FSM is rebuilt from the snapshot on disk,
\* and the entries after it are applied again.
Restart(r) ==
  /\ fsm' = [ fsm EXCEPT ![r] = Restore(disk[r].snap) ]
  /\ applied' = [ applied EXCEPT ![r] = disk[r].index ]
  /\ leading' = [ leading EXCEPT ![r] = 0 ]
  /\ UNCHANGED << log, states, term, disk, archive >>

Elect(r) ==
  /\ term < MaxTerm
  /\ term' = term + 1
  /\ leading' = [ leading EXCEPT ![r] = term + 1 ]
  /\ UNCHANGED << log, states, fsm, applied, disk, archive >>

StepDown(r) ==
  /\ IsLeader(r) /\ leading[r] < term
  /\ leading' = [ leading EXCEPT ![r] = 0 ]
  /\ UNCHANGED << log, states, term, fsm, applied, disk, archive >>

\* Faulty variant: CurrentTerm is not seeded.
RestoreSnapshotUnseeded(r) ==
  /\ archive.index > 0
  /\ log' = SubSeq(log, 1, archive.index)
  /\ states' = SubSeq(states, 1, archive.index + 1)
  /\ term' = 0
  /\ leading' = [ x \in Replicas |-> 0 ]
  /\ disk' = [ x \in Replicas |-> IF x = r THEN archive ELSE NoSnapshot ]
  /\ fsm' = [ x \in Replicas |-> IF x = r THEN Restore(archive.snap) ELSE NewState ]
  /\ applied' = [ x \in Replicas |-> IF x = r THEN archive.index ELSE 0 ]
  /\ UNCHANGED archive

\* RestoreSnapshot: every replica is stopped, one data directory is rebuilt from
\* the archive with the restoring node as only voter and the archive's term, the
\* others start empty and join.
RestoreSnapshot(r) ==
  /\ archive.index > 0
  /\ log' = SubSeq(log, 1, archive.index)
  /\ states' = SubSeq(states, 1, archive.index + 1)
  /\ term' = archive.term
  /\ leading' = [ x \in Replicas |-> 0 ]
  /\ disk' = [ x \in Replicas |-> IF x = r THEN archive ELSE NoSnapshot ]
  /\ fsm' = [ x \in Replicas |-> IF x = r THEN Restore(archive.snap) ELSE NewState ]
  /\ applied' = [ x \in Replicas |-> IF x = r THEN archive.index ELSE 0 ]
  /\ UNCHANGED archive

\* The state after the first n founding registrations.
Founded(n) == [ NewState EXCEPT !.shards = { Founding[i] : i \in 1 .. n } ]

Init ==
  /\ log = [ i \in DOMAIN Founding |->
              [ term |-> 1, cmd |-> [ kind |-> "AddShard", shard |-> Founding[i] ] ] ]
  /\ states = [ i \in 1 .. Len(Founding) + 1 |-> Founded(i - 1) ]
  /\ term = 1
  /\ \E l \in Replicas : leading = [ r \in Replicas |-> IF r = l THEN 1 ELSE 0 ]
  /\ fsm = [ r \in Replicas |-> Founded(Len(Founding)) ]
  /\ applied = [ r \in Replicas |-> Len(Founding) ]
  /\ disk = [ r \in Replicas |-> NoSnapshot ]
  /\ archive = NoSnapshot

Next ==
  \E r \in Replicas :
    \/ \E s \in Shards : ReportUnknownShard(r, s) \/ ReportKnownShard(r, s)
    \/ \E cmd \in Command : AdminCommand(r, cmd) \/ ApplyUnanswered(r, cmd)
    \/ openLatestSnapshot(r)
    \/ ApplyEntry(r) \/ TakeSnapshot(r) \/ Restart(r) \/ Elect(r) \/ StepDown(r)
    \/ \E q \in Replicas : InstallSnapshot(r, q)
    \/ RestoreSnapshot(r)

Spec == Init /\ [][Next]_vars

-----------------------------------------------------------------------------
(* Properties                                                              *)

\* Every variable has its type.
TypeOK ==
  /\ log \in Seq([ term : 1 .. MaxTerm, cmd : Command ]) /\ states \in Seq(State) /\ Len(states) = Len(log) + 1
  /\ term \in 0 .. MaxTerm /\ leading \in [ Replicas -> 0 .. MaxTerm ]
  /\ fsm \in [ Replicas -> State ]
  /\ applied \in [ Replicas -> 0 .. Len(log) ]
  /\ \A r \in Replicas : disk[r].index \in 0 .. Len(log)

\* A state as the assignment it makes; who owns a domain is what the read RPC,
\* which goes by the registered shards, would show.
Ownership(st) ==
  [ members |-> st.shards, home |-> st.clusterToShard,
    owner   |-> [ d \in Domains |->
                    IF << d, st.domainToShard[d] >> \in ListDomainAssignments(st)
                    THEN st.domainToShard[d] ELSE None ] ]

\* Replicas never disagree: whichever way a replica came to have n entries --
\* one by one, from its own snapshot after a restart, from another's, or from the
\* archive -- it has the assignment those n entries make, although heartbeats are
\* written beside the log and Restore ignores every error.
ReplicasAgree ==
  \A r \in Replicas : fsm[r] = states[applied[r] + 1]

\* Terms never go back along the log: RestoreSnapshot seeds CurrentTerm with the
\* archive's, or the restored node would commit at a term below its last entry's.
TermsGrow == \A i, j \in DOMAIN log : i < j => log[i].term <= log[j].term

Abstract == INSTANCE Assignment WITH
  Begun <- { Ownership(Founded(n)) : n \in 0 .. Len(Founding) },
  cur  <- Ownership(states[Len(states)]),
  past <- { Ownership(states[i]) : i \in DOMAIN states }

\* The committed log implements the assignment: a domain passes from shard to
\* shard only through a release or its shard's removal, a bound cluster stays,
\* and a restore returns to a past state.
ImplementsAssignment == Abstract!Spec

=============================================================================
