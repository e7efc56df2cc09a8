------------------------------ MODULE Fencing ------------------------------
(***************************************************************************)
(* The fencing tokens of one shard identity (pkg/fencing, grpcclient,      *)
(* grpcadapter and the provider's checkFence).                             *)
(*                                                                         *)
(* Processes 1, 2, ... are the incarnations of the shard in the order they *)
(* start.  Each loads the epoch file, increments it and writes it back;    *)
(* the pod that mounts the data directory starts one process at a time,    *)
(* but an older process may live on, cut off from the cluster: a zombie.   *)
(* Every mutating call is stamped (epoch, sequence number); calls are      *)
(* delayed, overtaken and lost, and the provider compares each with the    *)
(* mark it keeps for the call's machine.                                   *)
(*                                                                         *)
(*   file    the epoch file: 0 when there is none, Torn when it is empty   *)
(*   proc    the processes, with the value read and the epoch handed out   *)
(*   wire    calls on their way                                            *)
(*   hwm     the provider's mark per machine (fenceHWM)                    *)
(*   passed  history: the calls that passed the check, per machine         *)
(*   fenced  history: the calls that were refused, with what the provider  *)
(*           had let pass for their machine by then                        *)
(***************************************************************************)
EXTENDS Integers

CONSTANTS Machines,
          MaxProcs,    \* bound: incarnations
          MaxSeq       \* bound: calls one incarnation makes

ASSUME BoundsAssumption == MaxProcs \in Nat /\ MaxSeq \in Nat

VARIABLES file, proc, wire, hwm, passed, fenced

fencingVars == << file, proc, wire, hwm, passed, fenced >>

Procs == 1 .. MaxProcs

Torn == -1

\* A mark or the token of a call.
Token == [ epoch : Nat, seq : Nat ]

Call == [ proc : Procs, machine : Machines, epoch : Nat, seq : Nat ]

\* fenceHWM without an entry: below every token a process can send.
NoMark == [ epoch |-> 0, seq |-> 0 ]

-----------------------------------------------------------------------------
(* LoadEpoch: one process at a time. *)

Loading(p) == proc[p].pc \in { "read", "truncated" }

Set(p, pc, epoch) ==
  proc' = [ proc EXCEPT ![p].pc = pc, ![p].epoch = epoch ]

\* Process p starts: no other is in LoadEpoch, and it is the next incarnation.
\* os.ReadFile: no file counts as epoch 0.
ReadEpoch(p) ==
  /\ proc[p].pc = "off"
  /\ \A q \in Procs : ~ Loading(q) /\ (q < p => proc[q].pc # "off")
  /\ file # Torn
  /\ proc' = [ proc EXCEPT ![p].pc = "read", ![p].prev = file ]
  /\ UNCHANGED << file, wire, hwm, passed, fenced >>

\* The content does not parse: the process does not start.
ParseFails(p) ==
  /\ proc[p].pc = "off"
  /\ \A q \in Procs : ~ Loading(q) /\ (q < p => proc[q].pc # "off")
  /\ file = Torn
  /\ Set(p, "dead", 0)
  /\ UNCHANGED << file, wire, hwm, passed, fenced >>

\* os.WriteFile opens the file with O_TRUNC ...
Truncate(p) ==
  /\ proc[p].pc = "read"
  /\ file' = Torn
  /\ Set(p, "truncated", 0)
  /\ UNCHANGED << wire, hwm, passed, fenced >>

\* Faulty variant of WriteEpoch: the value read is written back.
WriteEpochUnchanged(p) ==
  /\ proc[p].pc = "truncated"
  /\ file' = proc[p].prev
  /\ Set(p, "up", proc[p].prev + 1)
  /\ UNCHANGED << wire, hwm, passed, fenced >>

\* ... and writes the incremented value, which becomes the process's epoch.
WriteEpoch(p) ==
  /\ proc[p].pc = "truncated"
  /\ file' = proc[p].prev + 1
  /\ Set(p, "up", proc[p].prev + 1)
  /\ UNCHANGED << wire, hwm, passed, fenced >>

\* The process dies, or a failed read or write makes it refuse to start.  What
\* it has sent is still on the wire; a truncated file stays empty.
Crash(p) ==
  /\ proc[p].pc \in { "read", "truncated", "up" }
  /\ Set(p, "dead", proc[p].epoch)
  /\ UNCHANGED << file, wire, hwm, passed, fenced >>

-----------------------------------------------------------------------------
(* Calls. *)

\* Client.Create, Configure, Drain, Delete: every attempt takes a fresh number,
\* a retry of an earlier attempt included.
Send(p, m) ==
  /\ proc[p].pc = "up"
  /\ proc[p].seq < MaxSeq
  /\ proc' = [ proc EXCEPT ![p].seq = @ + 1 ]
  /\ wire' = wire \cup { [ proc |-> p, machine |-> m,
                           epoch |-> proc[p].epoch, seq |-> proc[p].seq + 1 ] }
  /\ UNCHANGED << file, hwm, passed, fenced >>

\* The connection breaks before the request arrives.
Lose(c) ==
  /\ wire' = wire \ { c }
  /\ UNCHANGED << file, proc, hwm, passed, fenced >>

\* Faulty variant of Newer: the sequence number is not compared.
NewerOrSameEpoch(c, mark) == c.epoch >= mark.epoch

Newer(c, mark) ==
  \/ c.epoch > mark.epoch
  \/ c.epoch = mark.epoch /\ c.seq > mark.seq

\* Faulty variant of Mark: one mark for all machines of the shard.
MarkPerShard(c) ==
  CHOOSE k \in { hwm[m] : m \in Machines } :
    \A m \in Machines : hwm[m] = k \/ Newer(k, hwm[m])

\* The entry for the call's (shard, machine).
Mark(c) == hwm[c.machine]

\* A request reaches the provider (grpcadapter hands it over unchanged) and
\* passes checkFence: the mark moves before anything else is looked at, whether
\* the operation then succeeds or not.
Pass(c) ==
  /\ Newer(c, Mark(c))
  /\ wire' = wire \ { c }
  /\ hwm' = [ hwm EXCEPT ![c.machine] = [ epoch |-> c.epoch, seq |-> c.seq ] ]
  /\ passed' = [ passed EXCEPT ![c.machine] = @ \cup { c } ]
  /\ UNCHANGED << file, proc, fenced >>

\* It does not: FAILED_PRECONDITION, which the sender only logs (execute); it
\* stays up and keeps sending.
Fence(c) ==
  /\ ~ Newer(c, Mark(c))
  /\ wire' = wire \ { c }
  /\ fenced' = fenced \cup { [ call |-> c, before |-> passed[c.machine] ] }
  /\ UNCHANGED << file, proc, hwm, passed >>

-----------------------------------------------------------------------------

FencingInit ==
  /\ file = 0
  /\ proc = [ p \in Procs |-> [ pc |-> "off", prev |-> 0, epoch |-> 0, seq |-> 0 ] ]
  /\ wire = {}
  /\ hwm = [ m \in Machines |-> NoMark ]
  /\ passed = [ m \in Machines |-> {} ]
  /\ fenced = {}

LoadEpoch(p) == ReadEpoch(p) \/ ParseFails(p) \/ Truncate(p) \/ WriteEpoch(p)

checkFence(c) == Pass(c) \/ Fence(c)

FencingNext ==
  \/ \E p \in Procs : LoadEpoch(p) \/ Crash(p) \/ \E m \in Machines : Send(p, m)
  \/ \E c \in wire : checkFence(c) \/ Lose(c)

FencingSpec == FencingInit /\ [][FencingNext]_fencingVars

-----------------------------------------------------------------------------
(* Properties. *)

\* Every variable has its type; the file holds a number or is empty, never less.
FencingTypeOK ==
  /\ file \in Nat \cup { Torn }
  /\ proc \in [ Procs -> [ pc : { "off", "read", "truncated", "up", "dead" },
                           prev : Nat, epoch : Nat, seq : Nat ] ]
  /\ wire \subseteq Call
  /\ hwm \in [ Machines -> Token ]
  /\ passed \in [ Machines -> SUBSET Call ]
  /\ fenced \subseteq [ call : Call, before : SUBSET Call ]

\* Call d was made before call c: by an earlier incarnation, or earlier by the
\* same one.
Earlier(d, c) == d.proc < c.proc \/ (d.proc = c.proc /\ d.seq < c.seq)

\* A later incarnation has a higher epoch, whatever crashed in the middle of
\* LoadEpoch: no epoch is handed out twice.
EpochsGrow ==
  \A p, q \in Procs :
    p < q /\ proc[p].epoch # 0 /\ proc[q].epoch # 0 => proc[p].epoch < proc[q].epoch

\* The provider lets the calls for a machine pass in the order they were made: a
\* zombie's call never follows one of its successor's, and of one process no
\* late attempt follows the retry.
PassedInOrder ==
  [][ \A m \in Machines : \A c \in passed'[m] \ passed[m] : \A d \in passed[m] : Earlier(d, c) ]_fencingVars

\* Nobody is fenced without cause: whenever a call is refused, a call made later
\* for the same machine has already passed.  Concurrent workers of one process,
\* whose calls overtake each other, never fence each other's machines.
FencedOnlyWhenOvertaken ==
  \A r \in fenced : \E c \in r.before : Earlier(r.call, c)
=============================================================================
