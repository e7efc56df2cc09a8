---------------------------- MODULE RollupIngest ----------------------------
(***************************************************************************)
(* How one cluster's demand reaches the decision cycle: the operator's     *)
(* roll-up loop and session (pkg/operator stream.go, rollup.go), the       *)
(* shard's sessions and roll-up workers (session.go), the empty roll-up    *)
(* guard (safety.go), the needs table, and the cycle that snapshots it.    *)
(*                                                                         *)
(* Sessions are numbered in the order the operator opens them.  A stream   *)
(* breaks under both ends, which notice separately: the operator reconnects*)
(* while the shard's old handler and its worker may still be running.      *)
(*                                                                         *)
(*   demand    the cluster's CapacityRequests: generation and Need rows    *)
(*   op        the operator's end of each session                          *)
(*   link      whether the stream still carries messages                   *)
(*   slot      pendingRollup, the operator's single send slot              *)
(*   srv       the shard's Session handler; closed is its session's flag   *)
(*   rollupChan, work   the worker's queue of one, and what it decodes     *)
(*   admitted  what the guard let through, on its way to the table: no lock*)
(*             spans the two, and workers of two sessions may be there     *)
(*   deferred  the workers whose ApplyRollup has yet to open the gate      *)
(*   current   sessionsByCluster                                           *)
(*   table     the needs table: NoRollup until a roll-up is applied        *)
(*   dirty     whether the table has changed since its cached snapshot     *)
(*   guard     the guard's baseline and count of held roll-ups             *)
(*   gate      firstRollupReceived                                         *)
(*   cycle     whether a cycle is deciding, and the demand it or the last  *)
(*             one read, which is the table's cached snapshot              *)
(*   faults    bound: roll-ups the operator has built wrongly              *)
(*   crossed   history: two workers were between guard and table at once,  *)
(*             and the two have not been brought to agree since            *)
(*   blind     history: cycles of this process, not counting crossed ones, *)
(*             whose Phase 3 found the gate open but had read its demand   *)
(*             before any roll-up                                          *)
(*   lowest    history: the fewest rows the cluster's demand has really had *)
(*   restarts  bound: shard restarts                                       *)
(***************************************************************************)
EXTENDS Integers

CONSTANTS Rows,          \* Need rows the cluster's demand may have
          InitialRows,   \* and has at the start
          MinRows,       \* rollupGuardMinRows
          RetainDen,     \* 1 / rollupGuardRetainFraction
          Consecutive,   \* rollupGuardConsecutive
          MaxSessions,   \* bound: connections
          MaxGen,        \* bound: changes of the demand
          MaxFaults,     \* bound: truncated or malformed roll-ups
          MaxRestarts,   \* bound: shard restarts
          Spent          \* bound: how many of these two a behaviour does without

ASSUME GuardAssumption ==
  /\ Rows \subseteq Nat /\ InitialRows \in Rows
  /\ MinRows \in Nat /\ RetainDen \in Nat \ { 0 } /\ Consecutive \in Nat
  /\ MaxFaults < Consecutive
  /\ { MaxSessions, MaxGen, MaxFaults, MaxRestarts } \subseteq Nat
  /\ Spent \subseteq (0 .. MaxFaults) \X (0 .. MaxRestarts)

VARIABLES demand, lowest, faults,
          op, link, slot,
          srv, closed, rollupChan, work, admitted, deferred, current,
          table, dirty, guard, gate, crossed, cycle, blind, restarts

worldVars == << demand, lowest >>
opVars == << op, slot >>
applyVars == << admitted, deferred, crossed >>
sessVars == << srv, closed, rollupChan, work, current >>
tableVars == << table, dirty, guard, gate, applyVars >>
cycleVars == << cycle, blind >>
vars == << worldVars, faults, opVars, link, sessVars, tableVars, cycleVars, restarts >>

Sessions == 1 .. MaxSessions

Rollup == [ gen : 0 .. MaxGen, rows : Nat, kind : { "good", "wiped", "bad" } ]

NoRollup == [ gen |-> -1, rows |-> 0, kind |-> "none" ]

Maybe == Rollup \cup { NoRollup }

\* What a correct List of the CapacityRequests aggregates to.
Report(kind) ==
  [ gen |-> demand.gen, kind |-> kind, rows |-> IF kind = "wiped" THEN 0 ELSE demand.rows ]

-----------------------------------------------------------------------------
(* The cluster and its operator. *)

DemandChanges(r) ==
  /\ demand.gen < MaxGen
  /\ r # demand.rows
  /\ demand' = [ gen |-> demand.gen + 1, rows |-> r ]
  /\ lowest' = IF r < lowest THEN r ELSE lowest
  /\ UNCHANGED << faults, opVars, link, sessVars, tableVars, cycleVars, restarts >>

\* runOnce: the previous session has ended, dial again and send Hello.
RunOnce(s) ==
  /\ op[s] = "new"
  /\ \A t \in Sessions : t < s => op[t] = "ended"
  /\ op' = [ op EXCEPT ![s] = "open" ]
  /\ UNCHANGED << worldVars, faults, slot, link, sessVars, tableVars, cycleVars, restarts >>

\* runRollup: list, build, and replace whatever waits in the slot.  A List that
\* loses its content builds an empty roll-up, a malformed request a bad one.
runRollup(s, kind) ==
  /\ op[s] = "open"
  /\ kind # "good" => faults < MaxFaults
  /\ faults' = IF kind = "good" THEN faults ELSE faults + 1
  /\ slot' = [ slot EXCEPT ![s] = Report(kind) ]
  /\ UNCHANGED << worldVars, op, link, sessVars, tableVars, cycleVars, restarts >>

\* The worker's queue holds the newest roll-up only, and of a closed session none
\* that anybody will take.
enqueueRollup(s, r) ==
  rollupChan' = [ rollupChan EXCEPT ![s] = IF closed[s] THEN NoRollup ELSE r ]

\* sendLoop empties the slot.  On a live stream the shard's read pump hands the
\* roll-up to the session's worker, dropping one that still waits; on a broken
\* one the send may seem to succeed and nobody receives it.
sendLoop(s) ==
  /\ op[s] = "open" /\ slot[s] # NoRollup
  /\ link[s] => srv[s] = "open"
  /\ slot' = [ slot EXCEPT ![s] = NoRollup ]
  /\ IF link[s] THEN enqueueRollup(s, slot[s]) ELSE UNCHANGED rollupChan
  /\ UNCHANGED << worldVars, faults, op, link, srv, closed, work, current, tableVars, cycleVars, restarts >>

\* The stream breaks.  The last connection of a behaviour stays up.
Break(s) ==
  /\ op[s] = "open" /\ link[s] /\ s < MaxSessions
  /\ link' = [ link EXCEPT ![s] = FALSE ]
  /\ UNCHANGED << worldVars, faults, opVars, sessVars, tableVars, cycleVars, restarts >>

\* Any of the loops returns an error and takes the others with it.
SessionEnds(s) ==
  /\ op[s] = "open" /\ ~ link[s]
  /\ op' = [ op EXCEPT ![s] = "ended" ]
  /\ slot' = [ slot EXCEPT ![s] = NoRollup ]
  /\ UNCHANGED << worldVars, faults, link, sessVars, tableVars, cycleVars, restarts >>

-----------------------------------------------------------------------------
(* The shard's sessions. *)

\* operatorSession.close: the worker of a closed session returns when it takes
\* its next roll-up, so what waits in its queue is lost.
Close(S) ==
  /\ closed' = [ t \in Sessions |-> closed[t] \/ t \in S ]
  /\ rollupChan' = [ t \in Sessions |-> IF t \in S THEN NoRollup ELSE rollupChan[t] ]

\* Faulty variant of installSession: a connection counts as a report.
installSessionOpensGate(s) ==
  /\ op[s] # "new" /\ srv[s] = "none"
  /\ srv' = [ srv EXCEPT ![s] = "open" ]
  /\ Close({ current })
  /\ current' = s
  /\ gate' = TRUE
  /\ UNCHANGED << worldVars, faults, opVars, link, work, table, dirty, guard, applyVars,
                  cycleVars, restarts >>

\* Session: Hello arrives, the session is installed and closes the one that is
\* registered, be it of an older connection or, when this Hello was slow, of a
\* newer one, whose stream stays up.
installSession(s) ==
  /\ op[s] # "new" /\ srv[s] = "none"
  /\ srv' = [ srv EXCEPT ![s] = "open" ]
  /\ Close({ current })
  /\ current' = s
  /\ UNCHANGED << worldVars, faults, opVars, link, work, tableVars, cycleVars, restarts >>

\* Recv fails: the handler returns and unregisters its session unless a newer
\* one has taken its place.
removeSession(s) ==
  /\ srv[s] = "open" /\ ~ link[s]
  /\ srv' = [ srv EXCEPT ![s] = "gone" ]
  /\ Close({ s })
  /\ current' = IF current = s THEN 0 ELSE current
  /\ UNCHANGED << worldVars, faults, opVars, link, work, tableVars, cycleVars, restarts >>

\* rollupWorker takes a roll-up and looks at closed, once.
TakeRollup(s) ==
  /\ work[s] = NoRollup /\ admitted[s] = NoRollup /\ s \notin deferred
  /\ rollupChan[s] # NoRollup /\ ~ closed[s]
  /\ work' = [ work EXCEPT ![s] = rollupChan[s] ]
  /\ rollupChan' = [ rollupChan EXCEPT ![s] = NoRollup ]
  /\ UNCHANGED << worldVars, faults, opVars, link, srv, closed, current, tableVars, cycleVars, restarts >>

\* NeedsFromRollup refuses it: the last good demand stays.
RejectRollup(s) ==
  /\ work[s].kind = "bad"
  /\ work' = [ work EXCEPT ![s] = NoRollup ]
  /\ UNCHANGED << worldVars, faults, opVars, link, srv, closed, rollupChan, current,
                  tableVars, cycleVars, restarts >>

\* What would erase most of a large accepted demand is suspicious, and held until
\* it has been confirmed.  The baseline does not move meanwhile.
Suspicious(r) == guard.rows >= MinRows /\ r.rows * RetainDen < guard.rows

\* Faulty variant of Held: one confirmation too few.
HeldOnce(r) == Suspicious(r) /\ guard.held + 2 < Consecutive

Held(r) == Suspicious(r) /\ guard.held + 1 < Consecutive

\* Nobody but s is between the guard and the table.
AloneInside(s) == \A t \in Sessions \ { s } : admitted[t] = NoRollup

\* ApplyRollup, first step: rollupGuard.admit under the guard's lock.
Admit(s) ==
  /\ work[s] # NoRollup /\ work[s].kind # "bad"
  /\ work' = [ work EXCEPT ![s] = NoRollup ]
  /\ crossed' = (crossed \/ ~ AloneInside(s))
  /\ IF Held(work[s])
     THEN /\ guard' = [ guard EXCEPT !.held = @ + 1 ]
          /\ deferred' = deferred \cup { s }
          /\ UNCHANGED admitted
     ELSE /\ guard' = [ rows |-> work[s].rows, held |-> 0 ]
          /\ admitted' = [ admitted EXCEPT ![s] = work[s] ]
          /\ UNCHANGED deferred
  /\ UNCHANGED << worldVars, faults, opVars, link, srv, closed, rollupChan, current,
                  table, dirty, gate, cycleVars, restarts >>

\* Second step: needs.Replace under the table's lock.
Replace(s) ==
  /\ admitted[s] # NoRollup
  /\ table' = admitted[s]
  /\ dirty' = TRUE
  /\ admitted' = [ admitted EXCEPT ![s] = NoRollup ]
  /\ deferred' = deferred \cup { s }
  /\ crossed' = (crossed /\ ~ (AloneInside(s) /\ guard.rows = admitted[s].rows))
  /\ UNCHANGED << worldVars, faults, opVars, link, sessVars, guard, gate, cycleVars, restarts >>

\* Last step, deferred: the gate opens, whether the roll-up was held or not.  The
\* worker has not looked at closed again.
MarkFirstRollupReceived(s) ==
  /\ s \in deferred
  /\ gate' = TRUE
  /\ deferred' = deferred \ { s }
  /\ UNCHANGED << worldVars, faults, opVars, link, sessVars, table, dirty, guard, admitted, crossed,
                  cycleVars, restarts >>

-----------------------------------------------------------------------------
(* The decision cycle's two reads. *)

\* Faulty variant of Snapshot: a cached result is returned although it is dirty.
SnapshotCached ==
  /\ ~ cycle.on
  /\ dirty' = FALSE
  /\ cycle' = [ on |-> TRUE, snap |-> IF cycle.snap = NoRollup THEN table ELSE cycle.snap ]
  /\ UNCHANGED << worldVars, faults, opVars, link, sessVars, table, guard, gate, applyVars, blind, restarts >>

\* Table.Snapshot at the start of a cycle.
Snapshot ==
  /\ ~ cycle.on
  /\ dirty' = FALSE
  /\ cycle' = [ on |-> TRUE, snap |-> IF dirty THEN table ELSE cycle.snap ]
  /\ UNCHANGED << worldVars, faults, opVars, link, sessVars, table, guard, gate, applyVars, blind, restarts >>

\* Phase 3 asks FirstRollupReceived, after Phases 1 and 2 have run.
Phase3 ==
  /\ cycle.on
  /\ cycle' = [ cycle EXCEPT !.on = FALSE ]
  /\ blind' = IF gate /\ ~ crossed /\ cycle.snap = NoRollup THEN blind + 1 ELSE blind
  /\ UNCHANGED << worldVars, faults, opVars, link, sessVars, tableVars, restarts >>

\* The shard process restarts: everything it kept in memory is gone, and every
\* stream with it.
Restart ==
  /\ restarts < MaxRestarts
  /\ \A s \in Sessions : op[s] = "open" => s < MaxSessions
  /\ restarts' = restarts + 1
  /\ link' = [ s \in Sessions |-> link[s] /\ op[s] = "new" ]
  /\ srv' = [ s \in Sessions |-> IF op[s] = "new" THEN "none" ELSE "gone" ]
  /\ closed' = [ s \in Sessions |-> op[s] # "new" ]
  /\ rollupChan' = [ s \in Sessions |-> NoRollup ]
  /\ work' = [ s \in Sessions |-> NoRollup ]
  /\ admitted' = [ s \in Sessions |-> NoRollup ]
  /\ deferred' = {} /\ crossed' = FALSE
  /\ current' = 0
  /\ table' = NoRollup /\ dirty' = FALSE
  /\ guard' = [ rows |-> 0, held |-> 0 ]
  /\ gate' = FALSE
  /\ cycle' = [ on |-> FALSE, snap |-> NoRollup ]
  /\ blind' = 0
  /\ UNCHANGED << worldVars, faults, opVars >>

-----------------------------------------------------------------------------

Init ==
  /\ demand = [ gen |-> 0, rows |-> InitialRows ]
  /\ lowest = InitialRows
  /\ \E s \in Spent : faults = s[1] /\ restarts = s[2]
  /\ op = [ s \in Sessions |-> "new" ]
  /\ link = [ s \in Sessions |-> TRUE ]
  /\ slot = [ s \in Sessions |-> NoRollup ]
  /\ srv = [ s \in Sessions |-> "none" ]
  /\ closed = [ s \in Sessions |-> FALSE ]
  /\ rollupChan = [ s \in Sessions |-> NoRollup ]
  /\ work = [ s \in Sessions |-> NoRollup ]
  /\ admitted = [ s \in Sessions |-> NoRollup ]
  /\ deferred = {} /\ crossed = FALSE
  /\ current = 0
  /\ table = NoRollup /\ dirty = FALSE
  /\ guard = [ rows |-> 0, held |-> 0 ]
  /\ gate = FALSE
  /\ cycle = [ on |-> FALSE, snap |-> NoRollup ]
  /\ blind = 0

Operator(s) ==
  \/ RunOnce(s) \/ sendLoop(s) \/ SessionEnds(s)
  \/ runRollup(s, "good")

Session(s) == installSession(s) \/ removeSession(s)

rollupWorker(s) ==
  \/ TakeRollup(s) \/ RejectRollup(s)
  \/ Admit(s) \/ Replace(s) \/ MarkFirstRollupReceived(s)

Next ==
  \/ \E r \in Rows : DemandChanges(r)
  \/ \E s \in Sessions :
       \/ Operator(s) \/ Session(s) \/ rollupWorker(s)
       \/ \E kind \in { "wiped", "bad" } : runRollup(s, kind)
       \/ Break(s)
  \/ Snapshot \/ Phase3
  \/ Restart

Spec == Init /\ [][Next]_vars

\* Timers fire, goroutines run and broken streams are noticed.  The Hello of a
\* stream that broke before it was handled may come late or never.
Fairness ==
  /\ \A s \in Sessions :
       /\ WF_vars(RunOnce(s)) /\ WF_vars(sendLoop(s)) /\ WF_vars(SessionEnds(s))
       /\ WF_vars(runRollup(s, "good"))
       /\ WF_vars(link[s] /\ installSession(s)) /\ WF_vars(removeSession(s))
       /\ WF_vars(rollupWorker(s))
  /\ WF_vars(Snapshot) /\ WF_vars(Phase3)

FairSpec == Spec /\ Fairness

-----------------------------------------------------------------------------
(* Properties. *)

\* Every variable has its type; the guard never holds more than it may.
TypeOK ==
  /\ demand \in [ gen : 0 .. MaxGen, rows : Rows ]
  /\ lowest \in Rows
  /\ faults \in 0 .. MaxFaults /\ restarts \in 0 .. MaxRestarts
  /\ op \in [ Sessions -> { "new", "open", "ended" } ]
  /\ link \in [ Sessions -> BOOLEAN ]
  /\ slot \in [ Sessions -> Maybe ]
  /\ srv \in [ Sessions -> { "none", "open", "gone" } ]
  /\ closed \in [ Sessions -> BOOLEAN ]
  /\ rollupChan \in [ Sessions -> Maybe ] /\ work \in [ Sessions -> Maybe ]
  /\ admitted \in [ Sessions -> Maybe ] /\ deferred \subseteq Sessions /\ crossed \in BOOLEAN
  /\ current \in 0 .. MaxSessions
  /\ table \in Maybe /\ dirty \in BOOLEAN
  /\ guard \in [ rows : Nat, held : 0 .. Consecutive - 1 ]
  /\ gate \in BOOLEAN
  /\ cycle \in [ on : BOOLEAN, snap : Maybe ]
  /\ blind \in Nat

\* The table shrinks to less than a tenth of a large demand only if the cluster's
\* demand really was less than that tenth at some time.
WipeExplained ==
  table.rows >= MinRows /\ table' # NoRollup /\ table'.rows * RetainDen < table.rows
    => lowest * RetainDen < table.rows

\* A large accepted demand is not erased by fewer than Consecutive truncated
\* roll-ups, whatever is retried, reordered or replaced on the way, unless two
\* workers were between the guard and the table at once.
WipeHeldUncrossed == [][crossed \/ WipeExplained]_vars

\* What the comment of ApplyRollup says without that exception: the previous
\* demand stays active until consecutive roll-ups confirm the drop.
WipeHeld == [][WipeExplained]_vars

\* A restarted shard does not reclaim on demand it has not heard: at most one
\* cycle of a process, the one a first roll-up lands in the middle of, passes
\* the gate with demand it read before any roll-up, crossed workers apart.
BlindAtMostOnce == blind <= 1

\* What the comment of ApplyRollup says of the gate: where a roll-up, held or
\* not, has opened it, the demand the shard acts on is a reported one.
GateMeansDemand == gate => table # NoRollup

\* A connection whose stream carries roll-ups nobody applies: a slow Hello of an
\* older one has closed its session.
Overtaken(s) == link[s] /\ srv[s] = "open" /\ closed[s]

\* The demand the cycle decides on becomes and stays the cluster's current one,
\* or the connection was overtaken for good: a late roll-up of a replaced
\* session, a held, dropped or rejected one, crossed workers, a reconnect or a
\* restart delay that but do not prevent it.
ConvergesUnlessOvertaken ==
  <>[](cycle.snap = Report("good")) \/ <>[](\E s \in Sessions : Overtaken(s))

\* What the docs say of a partition between operator and shard: the fresh demand
\* is back once the operator has reconnected and sent its roll-up.
Converges == <>[](cycle.snap = Report("good"))
=============================================================================
