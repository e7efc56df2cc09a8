------------------------ MODULE RollupIngestProofs -------------------------
(***************************************************************************)
(* Theorems about RollupIngest, for any number of connections, changes of  *)
(* the demand, restarts and wrong roll-ups below the guard's confirmations: *)
(* a shard decides blindly in at most one cycle of a process, and wrong    *)
(* roll-ups do not erase a large demand, unless the workers of two sessions*)
(* cross between the guard and the table.                                  *)
(***************************************************************************)
EXTENDS RollupIngest, FiniteSetTheorems, TLAPS

-----------------------------------------------------------------------------
(* The inductive invariant. *)

\* A worker takes its next roll-up when it is done with the last.
OneAtATime == \A s \in Sessions : work[s] # NoRollup => admitted[s] = NoRollup

\* Without a crossing one worker at most is between the guard and the table.
OneInside ==
  ~ crossed => \A s, t \in Sessions : admitted[s] # NoRollup /\ admitted[t] # NoRollup => s = t

\* The guard then compares with the roll-up in force, or with the one about to be.
BaselineInForce ==
  ~ crossed =>
    /\ (\A s \in Sessions : admitted[s] = NoRollup) => guard.rows = table.rows
    /\ \A s \in Sessions : admitted[s] # NoRollup => guard.rows = admitted[s].rows

\* and what it let through has been compared with the roll-up in force.
Shrinks(r) == table.rows >= MinRows /\ r.rows * RetainDen < table.rows

AdmittedConfirmed ==
  ~ crossed => \A s \in Sessions :
                 admitted[s] # NoRollup /\ Shrinks(admitted[s]) => lowest * RetainDen < table.rows

\* The gate opens behind an applied roll-up: a held one needs a baseline to be
\* held against, and the baseline's roll-up is in the table unless workers cross.
GateAfterReport == ~ crossed /\ (gate \/ deferred # {}) => table # NoRollup

\* The cached snapshot is the table unless the table is marked dirty.
SnapshotFresh == ~ dirty => cycle.snap = table

\* After a blind cycle no later one reads the table empty.
BlindThenSeen == blind > 0 => gate /\ table # NoRollup /\ (cycle.on => cycle.snap # NoRollup)

LowestReached == lowest <= demand.rows

\* A roll-up of a correct List never has fewer rows than the demand ever had.
Truthful(r) == r.kind = "good" => r.rows >= lowest

ReportsTruthful ==
  \A s \in Sessions : Truthful(slot[s]) /\ Truthful(rollupChan[s]) /\ Truthful(work[s])

\* The truncated roll-ups under way, in the slots, the queues or the workers.
Wiped(f) == { s \in Sessions : f[s].kind = "wiped" }

WipedCount == Cardinality(Wiped(slot)) + Cardinality(Wiped(rollupChan)) + Cardinality(Wiped(work))

\* Each is a fault of its own: nothing on the way makes two of one.
WipedWereFaults == WipedCount <= faults

\* Unless the demand really was that low, each roll-up the guard holds was one too.
HeldWereWiped == lowest * RetainDen < guard.rows \/ guard.held + WipedCount <= faults

IInv ==
  /\ TypeOK
  /\ OneAtATime /\ OneInside /\ BaselineInForce /\ AdmittedConfirmed
  /\ GateAfterReport /\ SnapshotFresh /\ BlindThenSeen /\ BlindAtMostOnce
  /\ LowestReached /\ ReportsTruthful /\ WipedWereFaults /\ HeldWereWiped

-----------------------------------------------------------------------------
(* Types. *)

LEMMA ReportTyped ==
  ASSUME TypeOK, NEW kind \in { "good", "wiped", "bad" }
  PROVE  Report(kind) \in Rollup
BY GuardAssumption DEF TypeOK, Report, Rollup

LEMMA MaybeTyped ==
  ASSUME NEW r \in Maybe
  PROVE  /\ r.rows \in Nat /\ r.kind \in { "good", "wiped", "bad", "none" }
         /\ r # NoRollup => r \in Rollup
BY DEF Maybe, Rollup, NoRollup

LEMMA TimesGrows ==
  ASSUME NEW a \in Nat, NEW b \in Nat, NEW k \in Nat, a <= b
  PROVE  a * k \in Nat /\ b * k \in Nat /\ a * k <= b * k
OBVIOUS

LEMMA InitTyped == Init => TypeOK
<1> SUFFICES ASSUME Init PROVE TypeOK  OBVIOUS
<1> USE GuardAssumption DEF Init
<1>1. NoRollup \in Maybe  BY DEF Maybe
<1>2. /\ MaxSessions \in Nat /\ MaxGen \in Nat /\ MaxFaults \in Nat /\ MaxRestarts \in Nat
      /\ 0 \in 0 .. Consecutive - 1
  OBVIOUS
<1>3. demand \in [ gen : 0 .. MaxGen, rows : Rows ] /\ lowest \in Rows  BY <1>2
<1>4. guard \in [ rows : Nat, held : 0 .. Consecutive - 1 ]  BY <1>2
<1>5. cycle \in [ on : BOOLEAN, snap : Maybe ]  BY <1>1
<1>6. current \in 0 .. MaxSessions /\ faults \in 0 .. MaxFaults /\ restarts \in 0 .. MaxRestarts
  BY <1>2
<1>7. /\ slot \in [ Sessions -> Maybe ] /\ rollupChan \in [ Sessions -> Maybe ]
      /\ work \in [ Sessions -> Maybe ] /\ table \in Maybe
      /\ admitted \in [ Sessions -> Maybe ] /\ deferred \subseteq Sessions
  BY <1>1
<1> QED  BY <1>3, <1>4, <1>5, <1>6, <1>7 DEF TypeOK

LEMMA CloseTyped ==
  ASSUME TypeOK, NEW S, Close(S)
  PROVE  closed' \in [ Sessions -> BOOLEAN ] /\ rollupChan' \in [ Sessions -> Maybe ]
BY DEF TypeOK, Close, Maybe

LEMMA TypeStep == TypeOK /\ [Next]_vars => TypeOK'
<1> SUFFICES ASSUME TypeOK, [Next]_vars PROVE TypeOK'  OBVIOUS
<1> USE GuardAssumption DEF worldVars, opVars, sessVars, tableVars, cycleVars, applyVars
<1>1. ASSUME NEW r \in Rows, DemandChanges(r)  PROVE TypeOK'
  BY <1>1 DEF DemandChanges, TypeOK
<1>2. ASSUME NEW s \in Sessions, RunOnce(s) \/ Break(s)  PROVE TypeOK'
  BY <1>2 DEF RunOnce, Break, TypeOK
<1>3. ASSUME NEW s \in Sessions, SessionEnds(s)  PROVE TypeOK'
  BY <1>3 DEF SessionEnds, TypeOK, Maybe
<1>4. ASSUME NEW s \in Sessions, NEW kind \in { "good", "wiped", "bad" }, runRollup(s, kind)
      PROVE  TypeOK'
  <2>1. Report(kind) \in Maybe  BY ReportTyped DEF Maybe
  <2>2. faults' \in 0 .. MaxFaults  BY <1>4 DEF runRollup, TypeOK
  <2> QED  BY <1>4, <2>1, <2>2 DEF runRollup, TypeOK
<1>5. ASSUME NEW s \in Sessions, sendLoop(s)  PROVE TypeOK'
  BY <1>5 DEF sendLoop, enqueueRollup, TypeOK, Maybe
<1>6. ASSUME NEW s \in Sessions, installSession(s)  PROVE TypeOK'
  <2>1. closed' \in [ Sessions -> BOOLEAN ] /\ rollupChan' \in [ Sessions -> Maybe ]
    BY <1>6, CloseTyped DEF installSession
  <2>2. current' \in 0 .. MaxSessions  BY <1>6 DEF installSession, Sessions
  <2>3. srv' \in [ Sessions -> { "none", "open", "gone" } ]
    BY <1>6 DEF installSession, TypeOK
  <2>4. UNCHANGED << worldVars, faults, opVars, link, work, tableVars, cycleVars, restarts >>
    BY <1>6 DEF installSession
  <2> QED  BY <2>1, <2>2, <2>3, <2>4 DEF TypeOK, worldVars, opVars, tableVars, cycleVars
<1>7. ASSUME NEW s \in Sessions, removeSession(s)  PROVE TypeOK'
  <2>1. closed' \in [ Sessions -> BOOLEAN ] /\ rollupChan' \in [ Sessions -> Maybe ]
    BY <1>7, CloseTyped DEF removeSession
  <2>2. current' \in 0 .. MaxSessions  BY <1>7 DEF removeSession, TypeOK
  <2>3. srv' \in [ Sessions -> { "none", "open", "gone" } ]
    BY <1>7 DEF removeSession, TypeOK
  <2>4. UNCHANGED << worldVars, faults, opVars, link, work, tableVars, cycleVars, restarts >>
    BY <1>7 DEF removeSession
  <2> QED  BY <2>1, <2>2, <2>3, <2>4 DEF TypeOK, worldVars, opVars, tableVars, cycleVars
<1>8. ASSUME NEW s \in Sessions, TakeRollup(s) \/ RejectRollup(s)  PROVE TypeOK'
  BY <1>8 DEF TakeRollup, RejectRollup, TypeOK, Maybe
<1>9. ASSUME NEW s \in Sessions, Admit(s)  PROVE TypeOK'
  <2>1. work' \in [ Sessions -> Maybe ]  BY <1>9 DEF Admit, TypeOK, Maybe
  <2>2. work[s] \in Maybe /\ work[s].rows \in Nat  BY MaybeTyped DEF TypeOK
  <2>3. guard' \in [ rows : Nat, held : 0 .. Consecutive - 1 ]
    BY <1>9, <2>2 DEF Admit, TypeOK, Held
  <2>4. admitted' \in [ Sessions -> Maybe ] /\ deferred' \subseteq Sessions
    BY <1>9, <2>2 DEF Admit, TypeOK
  <2>5. crossed' \in BOOLEAN  BY <1>9 DEF Admit, TypeOK
  <2> QED  BY <1>9, <2>1, <2>3, <2>4, <2>5 DEF Admit, TypeOK
<1>13. ASSUME NEW s \in Sessions, Replace(s)  PROVE TypeOK'
  <2>1. table' \in Maybe /\ admitted' \in [ Sessions -> Maybe ] /\ deferred' \subseteq Sessions
    BY <1>13 DEF Replace, TypeOK, Maybe
  <2>2. crossed' \in BOOLEAN /\ dirty' \in BOOLEAN  BY <1>13 DEF Replace, TypeOK
  <2> QED  BY <1>13, <2>1, <2>2 DEF Replace, TypeOK
<1>14. ASSUME NEW s \in Sessions, MarkFirstRollupReceived(s)  PROVE TypeOK'
  BY <1>14 DEF MarkFirstRollupReceived, TypeOK
<1>10. CASE Snapshot \/ Phase3
  <2>1. cycle' \in [ on : BOOLEAN, snap : Maybe ] /\ dirty' \in BOOLEAN
    <3>1. cycle \in [ on : BOOLEAN, snap : Maybe ] /\ table \in Maybe /\ dirty \in BOOLEAN
      BY DEF TypeOK
    <3>2. CASE Snapshot  BY <3>1, <3>2 DEF Snapshot
    <3>3. CASE Phase3  BY <3>1, <3>3 DEF Phase3
    <3> QED  BY <1>10, <3>2, <3>3
  <2>2. blind' \in Nat  BY <1>10 DEF Snapshot, Phase3, TypeOK
  <2> QED  BY <1>10, <2>1, <2>2 DEF Snapshot, Phase3, TypeOK
<1>11. CASE Restart
  <2>1. NoRollup \in Maybe /\ 0 \in 0 .. Consecutive - 1 /\ 0 \in 0 .. MaxSessions
    BY DEF Maybe
  <2>2. /\ rollupChan' \in [ Sessions -> Maybe ] /\ work' \in [ Sessions -> Maybe ]
        /\ table' \in Maybe /\ cycle' \in [ on : BOOLEAN, snap : Maybe ]
        /\ guard' \in [ rows : Nat, held : 0 .. Consecutive - 1 ]
        /\ current' \in 0 .. MaxSessions
        /\ admitted' \in [ Sessions -> Maybe ] /\ deferred' \subseteq Sessions
    BY <1>11, <2>1 DEF Restart
  <2>3. /\ link' \in [ Sessions -> BOOLEAN ] /\ closed' \in [ Sessions -> BOOLEAN ]
        /\ srv' \in [ Sessions -> { "none", "open", "gone" } ]
        /\ restarts' \in 0 .. MaxRestarts
    BY <1>11 DEF Restart, TypeOK
  <2> QED  BY <1>11, <2>2, <2>3 DEF Restart, TypeOK
<1>12. CASE UNCHANGED vars
  BY <1>12 DEF vars, TypeOK
<1> QED
  BY <1>1, <1>2, <1>3, <1>4, <1>5, <1>6, <1>7, <1>8, <1>9, <1>10, <1>11, <1>12, <1>13, <1>14
  DEF Next, Operator, Session, rollupWorker

-----------------------------------------------------------------------------
(* Counting truncated roll-ups. *)

LEMMA WipedFinite ==
  ASSUME NEW f
  PROVE  IsFiniteSet(Wiped(f)) /\ Cardinality(Wiped(f)) \in Nat
<1>1. IsFiniteSet(Sessions)  BY GuardAssumption, FS_Interval DEF Sessions
<1>2. Wiped(f) \subseteq Sessions  BY DEF Wiped
<1> QED  BY <1>1, <1>2, FS_Subset, FS_CardinalityType

\* A place that gives up its roll-up.
LEMMA WipedEmptied ==
  ASSUME NEW f \in [ Sessions -> Maybe ], NEW s \in Sessions
  PROVE  Cardinality(Wiped([ f EXCEPT ![s] = NoRollup ]))
           = Cardinality(Wiped(f)) - (IF f[s].kind = "wiped" THEN 1 ELSE 0)
<1> DEFINE g == [ f EXCEPT ![s] = NoRollup ]
<1>1. Wiped(g) = Wiped(f) \ { s }  BY DEF Wiped, NoRollup
<1>2. s \in Wiped(f) <=> f[s].kind = "wiped"  BY DEF Wiped
<1> HIDE DEF g
<1>3. CASE f[s].kind = "wiped"
  BY <1>1, <1>2, <1>3, WipedFinite, FS_RemoveElement DEF g
<1>4. CASE f[s].kind # "wiped"
  <2>1. Wiped(g) = Wiped(f)  BY <1>1, <1>2, <1>4
  <2> QED  BY <1>4, <2>1, WipedFinite DEF g
<1> QED  BY <1>3, <1>4

\* A place that receives a roll-up.
LEMMA WipedFilled ==
  ASSUME NEW f \in [ Sessions -> Maybe ], NEW s \in Sessions, NEW r \in Maybe
  PROVE  Cardinality(Wiped([ f EXCEPT ![s] = r ]))
           <= Cardinality(Wiped(f)) + (IF r.kind = "wiped" THEN 1 ELSE 0)
<1> DEFINE g == [ f EXCEPT ![s] = r ]
<1>1. CASE r.kind = "wiped"
  <2>1. Wiped(g) = Wiped(f) \cup { s }  BY <1>1 DEF Wiped
  <2> HIDE DEF g
  <2>2. Cardinality(Wiped(g)) <= Cardinality(Wiped(f)) + 1
    <3>1. IsFiniteSet(Wiped(f)) /\ Cardinality(Wiped(f)) \in Nat  BY WipedFinite
    <3>2. Cardinality(Wiped(f) \cup { s }) \in { Cardinality(Wiped(f)), Cardinality(Wiped(f)) + 1 }
      BY <3>1, FS_AddElement
    <3> QED  BY <2>1, <3>1, <3>2
  <2> QED  BY <1>1, <2>2 DEF g
<1>2. CASE r.kind # "wiped"
  <2>1. Wiped(g) \subseteq Wiped(f)  BY <1>2 DEF Wiped
  <2> HIDE DEF g
  <2>2. Cardinality(Wiped(g)) <= Cardinality(Wiped(f))  BY <2>1, WipedFinite, FS_Subset
  <2>3. (IF r.kind = "wiped" THEN 1 ELSE 0) = 0  BY <1>2
  <2> QED  BY <2>2, <2>3, WipedFinite DEF g
<1> QED  BY <1>1, <1>2

\* Places that keep their roll-ups or lose them.
LEMMA WipedLost ==
  ASSUME NEW f, NEW g, \A s \in Sessions : g[s] = f[s] \/ g[s] = NoRollup
  PROVE  Cardinality(Wiped(g)) <= Cardinality(Wiped(f))
<1>1. Wiped(g) \subseteq Wiped(f)  BY DEF Wiped, NoRollup
<1> QED  BY <1>1, WipedFinite, FS_Subset

-----------------------------------------------------------------------------
(* Roll-ups held. *)

WipeInv == LowestReached /\ ReportsTruthful /\ WipedWereFaults /\ HeldWereWiped

LEMMA InitWipe == Init => WipeInv
<1> SUFFICES ASSUME Init PROVE WipeInv  OBVIOUS
<1>1. Wiped(slot) = {} /\ Wiped(rollupChan) = {} /\ Wiped(work) = {}
  BY DEF Init, Wiped, NoRollup
<1>2. WipedCount = 0  BY <1>1, FS_EmptySet DEF WipedCount
<1>3. LowestReached  BY GuardAssumption DEF Init, LowestReached
<1>4. ReportsTruthful  BY DEF Init, ReportsTruthful, Truthful, NoRollup
<1>5. faults \in Nat /\ guard.held = 0  BY GuardAssumption DEF Init
<1> QED  BY <1>2, <1>3, <1>4, <1>5 DEF WipeInv, WipedWereFaults, HeldWereWiped

LEMMA NoneAdded == \A h, n \in Nat : h = 0 => h + n = n
OBVIOUS

LEMMA AtMostFaults ==
  ASSUME NEW h \in Nat, NEW n \in Nat, NEW f \in Nat, NEW n2 \in Nat, NEW f2 \in Nat,
         n2 + f <= n + f2
  PROVE  (n <= f => n2 <= f2) /\ (h + n <= f => h + n2 <= f2)
OBVIOUS

\* No more truncated roll-ups come under way than faults are counted.
LEMMA WipeKept ==
  ASSUME TypeOK, TypeOK', WipeInv, ReportsTruthful', UNCHANGED << lowest, demand >>,
         WipedCount' + faults <= WipedCount + faults', guard' = guard
  PROVE  WipeInv'
<1>1. WipedCount \in Nat /\ WipedCount' \in Nat  BY WipedFinite DEF WipedCount
<1>2. faults \in Nat /\ faults' \in Nat /\ guard.held \in Nat  BY GuardAssumption DEF TypeOK
<1>3. WipedWereFaults'  BY <1>1, <1>2, AtMostFaults DEF WipeInv, WipedWereFaults
<1>4. HeldWereWiped'  BY <1>1, <1>2, AtMostFaults DEF WipeInv, HeldWereWiped
<1>5. LowestReached'  BY DEF WipeInv, LowestReached
<1> QED  BY <1>3, <1>4, <1>5 DEF WipeInv

LEMMA WipeStepDemand ==
  ASSUME TypeOK, TypeOK', WipeInv, NEW r \in Rows, DemandChanges(r)
  PROVE  WipeInv'
<1> USE DEF WipeInv
<1>1. /\ UNCHANGED << faults, slot, rollupChan, work, guard >>
      /\ lowest \in Nat /\ lowest' \in Nat /\ lowest' <= lowest
  BY GuardAssumption DEF DemandChanges, opVars, sessVars, tableVars, TypeOK
<1>2. ReportsTruthful'
  <2> SUFFICES ASSUME NEW s \in Sessions
               PROVE  (Truthful(slot[s]) /\ Truthful(rollupChan[s]) /\ Truthful(work[s]))'
    BY DEF ReportsTruthful
  <2>1. slot[s].rows \in Nat /\ rollupChan[s].rows \in Nat /\ work[s].rows \in Nat
    BY MaybeTyped DEF TypeOK
  <2>2. Truthful(slot[s]) /\ Truthful(rollupChan[s]) /\ Truthful(work[s])
    BY DEF ReportsTruthful
  <2> QED  BY <1>1, <2>1, <2>2 DEF Truthful
<1>3. WipedCount' = WipedCount  BY <1>1 DEF WipedCount, Wiped
<1>4. WipedWereFaults'  BY <1>1, <1>3 DEF WipedWereFaults
<1>5. lowest * RetainDen < guard.rows => lowest' * RetainDen < guard.rows
  <2>1. RetainDen \in Nat /\ guard.rows \in Nat  BY GuardAssumption DEF TypeOK
  <2>2. lowest' * RetainDen <= lowest * RetainDen  BY <1>1, <2>1, TimesGrows
  <2>3. lowest * RetainDen \in Nat /\ lowest' * RetainDen \in Nat
    BY <1>1, <2>1, TimesGrows
  <2> QED  BY <2>1, <2>2, <2>3
<1>6. HeldWereWiped'  BY <1>1, <1>3, <1>5 DEF HeldWereWiped
<1>7. LowestReached'
  <2>1. demand.rows \in Nat /\ r \in Nat /\ demand'.rows = r
    BY GuardAssumption DEF TypeOK, DemandChanges
  <2> QED  BY <1>1, <2>1 DEF DemandChanges, LowestReached
<1> QED  BY <1>2, <1>4, <1>6, <1>7

\* Where roll-ups are only moved on, lost or built truthfully.
LEMMA TruthfulKept ==
  ASSUME ReportsTruthful, lowest' = lowest,
         \A s \in Sessions :
           \A r \in { slot'[s], rollupChan'[s], work'[s] } :
             r \in { slot[s], rollupChan[s], work[s], NoRollup } \/ Truthful(r)
  PROVE  ReportsTruthful'
BY DEF ReportsTruthful, Truthful, NoRollup

LEMMA WipeStepBuild ==
  ASSUME TypeOK, TypeOK', WipeInv, NEW s \in Sessions, NEW kind \in { "good", "wiped", "bad" },
         runRollup(s, kind)
  PROVE  WipeInv'
<1>1. /\ slot' = [ slot EXCEPT ![s] = Report(kind) ]
      /\ UNCHANGED << worldVars, rollupChan, work, guard >>
      /\ faults' = IF kind = "good" THEN faults ELSE faults + 1
  BY DEF runRollup, sessVars, tableVars
<1>2. Report(kind) \in Maybe /\ Report(kind).kind = kind /\ Truthful(Report(kind))
  <2>1. Report(kind) \in Maybe  BY ReportTyped DEF Maybe
  <2>2. Report(kind).kind = kind  BY DEF Report
  <2>3. Truthful(Report(kind))  BY DEF Report, Truthful, WipeInv, LowestReached
  <2> QED  BY <2>1, <2>2, <2>3
<1>3. slot \in [ Sessions -> Maybe ] /\ faults \in Nat
  BY GuardAssumption DEF TypeOK
<1>4. ReportsTruthful'
  <2>1. \A t \in Sessions : slot'[t] \in { slot[t], Report(kind) }  BY <1>1, <1>3
  <2> QED  BY <1>1, <1>2, <2>1, TruthfulKept DEF WipeInv, worldVars
<1>5. Cardinality(Wiped(slot')) <= Cardinality(Wiped(slot)) + (IF kind = "wiped" THEN 1 ELSE 0)
  BY <1>1, <1>2, <1>3, WipedFilled
<1>6. WipedCount' + faults <= WipedCount + faults'
  <2>1. /\ Cardinality(Wiped(slot)) \in Nat /\ Cardinality(Wiped(slot')) \in Nat
        /\ Cardinality(Wiped(rollupChan)) \in Nat /\ Cardinality(Wiped(work)) \in Nat
    BY WipedFinite
  <2>2. Cardinality(Wiped(rollupChan')) = Cardinality(Wiped(rollupChan))
        /\ Cardinality(Wiped(work')) = Cardinality(Wiped(work))
    BY <1>1
  <2>3. CASE kind = "good"
    <3>1. faults' = faults /\ Cardinality(Wiped(slot')) <= Cardinality(Wiped(slot))
      BY <1>1, <1>5, <2>1, <2>3
    <3> QED  BY <1>3, <2>1, <2>2, <3>1 DEF WipedCount
  <2>4. CASE kind # "good"
    <3>1. faults' = faults + 1 /\ Cardinality(Wiped(slot')) <= Cardinality(Wiped(slot)) + 1
      BY <1>1, <1>5, <2>1, <2>4
    <3> QED  BY <1>3, <2>1, <2>2, <3>1 DEF WipedCount
  <2> QED  BY <2>3, <2>4
<1> QED  BY <1>1, <1>4, <1>6, WipeKept DEF worldVars

\* Steps that lose roll-ups or move one on, with the guard as it is.
LEMMA WipeStepFewer ==
  ASSUME TypeOK, TypeOK', WipeInv, UNCHANGED << worldVars, faults, guard >>, ReportsTruthful',
         WipedCount' <= WipedCount
  PROVE  WipeInv'
<1>1. WipedCount \in Nat /\ WipedCount' \in Nat /\ faults \in Nat
  BY WipedFinite, GuardAssumption DEF WipedCount, TypeOK
<1>2. \A n, m, f \in Nat : m <= n => m + f <= n + f  OBVIOUS
<1>3. WipedCount' + faults <= WipedCount + faults'  BY <1>1, <1>2
<1> QED  BY <1>3, WipeKept DEF worldVars

\* Each place keeps what it had or loses it.
LEMMA WipeStepLost ==
  ASSUME TypeOK, TypeOK', WipeInv, UNCHANGED << worldVars, faults, guard >>,
         \A s \in Sessions : /\ slot'[s] \in { slot[s], NoRollup }
                             /\ rollupChan'[s] \in { rollupChan[s], NoRollup }
                             /\ work'[s] \in { work[s], NoRollup }
  PROVE  WipeInv'
<1>1. ReportsTruthful'  BY TruthfulKept DEF WipeInv, worldVars
<1>2. /\ Cardinality(Wiped(slot')) <= Cardinality(Wiped(slot))
      /\ Cardinality(Wiped(rollupChan')) <= Cardinality(Wiped(rollupChan))
      /\ Cardinality(Wiped(work')) <= Cardinality(Wiped(work))
  BY WipedLost
<1>3. WipedCount' <= WipedCount
  <2>1. /\ Cardinality(Wiped(slot)) \in Nat /\ Cardinality(Wiped(slot')) \in Nat
        /\ Cardinality(Wiped(rollupChan)) \in Nat /\ Cardinality(Wiped(rollupChan')) \in Nat
        /\ Cardinality(Wiped(work)) \in Nat /\ Cardinality(Wiped(work')) \in Nat
    BY WipedFinite
  <2> QED  BY <1>2, <2>1 DEF WipedCount
<1> QED  BY <1>1, <1>3, WipeStepFewer

\* One place hands its roll-up to the next, which drops what it had.
LEMMA HandOver ==
  ASSUME NEW f \in [ Sessions -> Maybe ], NEW g \in [ Sessions -> Maybe ], NEW s \in Sessions
  PROVE  Cardinality(Wiped([ f EXCEPT ![s] = NoRollup ]))
           + Cardinality(Wiped([ g EXCEPT ![s] = f[s] ]))
         <= Cardinality(Wiped(f)) + Cardinality(Wiped(g))
<1> DEFINE f2 == [ f EXCEPT ![s] = NoRollup ]
           g2 == [ g EXCEPT ![s] = f[s] ]
           k == IF f[s].kind = "wiped" THEN 1 ELSE 0
<1>1. Cardinality(Wiped(f2)) = Cardinality(Wiped(f)) - k  BY WipedEmptied
<1>2. Cardinality(Wiped(g2)) <= Cardinality(Wiped(g)) + k  BY WipedFilled
<1>3. k \in Nat  OBVIOUS
<1> HIDE DEF f2, g2, k
<1>4. /\ Cardinality(Wiped(f)) \in Nat /\ Cardinality(Wiped(g)) \in Nat
      /\ Cardinality(Wiped(f2)) \in Nat /\ Cardinality(Wiped(g2)) \in Nat
  BY WipedFinite
<1>5. Cardinality(Wiped(f2)) + Cardinality(Wiped(g2)) <= Cardinality(Wiped(f)) + Cardinality(Wiped(g))
  BY <1>1, <1>2, <1>3, <1>4
<1> QED  BY <1>5 DEF f2, g2

LEMMA WipeStepMove ==
  ASSUME TypeOK, TypeOK', WipeInv, NEW s \in Sessions,
         (link[s] /\ ~ closed[s] /\ sendLoop(s)) \/ TakeRollup(s)
  PROVE  WipeInv'
<1>1. UNCHANGED << worldVars, faults, guard >>
  BY DEF sendLoop, TakeRollup, tableVars
<1>2. /\ slot \in [ Sessions -> Maybe ] /\ rollupChan \in [ Sessions -> Maybe ]
      /\ work \in [ Sessions -> Maybe ]
  BY DEF TypeOK
<1>3. /\ Cardinality(Wiped(slot)) \in Nat /\ Cardinality(Wiped(slot')) \in Nat
      /\ Cardinality(Wiped(rollupChan)) \in Nat /\ Cardinality(Wiped(rollupChan')) \in Nat
      /\ Cardinality(Wiped(work)) \in Nat /\ Cardinality(Wiped(work')) \in Nat
  BY WipedFinite
<1>4. CASE link[s] /\ ~ closed[s] /\ sendLoop(s)
  <2>1. /\ slot' = [ slot EXCEPT ![s] = NoRollup ]
        /\ rollupChan' = [ rollupChan EXCEPT ![s] = slot[s] ] /\ work' = work
    BY <1>4 DEF sendLoop, enqueueRollup
  <2>2. ReportsTruthful'
    <3>1. \A t \in Sessions : /\ slot'[t] \in { slot[t], NoRollup }
                              /\ rollupChan'[t] \in { rollupChan[t], slot[t] }
      BY <1>2, <2>1
    <3> QED  BY <1>1, <2>1, <3>1, TruthfulKept DEF WipeInv, worldVars
  <2>3. Cardinality(Wiped(slot')) + Cardinality(Wiped(rollupChan'))
          <= Cardinality(Wiped(slot)) + Cardinality(Wiped(rollupChan))
    BY <1>2, <2>1, HandOver
  <2>4. WipedCount' <= WipedCount  BY <1>3, <2>1, <2>3 DEF WipedCount
  <2> QED  BY <1>1, <2>2, <2>4, WipeStepFewer
<1>5. CASE TakeRollup(s)
  <2>1. /\ rollupChan' = [ rollupChan EXCEPT ![s] = NoRollup ]
        /\ work' = [ work EXCEPT ![s] = rollupChan[s] ] /\ slot' = slot
    BY <1>5 DEF TakeRollup, opVars
  <2>2. ReportsTruthful'
    <3>1. \A t \in Sessions : /\ rollupChan'[t] \in { rollupChan[t], NoRollup }
                              /\ work'[t] \in { work[t], rollupChan[t] }
      BY <1>2, <2>1
    <3> QED  BY <1>1, <2>1, <3>1, TruthfulKept DEF WipeInv, worldVars
  <2>3. Cardinality(Wiped(rollupChan')) + Cardinality(Wiped(work'))
          <= Cardinality(Wiped(rollupChan)) + Cardinality(Wiped(work))
    BY <1>2, <2>1, HandOver
  <2>4. WipedCount' <= WipedCount  BY <1>3, <2>1, <2>3 DEF WipedCount
  <2> QED  BY <1>1, <2>2, <2>4, WipeStepFewer
<1> QED  BY <1>4, <1>5

\* The roll-up the guard weighs: what it is, and what its being taken does to the
\* count.
LEMMA Weighed ==
  ASSUME TypeOK, WipeInv, NEW s \in Sessions, Admit(s)
  PROVE  /\ work[s].rows \in Nat /\ work[s].kind \in { "good", "wiped" }
         /\ work[s].kind = "good" => work[s].rows >= lowest
         /\ WipedCount \in Nat /\ WipedCount' \in Nat
         /\ WipedCount' = WipedCount - (IF work[s].kind = "wiped" THEN 1 ELSE 0)
         /\ ReportsTruthful' /\ LowestReached'
         /\ UNCHANGED << worldVars, faults >>
<1>1. /\ work' = [ work EXCEPT ![s] = NoRollup ]
      /\ UNCHANGED << worldVars, faults, slot, rollupChan >>
      /\ work[s] # NoRollup /\ work[s].kind # "bad"
  BY DEF Admit, opVars
<1>2. work \in [ Sessions -> Maybe ]  BY DEF TypeOK
<1>3. work[s].rows \in Nat /\ work[s] \in Rollup  BY <1>1, <1>2, MaybeTyped
<1>4. work[s].kind \in { "good", "wiped" }  BY <1>1, <1>3 DEF Rollup
<1>5. work[s].kind = "good" => work[s].rows >= lowest
  BY DEF WipeInv, ReportsTruthful, Truthful
<1>6. Cardinality(Wiped(work'))
        = Cardinality(Wiped(work)) - (IF work[s].kind = "wiped" THEN 1 ELSE 0)
  BY <1>1, <1>2, WipedEmptied
<1>7. /\ Cardinality(Wiped(slot)) \in Nat /\ Cardinality(Wiped(rollupChan)) \in Nat
      /\ Cardinality(Wiped(work)) \in Nat /\ Cardinality(Wiped(work')) \in Nat
  BY WipedFinite
<1>8. /\ WipedCount \in Nat /\ WipedCount' \in Nat
      /\ WipedCount' = WipedCount - (IF work[s].kind = "wiped" THEN 1 ELSE 0)
  BY <1>1, <1>6, <1>7 DEF WipedCount
<1>9. ReportsTruthful'
  <2>1. \A t \in Sessions : work'[t] \in { work[t], NoRollup }  BY <1>1, <1>2
  <2> QED  BY <1>1, <2>1, TruthfulKept DEF WipeInv, worldVars
<1>10. LowestReached'  BY <1>1 DEF WipeInv, LowestReached, worldVars
<1> QED  BY <1>1, <1>3, <1>4, <1>5, <1>8, <1>9, <1>10

\* A correct roll-up that looks suspicious means the demand really was that low.
LEMMA SuspiciousGood ==
  ASSUME TypeOK, NEW r, r.rows \in Nat, r.rows >= lowest, Suspicious(r)
  PROVE  lowest * RetainDen < guard.rows
<1>1. lowest \in Nat /\ RetainDen \in Nat /\ guard.rows \in Nat  BY GuardAssumption DEF TypeOK
<1>2. /\ lowest * RetainDen \in Nat /\ r.rows * RetainDen \in Nat
      /\ lowest * RetainDen <= r.rows * RetainDen
  BY <1>1, TimesGrows
<1> QED  BY <1>1, <1>2 DEF Suspicious

LEMMA WipeStepAdmit ==
  ASSUME TypeOK, WipeInv, NEW s \in Sessions, Admit(s)
  PROVE  WipeInv'
<1>1. /\ WipedCount \in Nat /\ WipedCount' \in Nat /\ faults \in Nat /\ guard.held \in Nat
      /\ faults' = faults /\ lowest' = lowest
  BY Weighed, GuardAssumption DEF TypeOK, worldVars
<1>2. /\ work[s].kind = "wiped" => WipedCount' = WipedCount - 1
      /\ work[s].kind = "good" => WipedCount' = WipedCount
      /\ work[s].kind \in { "good", "wiped" }
  BY Weighed
<1>3. WipedWereFaults'  BY <1>1, <1>2 DEF WipeInv, WipedWereFaults
<1>4. HeldWereWiped'
  <2>1. CASE Held(work[s])
    <3>1. guard'.held = guard.held + 1 /\ guard'.rows = guard.rows
      BY <2>1 DEF Admit, TypeOK
    <3>2. CASE work[s].kind = "good"
      <4>1. lowest * RetainDen < guard.rows
        BY <2>1, <3>2, Weighed, SuspiciousGood DEF Held
      <4> QED  BY <1>1, <3>1, <4>1 DEF HeldWereWiped
    <3>3. CASE work[s].kind = "wiped"
      <4>1. WipedCount' = WipedCount - 1  BY <1>2, <3>3
      <4>2. guard'.held + WipedCount' = guard.held + WipedCount  BY <1>1, <3>1, <4>1
      <4> QED  BY <1>1, <3>1, <4>2 DEF WipeInv, HeldWereWiped
    <3> QED  BY <1>2, <3>2, <3>3
  <2>2. CASE ~ Held(work[s])
    <3>1. guard'.held = 0 /\ guard'.held \in Nat  BY <2>2 DEF Admit
    <3>2. guard'.held + WipedCount' = WipedCount'  BY <1>1, <3>1, NoneAdded, Zenon
    <3> QED  BY <1>3, <3>2, Zenon DEF HeldWereWiped, WipedWereFaults
  <2> QED  BY <2>1, <2>2
<1> QED  BY <1>3, <1>4, Weighed DEF WipeInv

LEMMA WipeStepRestart ==
  ASSUME TypeOK, TypeOK', WipeInv, Restart
  PROVE  WipeInv'
<1>1. /\ UNCHANGED << worldVars, faults, slot >> /\ guard' = [ rows |-> 0, held |-> 0 ]
      /\ rollupChan' = [ t \in Sessions |-> NoRollup ] /\ work' = [ t \in Sessions |-> NoRollup ]
  BY DEF Restart, opVars
<1>2. ReportsTruthful'  BY <1>1, TruthfulKept DEF WipeInv, worldVars
<1>3. Wiped(rollupChan') = {} /\ Wiped(work') = {}  BY <1>1 DEF Wiped, NoRollup
<1>4. WipedCount' = Cardinality(Wiped(slot))
  BY <1>1, <1>3, FS_EmptySet, WipedFinite DEF WipedCount
<1>5. WipedCount' <= WipedCount /\ WipedCount' \in Nat /\ WipedCount \in Nat /\ faults \in Nat
  <2>1. /\ Cardinality(Wiped(slot)) \in Nat /\ Cardinality(Wiped(rollupChan)) \in Nat
        /\ Cardinality(Wiped(work)) \in Nat
    BY WipedFinite
  <2> QED  BY <1>4, <2>1, GuardAssumption DEF WipedCount, TypeOK
<1>6. WipedWereFaults'  BY <1>1, <1>5 DEF WipeInv, WipedWereFaults
<1>7. HeldWereWiped'
  <2>1. guard'.held + WipedCount' = WipedCount'
    <3>1. guard'.held = 0 /\ guard'.held \in Nat  BY <1>1
    <3> QED  BY <1>5, <3>1, NoneAdded, Zenon
  <2> QED  BY <1>6, <2>1, Zenon DEF HeldWereWiped, WipedWereFaults
<1>8. LowestReached'  BY <1>1 DEF WipeInv, LowestReached, worldVars
<1> QED  BY <1>2, <1>6, <1>7, <1>8 DEF WipeInv

LEMMA WipeStep == TypeOK /\ WipeInv /\ [Next]_vars => WipeInv'
<1> SUFFICES ASSUME TypeOK, WipeInv, [Next]_vars PROVE WipeInv'  OBVIOUS
<1> USE DEF sessVars, tableVars, opVars
<1>1. TypeOK'  BY TypeStep
<1>2. ASSUME UNCHANGED << worldVars, faults, guard, slot, rollupChan, work >>  PROVE WipeInv'
  BY <1>1, <1>2, WipeStepLost
<1>3. ASSUME NEW s \in Sessions, SessionEnds(s)  PROVE WipeInv'
  <2>1. \A t \in Sessions : slot'[t] \in { slot[t], NoRollup }
    BY <1>3 DEF SessionEnds, TypeOK
  <2> QED  BY <1>1, <1>3, <2>1, WipeStepLost DEF SessionEnds
<1>4. ASSUME NEW s \in Sessions, sendLoop(s)  PROVE WipeInv'
  <2>1. CASE link[s] /\ ~ closed[s]  BY <1>1, <1>4, <2>1, WipeStepMove
  <2>2. CASE ~ (link[s] /\ ~ closed[s])
    <3>1. \A t \in Sessions : /\ slot'[t] \in { slot[t], NoRollup }
                              /\ rollupChan'[t] \in { rollupChan[t], NoRollup }
      BY <1>4, <2>2 DEF sendLoop, enqueueRollup, TypeOK
    <3> QED  BY <1>1, <1>4, <2>2, <3>1, WipeStepLost DEF sendLoop
  <2> QED  BY <2>1, <2>2
<1>5. ASSUME NEW s \in Sessions, NEW S, Close(S),
             UNCHANGED << worldVars, faults, guard, slot, work >>
      PROVE  WipeInv'
  <2>1. \A t \in Sessions : rollupChan'[t] \in { rollupChan[t], NoRollup }
    BY <1>5 DEF Close
  <2> QED  BY <1>1, <1>5, <2>1, WipeStepLost
<1>6. ASSUME NEW s \in Sessions, installSession(s) \/ removeSession(s)  PROVE WipeInv'
  BY <1>5, <1>6 DEF installSession, removeSession
<1>7. ASSUME NEW s \in Sessions, RejectRollup(s)  PROVE WipeInv'
  <2>1. \A t \in Sessions : work'[t] \in { work[t], NoRollup }
    BY <1>7 DEF RejectRollup, TypeOK
  <2> QED  BY <1>1, <1>7, <2>1, WipeStepLost DEF RejectRollup
<1>8. ASSUME NEW s \in Sessions, TakeRollup(s)  PROVE WipeInv'
  BY <1>1, <1>8, WipeStepMove
<1>9. CASE UNCHANGED vars
  BY <1>2, <1>9 DEF vars
<1>10. ASSUME NEW s \in Sessions, RunOnce(s) \/ Break(s)  PROVE WipeInv'
  BY <1>2, <1>10 DEF RunOnce, Break
<1>11. CASE Snapshot \/ Phase3
  BY <1>2, <1>11 DEF Snapshot, Phase3
<1>12. ASSUME NEW s \in Sessions, Replace(s) \/ MarkFirstRollupReceived(s)  PROVE WipeInv'
  BY <1>2, <1>12 DEF Replace, MarkFirstRollupReceived
<1> QED
  BY <1>1, <1>3, <1>4, <1>6, <1>7, <1>8, <1>9, <1>10, <1>11, <1>12, WipeStepDemand, WipeStepBuild,
     WipeStepAdmit, WipeStepRestart
  DEF Next, Operator, Session, rollupWorker

-----------------------------------------------------------------------------
(* Between the guard and the table, and the gate. *)

CrossInv ==
  /\ OneInside /\ BaselineInForce /\ AdmittedConfirmed
  /\ GateAfterReport /\ SnapshotFresh /\ BlindThenSeen /\ BlindAtMostOnce

LEMMA InitCross == Init => OneAtATime /\ CrossInv
<1> SUFFICES ASSUME Init PROVE OneAtATime /\ CrossInv  OBVIOUS
<1>1. /\ \A s \in Sessions : admitted[s] = NoRollup /\ work[s] = NoRollup
      /\ guard.rows = 0 /\ table.rows = 0 /\ gate = FALSE /\ deferred = {} /\ blind = 0
      /\ cycle.snap = table
  BY DEF Init, NoRollup
<1> QED
  BY <1>1 DEF CrossInv, OneAtATime, OneInside, BaselineInForce, AdmittedConfirmed, GateAfterReport,
              SnapshotFresh, BlindThenSeen, BlindAtMostOnce

LEMMA OneAtATimeStep == TypeOK /\ OneAtATime /\ [Next]_vars => OneAtATime'
<1> SUFFICES ASSUME TypeOK, OneAtATime, [Next]_vars, NEW s \in Sessions
             PROVE  (work[s] # NoRollup => admitted[s] = NoRollup)'
  BY DEF OneAtATime
<1> USE DEF OneAtATime, TypeOK, sessVars, tableVars, applyVars
<1>1. CASE UNCHANGED << work, admitted >>  BY <1>1
<1>2. ASSUME NEW t \in Sessions, TakeRollup(t) \/ RejectRollup(t)
      PROVE  (work[s] # NoRollup => admitted[s] = NoRollup)'
  BY <1>2 DEF TakeRollup, RejectRollup
<1>3. ASSUME NEW t \in Sessions, Admit(t)  PROVE (work[s] # NoRollup => admitted[s] = NoRollup)'
  BY <1>3 DEF Admit
<1>4. ASSUME NEW t \in Sessions, Replace(t)  PROVE (work[s] # NoRollup => admitted[s] = NoRollup)'
  BY <1>4 DEF Replace
<1>5. CASE Restart  BY <1>5 DEF Restart
<1> QED
  BY <1>1, <1>2, <1>3, <1>4, <1>5
  DEF Next, Operator, Session, rollupWorker, vars, DemandChanges, RunOnce, Break, SessionEnds,
      runRollup, sendLoop, installSession, removeSession, MarkFirstRollupReceived, Snapshot, Phase3

\* A roll-up the guard lets through although it looks suspicious: the demand was
\* that low, or there have been as many truncated ones as confirmations.
LEMMA ConfirmedDrop ==
  ASSUME TypeOK, WipeInv, NEW s \in Sessions, Admit(s), ~ Held(work[s]), Suspicious(work[s])
  PROVE  lowest * RetainDen < guard.rows
<1>1. CASE work[s].kind = "good"
  <2>1. work[s].rows \in Nat /\ work[s].rows >= lowest  BY <1>1, Weighed
  <2> QED  BY <2>1, SuspiciousGood
<1>2. CASE work[s].kind = "wiped"
  <2>1. WipedCount \in Nat /\ WipedCount' \in Nat /\ WipedCount' = WipedCount - 1
    BY <1>2, Weighed
  <2>2. WipedCount >= 1  BY <2>1
  <2>3. guard.held + 1 >= Consecutive  BY GuardAssumption DEF Held, TypeOK
  <2>4. faults <= MaxFaults /\ faults \in Nat /\ guard.held \in Nat
    BY GuardAssumption DEF TypeOK
  <2>5. MaxFaults \in Nat /\ Consecutive \in Nat /\ MaxFaults < Consecutive
    BY GuardAssumption
  <2>6. ~ (guard.held + WipedCount <= faults)  BY <2>1, <2>2, <2>3, <2>4, <2>5
  <2> QED  BY <2>6 DEF WipeInv, HeldWereWiped
<1> QED  BY <1>1, <1>2, Weighed

\* A roll-up that is held is held against a baseline with rows.
LEMMA HeldAgainstRows ==
  ASSUME TypeOK, NEW s \in Sessions, Held(work[s])
  PROVE  guard.rows > 0
<1>1. work[s] \in Maybe /\ RetainDen \in Nat /\ guard.rows \in Nat
  BY GuardAssumption DEF TypeOK
<1>2. work[s].rows * RetainDen \in Nat  BY <1>1, MaybeTyped
<1> QED  BY <1>1, <1>2 DEF Held, Suspicious

LEMMA CrossStepAdmit ==
  ASSUME TypeOK, WipeInv, OneAtATime, CrossInv, NEW s \in Sessions, Admit(s)
  PROVE  CrossInv'
<1> USE DEF CrossInv
<1>1. UNCHANGED << table, dirty, gate, cycle, blind, lowest >>
  BY DEF Admit, cycleVars, worldVars
<1>2. SnapshotFresh' /\ BlindThenSeen' /\ BlindAtMostOnce'
  BY <1>1 DEF SnapshotFresh, BlindThenSeen, BlindAtMostOnce
<1>3. CASE crossed'
  BY <1>2, <1>3 DEF OneInside, BaselineInForce, AdmittedConfirmed, GateAfterReport
<1>4. CASE ~ crossed'
  <2>1. ~ crossed /\ \A t \in Sessions : admitted[t] = NoRollup
    BY <1>4 DEF Admit, AloneInside, OneAtATime
  <2>2. guard.rows = table.rows  BY <2>1 DEF BaselineInForce
  <2>3. CASE Held(work[s])
    <3>1. guard'.rows = guard.rows /\ admitted' = admitted  BY <2>3 DEF Admit, TypeOK
    <3>2. table # NoRollup  BY <2>2, <2>3, HeldAgainstRows DEF NoRollup
    <3> QED
      BY <1>1, <1>2, <2>1, <2>2, <3>1, <3>2
      DEF OneInside, BaselineInForce, AdmittedConfirmed, GateAfterReport
  <2>4. CASE ~ Held(work[s])
    <3>1. /\ guard'.rows = work[s].rows /\ deferred' = deferred
          /\ admitted' = [ admitted EXCEPT ![s] = work[s] ] /\ work[s] # NoRollup
      BY <2>4 DEF Admit
    <3>2. admitted'[s] = work[s] /\ \A t \in Sessions : t # s => admitted'[t] = NoRollup
      BY <2>1, <3>1 DEF TypeOK
    <3>3. OneInside'  BY <3>2 DEF OneInside
    <3>4. BaselineInForce'  BY <3>1, <3>2 DEF BaselineInForce
    <3>5. Shrinks(work[s]) => lowest * RetainDen < table.rows
      BY <2>2, <2>4, ConfirmedDrop DEF Shrinks, Suspicious
    <3>6. AdmittedConfirmed'  BY <1>1, <3>2, <3>5 DEF AdmittedConfirmed, Shrinks
    <3>7. GateAfterReport'  BY <1>1, <2>1, <3>1 DEF GateAfterReport
    <3> QED  BY <1>2, <3>3, <3>4, <3>6, <3>7
  <2> QED  BY <2>3, <2>4
<1> QED  BY <1>3, <1>4

\* A worker that finds the baseline its own and nobody beside it ends a crossing.
LEMMA CrossStepReplace ==
  ASSUME TypeOK, CrossInv, NEW s \in Sessions, Replace(s)
  PROVE  CrossInv'
<1> USE DEF CrossInv
<1>1. /\ admitted[s] # NoRollup /\ table' = admitted[s] /\ dirty' = TRUE
      /\ admitted' = [ admitted EXCEPT ![s] = NoRollup ]
      /\ UNCHANGED << guard, gate, cycle, blind >>
  BY DEF Replace, cycleVars
<1>2. SnapshotFresh' /\ BlindThenSeen' /\ BlindAtMostOnce' /\ GateAfterReport'
  BY <1>1 DEF SnapshotFresh, BlindThenSeen, BlindAtMostOnce, GateAfterReport
<1>3. CASE crossed'
  BY <1>2, <1>3 DEF OneInside, BaselineInForce, AdmittedConfirmed
<1>4. CASE ~ crossed'
  <2>1. guard.rows = admitted[s].rows /\ \A t \in Sessions : t # s => admitted[t] = NoRollup
    BY <1>1, <1>4 DEF Replace, AloneInside, OneInside, BaselineInForce
  <2>2. \A t \in Sessions : admitted'[t] = NoRollup  BY <1>1, <2>1 DEF TypeOK
  <2> QED  BY <1>1, <1>2, <2>1, <2>2 DEF OneInside, BaselineInForce, AdmittedConfirmed
<1> QED  BY <1>3, <1>4

LEMMA CrossStep == TypeOK /\ WipeInv /\ OneAtATime /\ CrossInv /\ [Next]_vars => CrossInv'
<1> SUFFICES ASSUME TypeOK, WipeInv, OneAtATime, CrossInv, [Next]_vars PROVE CrossInv'  OBVIOUS
<1> USE DEF CrossInv, OneInside, BaselineInForce, AdmittedConfirmed, Shrinks, GateAfterReport,
            SnapshotFresh, BlindThenSeen, BlindAtMostOnce
<1>1. CASE UNCHANGED << tableVars, cycleVars, lowest >>
  BY <1>1 DEF tableVars, applyVars, cycleVars
<1>2. ASSUME NEW r \in Rows, DemandChanges(r)  PROVE CrossInv'
  <2>1. UNCHANGED << table, dirty, guard, gate, admitted, deferred, crossed, cycle, blind >>
    BY <1>2 DEF DemandChanges, tableVars, applyVars, cycleVars
  <2>2. table.rows \in Nat /\ RetainDen \in Nat /\ lowest \in Nat /\ lowest' \in Nat
        /\ lowest' <= lowest
    BY <1>2, GuardAssumption, MaybeTyped DEF DemandChanges, TypeOK
  <2>3. lowest * RetainDen < table.rows => lowest' * RetainDen < table.rows
    <3>1. lowest' * RetainDen <= lowest * RetainDen /\ lowest * RetainDen \in Nat
          /\ lowest' * RetainDen \in Nat
      BY <2>2, TimesGrows
    <3> QED  BY <2>2, <3>1
  <2> QED  BY <2>1, <2>3
<1>3. CASE Snapshot
  <2>1. cycle'.snap = table /\ dirty' = FALSE
        /\ UNCHANGED << table, guard, gate, admitted, deferred, crossed, blind, lowest >>
    BY <1>3 DEF Snapshot, applyVars, worldVars
  <2> QED  BY <2>1
<1>4. CASE Phase3
  <2>1. cycle'.on = FALSE /\ cycle'.snap = cycle.snap /\ cycle.on
        /\ UNCHANGED << table, dirty, guard, gate, admitted, deferred, crossed, lowest >>
    BY <1>4 DEF Phase3, tableVars, applyVars, worldVars, TypeOK
  <2>2. CASE gate /\ ~ crossed /\ cycle.snap = NoRollup
    <3>1. blind = 0 /\ table # NoRollup  BY <2>1, <2>2 DEF TypeOK
    <3>2. blind' = 1  BY <1>4, <2>2, <3>1 DEF Phase3
    <3> QED  BY <2>1, <2>2, <3>1, <3>2
  <2>3. CASE ~ (gate /\ ~ crossed /\ cycle.snap = NoRollup)
    <3>1. blind' = blind  BY <1>4, <2>3 DEF Phase3
    <3> QED  BY <2>1, <3>1
  <2> QED  BY <2>2, <2>3
<1>5. CASE Restart
  BY <1>5 DEF Restart, NoRollup
<1>6. ASSUME NEW s \in Sessions, MarkFirstRollupReceived(s)  PROVE CrossInv'
  <2>1. UNCHANGED << table, dirty, guard, admitted, crossed, cycle, blind, lowest >>
        /\ gate' = TRUE /\ s \in deferred
    BY <1>6 DEF MarkFirstRollupReceived, cycleVars, worldVars
  <2> QED  BY <2>1
<1> QED
  BY <1>1, <1>2, <1>3, <1>4, <1>5, <1>6, CrossStepAdmit, CrossStepReplace
  DEF Next, Operator, Session, rollupWorker, vars, worldVars, RunOnce, Break, SessionEnds,
      runRollup, sendLoop, installSession, removeSession, TakeRollup, RejectRollup

-----------------------------------------------------------------------------

LEMMA InitIInv == Init => IInv
BY InitTyped, InitCross, InitWipe DEF IInv, CrossInv, WipeInv

LEMMA StepIInv == IInv /\ [Next]_vars => IInv'
BY TypeStep, OneAtATimeStep, CrossStep, WipeStep DEF IInv, CrossInv, WipeInv

LEMMA InvariantIInv == Spec => []IInv
BY InitIInv, StepIInv, PTL DEF Spec

\* Every variable has its type; the guard never holds more than it may.
THEOREM IngestTyped == Spec => []TypeOK
<1>1. IInv => TypeOK  BY DEF IInv
<1> QED  BY <1>1, InvariantIInv, PTL

\* A cycle passes the gate with demand it read before any roll-up at most once
\* in a process, crossed workers apart: the gate opens behind a filled table
\* marked dirty, and the next Snapshot reads it.
THEOREM BlindOnce == Spec => []BlindAtMostOnce
<1>1. IInv => BlindAtMostOnce  BY DEF IInv
<1> QED  BY <1>1, InvariantIInv, PTL

\* The roll-up that shrinks a large table to less than the retained fraction has
\* passed the guard against that very table, or workers have crossed.
LEMMA WipeHeldStep == IInv /\ [Next]_vars => [crossed \/ WipeExplained]_vars
<1> SUFFICES ASSUME IInv, Next, ~ crossed, table.rows >= MinRows, table' # NoRollup,
                    table'.rows * RetainDen < table.rows
             PROVE  lowest * RetainDen < table.rows
  BY DEF WipeExplained
<1>1. TypeOK /\ AdmittedConfirmed  BY DEF IInv
<1>2. table.rows \in Nat  BY <1>1, MaybeTyped DEF TypeOK
<1>3. CASE table' = table
  <2>1. \A a \in Nat, k \in Nat \ { 0 } : ~ (a * k < a)  OBVIOUS
  <2> QED  BY <1>2, <1>3, <2>1, GuardAssumption
<1>4. ASSUME NEW s \in Sessions, Replace(s)  PROVE lowest * RetainDen < table.rows
  BY <1>1, <1>4 DEF Replace, AdmittedConfirmed, Shrinks
<1>5. CASE Restart  BY <1>5 DEF Restart
<1> QED
  BY <1>3, <1>4, <1>5
  DEF Next, Operator, Session, rollupWorker, DemandChanges, RunOnce, Break, SessionEnds,
      runRollup, sendLoop, installSession, removeSession, TakeRollup, RejectRollup, Admit,
      MarkFirstRollupReceived, Snapshot, Phase3, tableVars

\* Wrong roll-ups, fewer than the confirmations the guard asks for, do not erase
\* a large accepted demand, whatever is retried, reordered or replaced on the way,
\* unless two workers were between the guard and the table at once.
THEOREM LargeDemandKept == Spec => WipeHeldUncrossed
BY InvariantIInv, WipeHeldStep, PTL DEF Spec, WipeHeldUncrossed
=============================================================================
