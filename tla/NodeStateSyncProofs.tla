------------------------- MODULE NodeStateSyncProofs ------------------------
(***************************************************************************)
(* The proof of SettledShown, for any number of machines, sessions and     *)
(* bindings and any sizes of the semaphore, the outbox and the stream:     *)
(* what the operator shows of a machine is the inventory's once nothing is *)
(* on its way.                                                             *)
(*                                                                         *)
(* The invariant looks at a machine's updates in the order in which the    *)
(* operator will write them - the one its worker holds, the coalescer's,   *)
(* the frames on the stream - and says that the last of them is right.     *)
(*                                                                         *)
(* What was written last is right unless it was missed.  Then the cache:   *)
(* an update is missed only when its informer was behind.  Then SlotsHeld  *)
(* and the types: who holds the dispatch semaphore.                        *)
(***************************************************************************)
EXTENDS NodeStateSync, SequenceTheorems, FiniteSetTheorems, TLAPS

USE DEF unVars

-----------------------------------------------------------------------------
(* The inductive invariant. *)

NodeFrames == [ kind : { "node" }, machine : Machines, st : States ]

Frames ==
  NodeFrames \cup [ kind : { "boot", "late", "reclaim" }, machine : Machines ]
             \cup [ kind : { "hint" }, count : Counts ]

\* The types the proof needs.
SyncType ==
  /\ inv \in [ Machines -> States ]
  /\ tosend \in [ Machines -> States \cup { "none" } ]
  /\ resync \in [ Machines -> States \cup { "none" } ]
  /\ pendingUpd \in [ Machines -> States \cup { "none" } ]
  /\ worker \in [ Machines -> States \cup { "none", "looping" } ]
  /\ un \in [ Machines -> Phases ]
  /\ stale \in [ Machines -> BOOLEAN ] /\ missed \in [ Machines -> BOOLEAN ] /\ up \in BOOLEAN
  /\ wire \in Seq(Frames) /\ avail \in Counts

\* Frame i of the stream s is an update of m.
Carries(s, i, m) == i \in 1 .. Len(s) /\ s[i].kind = "node" /\ s[i].machine = m

\* s has no update of m; the last one it has says st.
Silent(s, m) == \A i \in 1 .. Len(s) : ~ Carries(s, i, m)

Says(s, m, st) ==
  \A i \in 1 .. Len(s) :
    Carries(s, i, m) /\ (\A j \in 1 .. Len(s) : Carries(s, j, m) => j <= i) => s[i].st = st

\* The last update that has left the stream, or what it left behind, is right, or
\* it was missed.
Behind(m) ==
  IF pendingUpd[m] # "none" THEN pendingUpd[m] = inv[m]
  ELSE IF worker[m] \in States THEN worker[m] = inv[m]
  ELSE missed[m] \/ Shown(m)

\* The last update of m on its way is right.
LastRight(m) == Says(wire, m, inv[m]) /\ (Silent(wire, m) => Behind(m))

\* A transition that is to be notified is the last one.
NotifiesLast == \A m \in Machines : tosend[m] # "none" => tosend[m] = inv[m]

\* What the operator sends.
Answers == [ kind : { "boot", "late", "ack" }, machine : Machines ]

\* The session and the receive loop: what is on its way, and who holds the
\* semaphore.
SlotTypes ==
  /\ boot \in [ Machines -> { "none", "asked", "orphaned", "answered" } ]
  /\ conn \in Nat /\ Len(wire) <= MaxWire
  /\ rendering \subseteq { f \in Answers : f.kind # "ack" }
  /\ outbox \in Seq(Answers) /\ Len(outbox) <= OutboxCap
  /\ hints \in Seq(Counts)
  /\ ac \in Counts \cup { "none" } /\ acCache \in Counts \cup { "none" }

Busy == { m \in Machines : worker[m] # "none" }

\* A machine is marked in flight while it has a worker, and no longer.
Marked ==
  /\ inFlight \in [ Machines -> BOOLEAN ]
  /\ \A m \in Machines : inFlight[m] <=> worker[m] # "none"

SlotInv ==
  /\ Marked
  /\ IsFiniteSet(Busy) /\ IsFiniteSet(reclaiming)
  /\ SlotsHeld /\ slots <= Slots

\* Without a session nothing is on its way.
DownQuiet ==
  ~ up => /\ wire = << >>
          /\ \A m \in Machines : resync[m] = "none" /\ pendingUpd[m] = "none" /\ worker[m] = "none"

\* A machine with nothing left to notify or to replay, and nothing lost.
AllRight ==
  \A m \in Machines : ~ stale[m] /\ tosend[m] = "none" /\ resync[m] = "none" => LastRight(m)

IInv == SyncType /\ NotifiesLast /\ DownQuiet /\ AllRight

-----------------------------------------------------------------------------
(* The phases. *)

LEMMA PhaseOf ==
  /\ upcomingNodePhase("Idle") = "Launched" /\ upcomingNodePhase("Configuring") = "Registered"
  /\ upcomingNodePhase("Configured") = "Ready" /\ upcomingNodePhase("Draining") = "Draining"
  /\ upcomingNodePhase("Failed") = "Failed"
BY DEF upcomingNodePhase

LEMMA PhaseTyped == ASSUME NEW st \in States PROVE upcomingNodePhase(st) \in Phases \ { "none", "" }
BY PhaseOf DEF States, Phases

\* The versions an update writes.
Versions(m, phase) ==
  { << >>, << "none" >>, << phase >>, << "", phase >> }

\* An update writes some phases and leaves behind what is shown for its state, or it
\* is missed.
LEMMA UpdateShows ==
  ASSUME SyncType, NEW m \in Machines, NEW st \in States, worker[m] = st,
         handleNodeStateUpdate(m)
  PROVE  /\ \E v \in Versions(m, upcomingNodePhase(st)) : Write(m, v)
         /\ missed' \in [ Machines -> BOOLEAN ]
         /\ \A k \in Machines : k # m => missed'[k] = missed[k]
         /\ \/ missed'[m]
            \/ un'[m] = upcomingNodePhase(st)
            \/ st = "Idle" /\ un'[m] = "none"
<1> DEFINE phase == upcomingNodePhase(st)
<1>1. phase \in Phases \ { "none", "" }  BY PhaseTyped
<1>2. phase = "Launched" => st = "Idle"  BY PhaseOf DEF States
<1>3. missed \in [ Machines -> BOOLEAN ] /\ un \in [ Machines -> Phases ]  BY DEF SyncType
<1> HIDE DEF phase
<1>4. CASE CreateNode(m, phase)
  <2>1. /\ Write(m, << "", phase >>) /\ missed' = [ missed EXCEPT ![m] = FALSE ]
    BY <1>4 DEF CreateNode
  <2>2. un'[m] = phase  BY <1>3, <2>1 DEF Write, Last
  <2> QED  BY <1>3, <2>1, <2>2 DEF Versions, phase
<1>5. CASE CreateMeetsNode(m)
  BY <1>3, <1>5 DEF CreateMeetsNode, Versions, phase
<1>6. ASSUME NEW was, DeleteNode(m, phase, was)
      PROVE  /\ \E v \in Versions(m, phase) : Write(m, v)
             /\ missed' = [ missed EXCEPT ![m] = FALSE ]
             /\ st = "Idle" /\ un'[m] = "none"
  <2>1. st = "Idle"  BY <1>2, <1>6 DEF DeleteNode, AtDrained
  <2>2. CASE un[m] = "none"
    <3>1. Write(m, << >>)  BY <1>6, <2>2 DEF DeleteNode
    <3>2. un'[m] = "none"  BY <1>3, <2>2, <3>1 DEF Write
    <3> QED  BY <1>6, <2>1, <3>1, <3>2 DEF DeleteNode, Versions
  <2>3. CASE un[m] # "none"
    <3>1. Write(m, << "none" >>)  BY <1>6, <2>3 DEF DeleteNode
    <3>2. un'[m] = "none"  BY <1>3, <3>1 DEF Write, Last
    <3> QED  BY <1>6, <2>1, <3>1, <3>2 DEF DeleteNode, Versions
  <2> QED  BY <2>2, <2>3
<1>7. ASSUME NEW was, PatchNode(m, phase, was)
      PROVE  /\ \E v \in Versions(m, phase) : Write(m, v)
             /\ missed' = [ missed EXCEPT ![m] = un'[m] # phase ]
  BY <1>7 DEF PatchNode, Versions
<1>8. \/ CreateNode(m, phase) \/ CreateMeetsNode(m)
      \/ \E was \in Existing(m) : DeleteNode(m, phase, was) \/ PatchNode(m, phase, was)
  BY DEF handleNodeStateUpdate, phase
<1>9. CASE \E was \in Existing(m) : DeleteNode(m, phase, was)
  BY <1>3, <1>6, <1>9 DEF phase
<1>10. CASE \E was \in Existing(m) : PatchNode(m, phase, was)
  <2>1. /\ \E v \in Versions(m, phase) : Write(m, v)
        /\ missed' = [ missed EXCEPT ![m] = un'[m] # phase ]
    BY <1>7, <1>10
  <2> QED  BY <1>3, <2>1 DEF phase
<1> QED  BY <1>4, <1>5, <1>8, <1>9, <1>10

\* The API server has one of the phases, and the other machines' are as they were.
LEMMA WriteTyped ==
  ASSUME SyncType, NEW m \in Machines, NEW phase \in Phases, NEW v \in Versions(m, phase), Write(m, v)
  PROVE  un' \in [ Machines -> Phases ] /\ \A k \in Machines : k # m => un'[k] = un[k]
<1>1. v = << >> \/ Last(v) \in Phases
  <2>1. "none" \in Phases  BY DEF Phases
  <2>2. CASE v = << >>  BY <2>2
  <2>3. CASE v = << "none" >>  BY <2>1, <2>3 DEF Last
  <2>4. CASE v = << phase >>  BY <2>4 DEF Last
  <2>5. CASE v = << "", phase >>  BY <2>5 DEF Last
  <2> QED  BY <2>2, <2>3, <2>4, <2>5 DEF Versions
<1>2. un \in [ Machines -> Phases ]  BY DEF SyncType
<1>3. un' = [ un EXCEPT ![m] = IF v = << >> THEN @ ELSE Last(v) ]  BY DEF Write
<1> QED  BY <1>1, <1>2, <1>3

-----------------------------------------------------------------------------
(* The stream. *)

\* t says of m what s says.
Same(s, t, m) ==
  /\ Silent(t, m) <=> Silent(s, m)
  /\ \A st \in States : Says(s, m, st) => Says(t, m, st)

LEMMA SameItself == ASSUME NEW s, NEW m PROVE Same(s, s, m)
BY DEF Same

\* Frame by frame the updates of m are the same ones.
LEMMA SameFrames ==
  ASSUME NEW s \in Seq(Frames), NEW t \in Seq(Frames), NEW m, Len(s) <= Len(t),
         \A i \in 1 .. Len(s) : Carries(t, i, m) <=> Carries(s, i, m),
         \A i \in 1 .. Len(s) : Carries(s, i, m) => t[i] = s[i],
         \A i \in 1 .. Len(t) : Carries(t, i, m) => i <= Len(s)
  PROVE  Same(s, t, m)
<1>1. Len(s) \in Nat /\ Len(t) \in Nat  OBVIOUS
<1>2. \A i \in 1 .. Len(s) : i \in 1 .. Len(t)  BY <1>1
<1>3. \A i \in 1 .. Len(t) : Carries(t, i, m) => i \in 1 .. Len(s)  BY <1>1
<1>4. Silent(t, m) <=> Silent(s, m)  BY <1>2, <1>3, Zenon DEF Silent
<1>5. ASSUME NEW st, Says(s, m, st),
             NEW i \in 1 .. Len(t), Carries(t, i, m),
             \A j \in 1 .. Len(t) : Carries(t, j, m) => j <= i
      PROVE  t[i].st = st
  <2>1. i \in 1 .. Len(s) /\ Carries(s, i, m) /\ t[i] = s[i]  BY <1>3, <1>5, Zenon
  <2>2. \A j \in 1 .. Len(s) : Carries(s, j, m) => j <= i  BY <1>2, <1>5, Zenon
  <2> QED  BY <1>5, <2>1, <2>2, Zenon DEF Says
<1> QED  BY <1>4, <1>5, Zenon DEF Same, Says

LEMMA AppendPlaces ==
  ASSUME NEW s \in Seq(Frames), NEW f \in Frames, NEW t, t = Append(s, f)
  PROVE  /\ t \in Seq(Frames) /\ Len(s) \in Nat /\ Len(t) = Len(s) + 1 /\ t[Len(s) + 1] = f
         /\ \A i \in 1 .. Len(s) : t[i] = s[i]
OBVIOUS

LEMMA AppendOther ==
  ASSUME NEW s \in Seq(Frames), NEW f \in Frames, NEW m, f.kind # "node" \/ f.machine # m
  PROVE  Same(s, Append(s, f), m)
<1> DEFINE t == Append(s, f)
<1>1. /\ t \in Seq(Frames) /\ Len(s) \in Nat /\ Len(t) = Len(s) + 1 /\ t[Len(s) + 1] = f
      /\ \A i \in 1 .. Len(s) : t[i] = s[i]
  BY AppendPlaces
<1> HIDE DEF t
<1>2. \A i \in 1 .. Len(s) : i \in 1 .. Len(t)  BY <1>1
<1>3. \A i \in 1 .. Len(s) : Carries(t, i, m) <=> Carries(s, i, m)
  BY <1>1, <1>2, Zenon DEF Carries
<1>4. \A i \in 1 .. Len(t) : i <= Len(s) \/ i = Len(s) + 1  BY <1>1
<1>5. ~ Carries(t, Len(s) + 1, m)  BY <1>1, Zenon DEF Carries
<1>6. \A i \in 1 .. Len(t) : Carries(t, i, m) => i <= Len(s)  BY <1>4, <1>5, Zenon
<1>7. Len(s) <= Len(t)  BY <1>1
<1>8. Same(s, t, m)  BY <1>1, <1>3, <1>6, <1>7, SameFrames, Zenon
<1> QED  BY <1>8 DEF t

LEMMA AppendOwn ==
  ASSUME NEW s \in Seq(Frames), NEW m \in Machines, NEW st \in States
  PROVE  ~ Silent(Append(s, NodeFrame(m, st)), m) /\ Says(Append(s, NodeFrame(m, st)), m, st)
<1> DEFINE f == NodeFrame(m, st)
           t == Append(s, f)
<1>1. f \in Frames /\ f.kind = "node" /\ f.machine = m /\ f.st = st
  BY DEF NodeFrame, Frames, NodeFrames
<1> HIDE DEF f
<1>2. t \in Seq(Frames) /\ Len(s) \in Nat /\ Len(t) = Len(s) + 1 /\ t[Len(s) + 1] = f
  BY <1>1, AppendPlaces
<1> HIDE DEF t
<1>3. Len(s) + 1 \in 1 .. Len(t)  BY <1>2
<1>4. Carries(t, Len(s) + 1, m)  BY <1>1, <1>2, <1>3, Zenon DEF Carries
<1>5. \A i \in 1 .. Len(t) : Len(s) + 1 <= i => i = Len(s) + 1  BY <1>2
<1>6. ~ Silent(t, m)  BY <1>3, <1>4, Zenon DEF Silent
<1>7. Says(t, m, st)  BY <1>1, <1>2, <1>3, <1>4, <1>5, Zenon DEF Says
<1> QED  BY <1>6, <1>7 DEF t, f

LEMMA TailPlaces ==
  ASSUME NEW s \in Seq(Frames), s # << >>, NEW t, t = Tail(s)
  PROVE  /\ t \in Seq(Frames) /\ Head(s) = s[1] /\ Head(s) \in Frames
         /\ Len(s) \in Nat /\ Len(t) \in Nat /\ Len(s) = Len(t) + 1
         /\ \A i \in 1 .. Len(t) : t[i] = s[i + 1]
OBVIOUS

\* Frames move up by one place.
LEMMA TailUp ==
  ASSUME NEW s \in Seq(Frames), s # << >>, NEW t, t = Tail(s), NEW m, NEW i \in 1 .. Len(t)
  PROVE  /\ i + 1 \in 1 .. Len(s) /\ t[i] = s[i + 1]
         /\ Carries(t, i, m) <=> Carries(s, i + 1, m)
<1>1. i + 1 \in 1 .. Len(s) /\ t[i] = s[i + 1]  BY TailPlaces
<1> QED  BY <1>1, Zenon DEF Carries

LEMMA TailDown ==
  ASSUME NEW s \in Seq(Frames), s # << >>, NEW t, t = Tail(s), NEW m,
         NEW j \in 1 .. Len(s), j # 1
  PROVE  /\ j - 1 \in 1 .. Len(t) /\ t[j - 1] = s[j]
         /\ Carries(t, j - 1, m) <=> Carries(s, j, m)
<1>1. j - 1 \in 1 .. Len(t) /\ t[j - 1] = s[j]  BY TailPlaces
<1> QED  BY <1>1, Zenon DEF Carries

LEMMA TailSays ==
  ASSUME NEW s \in Seq(Frames), s # << >>, NEW t, t = Tail(s), NEW m, NEW st, Says(s, m, st)
  PROVE  Says(t, m, st)
<1> SUFFICES ASSUME NEW i \in 1 .. Len(t), Carries(t, i, m),
                    \A j \in 1 .. Len(t) : Carries(t, j, m) => j <= i
             PROVE  t[i].st = st
  BY DEF Says
<1>1. i + 1 \in 1 .. Len(s) /\ Carries(s, i + 1, m) /\ t[i] = s[i + 1]
  BY TailUp
<1>2. ASSUME NEW j \in 1 .. Len(s), Carries(s, j, m)  PROVE j <= i + 1
  <2>1. CASE j = 1  BY <1>1, <2>1
  <2>2. CASE j # 1
    <3>1. j - 1 \in 1 .. Len(t) /\ Carries(t, j - 1, m)  BY <1>2, <2>2, TailDown, Zenon
    <3>2. j - 1 <= i  BY <3>1
    <3> QED  BY <3>1, <3>2
  <2> QED  BY <2>1, <2>2
<1> QED  BY <1>1, <1>2, Zenon DEF Says

LEMMA TailOther ==
  ASSUME NEW s \in Seq(Frames), s # << >>, NEW t, t = Tail(s), NEW m, ~ Carries(s, 1, m)
  PROVE  Same(s, t, m)
<1>1. ASSUME Silent(s, m), NEW i \in 1 .. Len(t) PROVE ~ Carries(t, i, m)
  <2>1. i + 1 \in 1 .. Len(s) /\ (Carries(t, i, m) <=> Carries(s, i + 1, m))  BY TailUp
  <2> QED  BY <1>1, <2>1, Zenon DEF Silent
<1>2. ASSUME Silent(t, m), NEW j \in 1 .. Len(s) PROVE ~ Carries(s, j, m)
  <2>1. CASE j = 1  BY <2>1
  <2>2. CASE j # 1
    <3>1. j - 1 \in 1 .. Len(t) /\ (Carries(t, j - 1, m) <=> Carries(s, j, m))
      BY <2>2, TailDown
    <3> QED  BY <1>2, <3>1, Zenon DEF Silent
  <2> QED  BY <2>1, <2>2
<1>3. \A st \in States : Says(s, m, st) => Says(t, m, st)  BY TailSays
<1> QED  BY <1>1, <1>2, <1>3, Zenon DEF Same, Silent

\* The frame taken was the last one of m.
LEMMA TailOwn ==
  ASSUME NEW s \in Seq(Frames), s # << >>, NEW t, t = Tail(s), NEW m, Carries(s, 1, m),
         NEW st, Says(s, m, st), Silent(t, m)
  PROVE  s[1].st = st
<1>1. ASSUME NEW j \in 1 .. Len(s), Carries(s, j, m) PROVE j <= 1
  <2>1. CASE j = 1  BY <2>1
  <2>2. CASE j # 1
    <3>1. j - 1 \in 1 .. Len(t) /\ (Carries(t, j - 1, m) <=> Carries(s, j, m))
      BY <2>2, TailDown
    <3> QED  BY <1>1, <3>1, Zenon DEF Silent
  <2> QED  BY <2>1, <2>2
<1>2. 1 \in 1 .. Len(s)  BY DEF Carries
<1> QED  BY <1>1, <1>2, Zenon DEF Says

\* Requests that are given up are no updates.
LEMMA AbandonedKeeps ==
  ASSUME NEW s \in Seq(Frames), NEW k \in Machines, NEW m
  PROVE  /\ Abandoned(s, k) \in Seq(Frames) /\ Len(Abandoned(s, k)) = Len(s)
         /\ Same(s, Abandoned(s, k), m)
<1> DEFINE t == Abandoned(s, k)
<1>1. Len(s) \in Nat /\ DOMAIN s = 1 .. Len(s) /\ \A i \in 1 .. Len(s) : s[i] \in Frames
  OBVIOUS
<1>2. t = [ i \in 1 .. Len(s) |-> IF s[i] = Frame("boot", k) THEN Frame("late", k) ELSE s[i] ]
  BY <1>1 DEF Abandoned
<1>3. /\ Frame("late", k) \in Frames
      /\ Frame("boot", k).kind # "node" /\ Frame("late", k).kind # "node"
  BY DEF Frame, Frames
<1> HIDE DEF t
<1>4. t \in [ 1 .. Len(s) -> Frames ]
  <2>1. \A i \in 1 .. Len(s) : t[i] \in Frames  BY <1>1, <1>2, <1>3
  <2> QED  BY <1>2, <2>1
<1>5. t \in Seq(Frames) /\ Len(t) = Len(s)
  <2>1. t \in Seq(Frames)  BY <1>1, <1>4, IsASeq
  <2>2. DOMAIN t = 1 .. Len(s)  BY <1>4
  <2> QED  BY <1>1, <2>1, <2>2, LenProperties
<1>6. \A i \in 1 .. Len(s) : t[i] = s[i] \/ (t[i].kind # "node" /\ s[i].kind # "node")
  <2> SUFFICES ASSUME NEW i \in 1 .. Len(s), t[i] # s[i]
               PROVE t[i].kind # "node" /\ s[i].kind # "node"
    OBVIOUS
  <2>1. s[i] = Frame("boot", k) /\ t[i] = Frame("late", k)  BY <1>2
  <2> QED  BY <1>3, <2>1, Zenon
<1>7. \A i \in 1 .. Len(s) : Carries(t, i, m) <=> Carries(s, i, m)
  BY <1>5, <1>6, Zenon DEF Carries
<1>8. \A i \in 1 .. Len(s) : Carries(s, i, m) => t[i] = s[i]  BY <1>6, Zenon DEF Carries
<1>9. \A i \in 1 .. Len(t) : i <= Len(s)  BY <1>1, <1>5
<1>10. Len(s) <= Len(t)  BY <1>1, <1>5
<1>11. Same(s, t, m)  BY <1>5, <1>7, <1>8, <1>9, <1>10, SameFrames, Zenon
<1> QED  BY <1>5, <1>11 DEF t

LEMMA EmptyStream == ASSUME NEW m PROVE Silent(<< >>, m) /\ \A st : Says(<< >>, m, st)
BY DEF Silent, Says

\* What the stream and the operator have of m stays as it is.
LEMMA StaysRight ==
  ASSUME SyncType, NEW m \in Machines, Same(wire, wire', m), LastRight(m),
         inv'[m] = inv[m], un'[m] = un[m], missed'[m] = missed[m],
         pendingUpd'[m] = pendingUpd[m], worker'[m] = worker[m]
  PROVE  LastRight(m)'
<1>1. Behind(m)' <=> Behind(m)  BY DEF Behind, Shown
<1>2. inv[m] \in States  BY DEF SyncType
<1> QED  BY <1>1, <1>2 DEF LastRight, Same

-----------------------------------------------------------------------------
(* The steps.  Most touch no update at all; a transition leaves a machine  *)
(* with an update to notify.                                               *)

\* Only the stream moves, and it says what it said.
LEMMA StreamStep ==
  ASSUME IInv, wire' \in Seq(Frames), ~ up => wire' = wire,
         \A k \in Machines : Same(wire, wire', k), avail' \in Counts,
         UNCHANGED << inv, tosend, up, resync, pendingUpd, worker, un, missed, stale >>
  PROVE  IInv'
<1>1. SyncType'  BY DEF IInv, SyncType
<1>2. NotifiesLast'  BY DEF IInv, NotifiesLast
<1>3. DownQuiet'  BY DEF IInv, DownQuiet
<1>4. ASSUME NEW k \in Machines, ~ stale[k], tosend[k] = "none", resync[k] = "none"
      PROVE  LastRight(k)'
  BY <1>4, StaysRight DEF IInv, AllRight
<1>5. AllRight'  BY <1>4 DEF AllRight
<1> QED  BY <1>1, <1>2, <1>3, <1>5 DEF IInv

\* A transition of m.
LEMMA TransitionStep ==
  ASSUME IInv, NEW m \in Machines, NEW st \in States, applyTransition(m, st),
         wire' \in Seq(Frames), ~ up => wire' = << >>,
         \A k \in Machines : Same(wire, wire', k),
         UNCHANGED << up, resync, pendingUpd, worker, un, missed, stale, avail >>
  PROVE  IInv'
<1>1. SyncType'  BY DEF IInv, SyncType, applyTransition
<1>2. NotifiesLast'  BY DEF IInv, SyncType, NotifiesLast, applyTransition
<1>3. DownQuiet'  BY DEF IInv, DownQuiet
<1>4. tosend'[m] = st /\ st # "none"  BY DEF applyTransition, IInv, SyncType, States
<1>5. ASSUME NEW k \in Machines, ~ stale[k], tosend'[k] = "none", resync[k] = "none"
      PROVE  LastRight(k)'
  <2>1. k # m  BY <1>4, <1>5
  <2>2. inv'[k] = inv[k] /\ tosend'[k] = tosend[k]
    BY <2>1 DEF applyTransition, IInv, SyncType
  <2> QED  BY <1>5, <2>2, StaysRight DEF IInv, AllRight
<1>6. AllRight'  BY <1>5 DEF AllRight
<1> QED  BY <1>1, <1>2, <1>3, <1>6 DEF IInv

LEMMA FramesOf ==
  ASSUME NEW m \in Machines
  PROVE  /\ \A kind \in { "boot", "late", "reclaim" } :
              Frame(kind, m) \in Frames /\ Frame(kind, m).kind # "node"
         /\ \A v \in Counts : HintFrame(v) \in Frames /\ HintFrame(v).kind # "node"
         /\ \A st \in States : /\ NodeFrame(m, st) \in Frames /\ NodeFrame(m, st).machine = m
                               /\ NodeFrame(m, st).kind = "node" /\ NodeFrame(m, st).st = st
BY DEF Frame, HintFrame, NodeFrame, Frames, NodeFrames

LEMMA ExecutorStep ==
  ASSUME IInv, NEW m \in Machines, Executor(m)
  PROVE  IInv'
<1>0. wire \in Seq(Frames) /\ (~ up => wire = << >>) /\ avail \in Counts
  BY DEF IInv, SyncType, DownQuiet
<1>1. \A k \in Machines : Same(wire, wire, k)  BY SameItself
<1>2. CASE Bind(m)
  <2>1. "Configuring" \in States  BY DEF States
  <2>2. /\ applyTransition(m, "Configuring")
        /\ UNCHANGED << wire, up, resync, pendingUpd, worker, un, missed, stale, avail >>
    BY <1>2 DEF Bind, recvVars, capVars
  <2> QED  BY <1>0, <1>1, <2>1, <2>2, TransitionStep
<1>3. CASE requestBootstrap(m)
  <2>1. /\ wire' = Append(wire, Frame("boot", m)) /\ up
        /\ UNCHANGED << inv, tosend, up, resync, pendingUpd, worker, un, missed, stale, avail >>
    BY <1>3 DEF requestBootstrap, recvVars, capVars
  <2>2. wire' \in Seq(Frames) /\ \A k \in Machines : Same(wire, wire', k)
    BY <1>0, <2>1, FramesOf, AppendOther, AppendPlaces
  <2> QED  BY <1>0, <2>1, <2>2, StreamStep
<1>4. CASE executeDrain(m)
  <2>1. /\ applyTransition(m, "Draining")
        /\ UNCHANGED << up, resync, pendingUpd, worker, un, missed, stale, avail >>
        /\ IF up THEN wire' = Append(wire, Frame("reclaim", m)) ELSE wire' = wire
    BY <1>4 DEF executeDrain, recvVars, capVars
  <2>2. wire' \in Seq(Frames) /\ \A k \in Machines : Same(wire, wire', k)
    <3>1. CASE up
      <4>1. Frame("reclaim", m) \in Frames /\ Frame("reclaim", m).kind # "node"  BY FramesOf
      <4>2. wire' = Append(wire, Frame("reclaim", m))  BY <2>1, <3>1
      <4>3. \A k \in Machines : Same(wire, wire', k)  BY <1>0, <4>1, <4>2, AppendOther
      <4> QED  BY <1>0, <4>1, <4>2, <4>3, AppendPlaces
    <3>2. CASE ~ up  BY <1>0, <1>1, <2>1, <3>2
    <3> QED  BY <3>1, <3>2
  <2>3. "Draining" \in States /\ (~ up => wire' = << >>)  BY <1>0, <2>1 DEF States
  <2> QED  BY <2>1, <2>2, <2>3, TransitionStep
<1>5. ASSUME NEW st \in States, handleBootstrapBlobErr(m, st)  PROVE IInv'
  <2>1. /\ applyTransition(m, st) /\ wire' = Abandoned(wire, m)
        /\ UNCHANGED << up, resync, pendingUpd, worker, un, missed, stale, avail >>
    BY <1>5 DEF handleBootstrapBlobErr, capVars
  <2>2. wire' \in Seq(Frames) /\ Len(wire') = Len(wire)
        /\ \A k \in Machines : Same(wire, wire', k)
    BY <1>0, <2>1, AbandonedKeeps
  <2>3. ASSUME ~ up  PROVE wire' = << >>
    <3>1. Len(wire') = 0  BY <1>0, <2>2, <2>3
    <3> QED  BY <2>2, <3>1, EmptySeq
  <2> QED  BY <2>1, <2>2, <2>3, TransitionStep
<1>6. ASSUME NEW st \in States, Configured(m, st) \/ Drained(m, st)  PROVE IInv'
  <2>1. /\ applyTransition(m, st)
        /\ UNCHANGED << wire, up, resync, pendingUpd, worker, un, missed, stale, avail >>
    BY <1>6 DEF Configured, Drained, recvVars, capVars
  <2> QED  BY <1>0, <1>1, <2>1, TransitionStep
<1> QED  BY <1>2, <1>3, <1>4, <1>5, <1>6 DEF Executor

\* The update that goes out is the last transition.
LEMMA NotifyStep ==
  ASSUME IInv, NEW m \in Machines, notifyNodeState(m)
  PROVE  IInv'
<1>1. /\ tosend[m] # "none" /\ tosend' = [ tosend EXCEPT ![m] = "none" ]
      /\ IF up THEN wire' = Append(wire, NodeFrame(m, tosend[m])) ELSE wire' = wire
      /\ stale' = [ stale EXCEPT ![m] = ~ up ]
      /\ UNCHANGED << inv, up, resync, pendingUpd, worker, un, missed, avail >>
  BY DEF notifyNodeState, recvVars, capVars
<1>2. tosend[m] = inv[m] /\ inv[m] \in States  BY <1>1 DEF IInv, SyncType, NotifiesLast
<1>3. wire \in Seq(Frames)  BY DEF IInv, SyncType
<1>4. wire' \in Seq(Frames)  BY <1>1, <1>2, <1>3, FramesOf, AppendPlaces
<1>5. SyncType'  BY <1>1, <1>4 DEF IInv, SyncType
<1>6. NotifiesLast'  BY <1>1 DEF IInv, SyncType, NotifiesLast
<1>7. DownQuiet'  BY <1>1 DEF IInv, DownQuiet
<1>8. ASSUME NEW k \in Machines, ~ stale'[k], tosend'[k] = "none", resync[k] = "none"
      PROVE  LastRight(k)'
  <2>1. CASE k = m
    <3>1. up  BY <1>1, <1>8, <2>1 DEF IInv, SyncType
    <3>2. ~ Silent(wire', m) /\ Says(wire', m, inv[m])  BY <1>1, <1>2, <1>3, <3>1, AppendOwn
    <3> QED  BY <1>1, <2>1, <3>2 DEF LastRight
  <2>2. CASE k # m
    <3>1. Same(wire, wire', k)
      <4>1. CASE up
        <5>1. /\ NodeFrame(m, tosend[m]) \in Frames /\ NodeFrame(m, tosend[m]).machine = m
              /\ wire' = Append(wire, NodeFrame(m, tosend[m]))
          BY <1>1, <1>2, <4>1, FramesOf
        <5> QED  BY <1>3, <2>2, <5>1, AppendOther
      <4>2. CASE ~ up  BY <1>1, <4>2, SameItself
      <4> QED  BY <4>1, <4>2
    <3>2. LastRight(k)  BY <1>1, <1>8, <2>2 DEF IInv, SyncType, AllRight
    <3> QED  BY <1>1, <3>1, <3>2, StaysRight DEF IInv
  <2> QED  BY <2>1, <2>2
<1>9. AllRight'  BY <1>1, <1>8 DEF AllRight
<1> QED  BY <1>5, <1>6, <1>7, <1>9 DEF IInv

\* A replayed update is right, or overtakes one that has gone out.
LEMMA ResyncStep ==
  ASSUME IInv, NEW m \in Machines, resyncNodeState(m)
  PROVE  IInv'
<1>1. /\ up /\ resync[m] # "none" /\ resync' = [ resync EXCEPT ![m] = "none" ]
      /\ wire' = Append(wire, NodeFrame(m, resync[m]))
      /\ stale' = [ stale EXCEPT ![m] = @ \/ (inv[m] # resync[m] /\ tosend[m] = "none") ]
      /\ UNCHANGED << inv, tosend, up, pendingUpd, worker, un, missed, avail >>
  BY DEF resyncNodeState, shardVars, recvVars, capVars
<1>2. resync[m] \in States /\ wire \in Seq(Frames)  BY <1>1 DEF IInv, SyncType
<1>3. wire' \in Seq(Frames)  BY <1>1, <1>2, FramesOf, AppendPlaces
<1>4. stale' \in [ Machines -> BOOLEAN ]  BY <1>1 DEF IInv, SyncType
<1>5. SyncType'  BY <1>1, <1>3, <1>4 DEF IInv, SyncType
<1>6. NotifiesLast'  BY <1>1 DEF IInv, NotifiesLast
<1>7. DownQuiet'  BY <1>1 DEF DownQuiet
<1>8. ASSUME NEW k \in Machines, ~ stale'[k], tosend[k] = "none", resync'[k] = "none"
      PROVE  LastRight(k)'
  <2>1. CASE k = m
    <3>1. inv[m] = resync[m]  BY <1>1, <1>8, <2>1 DEF IInv, SyncType
    <3>2. ~ Silent(wire', m) /\ Says(wire', m, resync[m])  BY <1>1, <1>2, AppendOwn
    <3> QED  BY <1>1, <2>1, <3>1, <3>2 DEF LastRight
  <2>2. CASE k # m
    <3>1. Same(wire, wire', k)  BY <1>1, <1>2, <2>2, FramesOf, AppendOther
    <3>2. LastRight(k)  BY <1>1, <1>8, <2>2 DEF IInv, SyncType, AllRight
    <3> QED  BY <1>1, <3>1, <3>2, StaysRight DEF IInv
  <2> QED  BY <2>1, <2>2
<1>9. AllRight'  BY <1>1, <1>8 DEF AllRight
<1> QED  BY <1>5, <1>6, <1>7, <1>9 DEF IInv

\* The replay reads the inventory of all bound machines; an unbound one has
\* nothing on its way.
LEMMA ConnectStep ==
  ASSUME IInv, Connect
  PROVE  IInv'
<1>1. /\ ~ up /\ up' = TRUE
      /\ resync' = [ m \in Machines |-> IF inv[m] = "Idle" THEN "none" ELSE inv[m] ]
      /\ stale' = [ m \in Machines |-> stale[m] /\ inv[m] = "Idle" ]
      /\ UNCHANGED << inv, tosend, wire, pendingUpd, worker, un, missed, avail >>
  BY DEF Connect, shardVars, recvVars, capVars
<1>2. stale' \in [ Machines -> BOOLEAN ]  BY <1>1 DEF IInv, SyncType
<1>3. resync' \in [ Machines -> States \cup { "none" } ]  BY <1>1 DEF IInv, SyncType
<1>4. SyncType'  BY <1>1, <1>2, <1>3 DEF IInv, SyncType
<1>5. NotifiesLast'  BY <1>1 DEF IInv, NotifiesLast
<1>6. DownQuiet'  BY <1>1 DEF DownQuiet
<1>7. ASSUME NEW k \in Machines, ~ stale'[k], tosend[k] = "none", resync'[k] = "none"
      PROVE  LastRight(k)'
  <2>1. inv[k] = "Idle"  BY <1>1, <1>7 DEF IInv, SyncType, States
  <2>2. ~ stale[k] /\ resync[k] = "none"  BY <1>1, <1>7, <2>1 DEF IInv, DownQuiet
  <2>3. LastRight(k)  BY <1>7, <2>2 DEF IInv, AllRight
  <2> QED  BY <1>1, <2>3, SameItself, StaysRight DEF IInv
<1>8. AllRight'  BY <1>1, <1>7 DEF AllRight
<1> QED  BY <1>4, <1>5, <1>6, <1>8 DEF IInv

\* What is on its way when the session breaks is lost, and known to be.
LEMMA BreakStep ==
  ASSUME IInv, NEW made \in SUBSET Machines, Break(made)
  PROVE  IInv'
<1>1. /\ up' = FALSE /\ wire' = << >>
      /\ \A m \in made : worker[m] \in States
      /\ un' = [ m \in Machines |-> IF m \in made THEN "" ELSE un[m] ]
      /\ stale' = [ m \in Machines |-> stale[m] \/ InTransit(m) ]
      /\ resync' = [ m \in Machines |-> "none" ]
      /\ pendingUpd' = [ m \in Machines |-> "none" ]
      /\ worker' = [ m \in Machines |-> "none" ]
      /\ UNCHANGED << inv, tosend, missed, avail >>
  BY DEF Break
<1>3. un' \in [ Machines -> Phases ]  BY <1>1 DEF IInv, SyncType, Phases
<1>4. stale' \in [ Machines -> BOOLEAN ]  BY <1>1 DEF IInv, SyncType, InTransit
<1>5. SyncType'
  <2>1. /\ inv' \in [ Machines -> States ] /\ tosend' \in [ Machines -> States \cup { "none" } ]
        /\ avail' \in Counts /\ up' \in BOOLEAN /\ missed' \in [ Machines -> BOOLEAN ]
    BY <1>1 DEF IInv, SyncType
  <2>2. /\ resync' \in [ Machines -> States \cup { "none" } ]
        /\ pendingUpd' \in [ Machines -> States \cup { "none" } ]
        /\ worker' \in [ Machines -> States \cup { "none", "looping" } ]
    BY <1>1
  <2>3. wire' \in Seq(Frames)
    <3>1. << >> \in Seq(Frames)  OBVIOUS
    <3>2. wire' = << >>  BY <1>1
    <3> QED  BY <3>1, <3>2
  <2> QED  BY <1>3, <1>4, <2>1, <2>2, <2>3 DEF SyncType
<1>6. NotifiesLast'  BY <1>1 DEF IInv, NotifiesLast
<1>7. DownQuiet'  BY <1>1 DEF DownQuiet
<1>8. ASSUME NEW k \in Machines, ~ stale'[k], tosend[k] = "none"
      PROVE  LastRight(k)'
  <2>1. ~ stale[k] /\ ~ InTransit(k)  BY <1>1, <1>8 DEF IInv, SyncType
  <2>2. /\ resync[k] = "none" /\ pendingUpd[k] = "none" /\ worker[k] = "none"
        /\ Silent(wire, k)
    BY <2>1 DEF InTransit, Silent, Carries
  <2>3. missed[k] \/ Shown(k)
    BY <1>8, <2>1, <2>2 DEF IInv, AllRight, LastRight, Behind, States
  <2>4. un'[k] = un[k] /\ pendingUpd'[k] = "none" /\ worker'[k] = "none"
    BY <1>1, <2>2 DEF States
  <2>5. Behind(k)'  BY <1>1, <2>3, <2>4 DEF Behind, Shown, States
  <2>6. Silent(wire', k) /\ Says(wire', k, inv'[k])  BY <1>1, EmptyStream
  <2> QED  BY <2>5, <2>6 DEF LastRight
<1>9. AllRight'  BY <1>1, <1>8 DEF AllRight
<1> QED  BY <1>5, <1>6, <1>7, <1>9 DEF IInv

\* The coalescer takes the newest update of the machine.
LEMMA RecvNodeStep ==
  ASSUME IInv, RecvNodeState
  PROVE  IInv'
<1> DEFINE h == Head(wire)
           m == h.machine
<1>1. /\ up /\ wire # << >> /\ h.kind = "node" /\ wire' = Tail(wire)
      /\ pendingUpd' = [ pendingUpd EXCEPT ![m] = h.st ]
      /\ worker' = worker \/ worker' = [ worker EXCEPT ![m] = "looping" ]
      /\ UNCHANGED << inv, tosend, up, resync, un, missed, stale, avail >>
  BY DEF RecvNodeState, coalesceNodeStateUpdate, shardVars, capVars
<1>2. /\ wire \in Seq(Frames) /\ wire' \in Seq(Frames)
      /\ h = wire[1] /\ h \in Frames /\ 1 \in 1 .. Len(wire)
  BY <1>1, TailPlaces DEF IInv, SyncType
<1> HIDE DEF h
<1>3. m \in Machines /\ h.st \in States /\ h.st # "none"
  BY <1>1, <1>2 DEF Frames, NodeFrames, States
<1>4. Carries(wire, 1, m)  BY <1>1, <1>2 DEF Carries
<1> HIDE DEF m
<1>5. SyncType'  BY <1>1, <1>2, <1>3 DEF IInv, SyncType
<1>6. NotifiesLast'  BY <1>1 DEF IInv, NotifiesLast
<1>7. DownQuiet'  BY <1>1 DEF DownQuiet
<1>8. ASSUME NEW k \in Machines, ~ stale[k], tosend[k] = "none", resync[k] = "none"
      PROVE  LastRight(k)'
  <2>1. LastRight(k)  BY <1>8 DEF IInv, AllRight
  <2>2. CASE k = m
    <3>1. Says(wire', m, inv[m])  BY <1>1, <1>2, <2>1, <2>2, TailSays DEF LastRight
    <3>2. ASSUME Silent(wire', m)  PROVE h.st = inv[m]
      BY <1>1, <1>2, <1>4, <2>1, <2>2, <3>2, TailOwn DEF LastRight
    <3>3. pendingUpd'[m] = h.st  BY <1>1, <1>3 DEF IInv, SyncType
    <3> QED  BY <1>1, <1>3, <2>2, <3>1, <3>2, <3>3 DEF LastRight, Behind
  <2>3. CASE k # m
    <3>1. ~ Carries(wire, 1, k)
      BY <1>2, <1>4, <2>3 DEF Carries
    <3>2. Same(wire, wire', k)  BY <1>1, <1>2, <3>1, TailOther
    <3>3. pendingUpd'[k] = pendingUpd[k] /\ worker'[k] = worker[k]
      BY <1>1, <2>3 DEF IInv, SyncType
    <3> QED  BY <1>1, <2>1, <3>2, <3>3, StaysRight DEF IInv
  <2> QED  BY <2>2, <2>3
<1>9. AllRight'  BY <1>1, <1>8 DEF AllRight
<1> QED  BY <1>5, <1>6, <1>7, <1>9 DEF IInv

\* The other frames are no updates.
LEMMA RecvOtherStep ==
  ASSUME IInv, RecvOther
  PROVE  IInv'
<1>1. /\ up /\ wire # << >> /\ wire' = Tail(wire) /\ Head(wire).kind # "node"
      /\ UNCHANGED << inv, tosend, up, resync, pendingUpd, worker, un, missed, stale, avail >>
  BY DEF RecvOther, shardVars
<1>2. wire \in Seq(Frames) /\ wire' \in Seq(Frames) /\ Head(wire) = wire[1] /\ avail \in Counts
  BY <1>1, TailPlaces DEF IInv, SyncType
<1>3. ASSUME NEW k \in Machines  PROVE Same(wire, wire', k)
  <2>1. ~ Carries(wire, 1, k)  BY <1>1, <1>2 DEF Carries
  <2> QED  BY <1>1, <1>2, <2>1, TailOther
<1> QED  BY <1>1, <1>2, <1>3, StreamStep

\* The worker goes on with the update that waits for it, or has written the last.
LEMMA TakeNextStep ==
  ASSUME IInv, NEW m \in Machines, takeNextNodeStateUpdate(m)
  PROVE  IInv'
<1>1. /\ worker[m] = "looping"
      /\ IF pendingUpd[m] = "none"
         THEN pendingUpd' = pendingUpd /\ worker' = [ worker EXCEPT ![m] = "none" ]
         ELSE /\ worker' = [ worker EXCEPT ![m] = pendingUpd[m] ]
              /\ pendingUpd' = [ pendingUpd EXCEPT ![m] = "none" ]
      /\ UNCHANGED << inv, tosend, up, resync, wire, un, missed, stale, avail >>
  BY DEF takeNextNodeStateUpdate, shardVars, capVars
<1>2. up  BY <1>1 DEF IInv, DownQuiet
<1>3. SyncType'  BY <1>1 DEF IInv, SyncType
<1>4. NotifiesLast'  BY <1>1 DEF IInv, NotifiesLast
<1>5. DownQuiet'  BY <1>1, <1>2 DEF DownQuiet
<1>6. ASSUME NEW k \in Machines, LastRight(k)  PROVE LastRight(k)'
  <2>1. CASE k = m
    <3>1. Behind(m) => Behind(m)'
      BY <1>1 DEF IInv, SyncType, Behind, Shown, States
    <3> QED  BY <1>1, <1>6, <2>1, <3>1 DEF LastRight
  <2>2. CASE k # m
    <3>1. pendingUpd'[k] = pendingUpd[k] /\ worker'[k] = worker[k]
      BY <1>1, <2>2 DEF IInv, SyncType
    <3> QED  BY <1>1, <1>6, <3>1, SameItself, StaysRight DEF IInv
  <2> QED  BY <2>1, <2>2
<1>7. AllRight'  BY <1>1, <1>6 DEF IInv, AllRight
<1> QED  BY <1>3, <1>4, <1>5, <1>7 DEF IInv

\* What the worker writes is shown, or it was missed.
LEMMA HandleStep ==
  ASSUME IInv, NEW m \in Machines, handleNodeStateUpdate(m)
  PROVE  IInv'
<1>1. /\ worker[m] \in States
      /\ worker' = [ worker EXCEPT ![m] = "looping" ]
      /\ UNCHANGED << inv, tosend, up, resync, wire, pendingUpd, stale, avail >>
  BY DEF handleNodeStateUpdate, shardVars, capVars
<1>2. up  BY <1>1 DEF IInv, DownQuiet, States
<1> DEFINE phase == upcomingNodePhase(worker[m])
<1>3. phase \in Phases  BY <1>1, PhaseTyped
<1>4. /\ \E v \in Versions(m, phase) : Write(m, v)
      /\ missed' \in [ Machines -> BOOLEAN ]
      /\ \A k \in Machines : k # m => missed'[k] = missed[k]
      /\ \/ missed'[m] \/ un'[m] = phase
         \/ worker[m] = "Idle" /\ un'[m] = "none"
  BY <1>1, UpdateShows DEF IInv
<1>5. un' \in [ Machines -> Phases ] /\ \A k \in Machines : k # m => un'[k] = un[k]
  <2> HIDE DEF phase
  <2> QED  BY <1>3, <1>4, WriteTyped DEF IInv
<1>6. SyncType'  BY <1>1, <1>4, <1>5 DEF IInv, SyncType
<1>7. NotifiesLast'  BY <1>1 DEF IInv, NotifiesLast
<1>8. DownQuiet'  BY <1>1, <1>2 DEF DownQuiet
<1>9. ASSUME NEW k \in Machines, LastRight(k)  PROVE LastRight(k)'
  <2>1. CASE k = m
    <3>1. ASSUME Behind(m)  PROVE Behind(m)'
      <4>1. worker'[m] = "looping" /\ "looping" \notin States
        BY <1>1 DEF IInv, SyncType, States
      <4>2. CASE pendingUpd[m] # "none"  BY <1>1, <3>1, <4>2 DEF Behind
      <4>3. CASE pendingUpd[m] = "none"
        <5>1. worker[m] = inv[m]  BY <1>1, <3>1, <4>3 DEF Behind
        <5>2. phase = upcomingNodePhase(inv[m]) /\ inv'[m] = inv[m]  BY <1>1, <5>1
        <5>3. inv[m] = "Idle" => phase = "Launched"  BY <5>2, PhaseOf
        <5>4. (missed[m] \/ Shown(m))'
          <6> HIDE DEF phase
          <6> QED  BY <1>4, <5>1, <5>2, <5>3 DEF Shown
        <5> QED  BY <1>1, <4>1, <4>3, <5>4 DEF Behind
      <4> QED  BY <4>2, <4>3
    <3> QED  BY <1>1, <1>9, <2>1, <3>1 DEF LastRight
  <2>2. CASE k # m
    <3>1. un'[k] = un[k] /\ missed'[k] = missed[k] /\ worker'[k] = worker[k]
      BY <1>1, <1>4, <1>5, <2>2 DEF IInv, SyncType
    <3> QED  BY <1>1, <1>9, <3>1, SameItself, StaysRight DEF IInv
  <2> QED  BY <2>1, <2>2
<1>10. AllRight'  BY <1>1, <1>9 DEF IInv, AllRight
<1> QED  BY <1>6, <1>7, <1>8, <1>10 DEF IInv

\* An update that fails is lost, and known to be.
LEMMA HandleFailsStep ==
  ASSUME IInv, NEW m \in Machines, handleNodeStateUpdateFails(m)
  PROVE  IInv'
<1>1. /\ worker[m] \in States
      /\ Write(m, << >>) \/ Write(m, << "" >>)
      /\ worker' = [ worker EXCEPT ![m] = "looping" ]
      /\ stale' = [ stale EXCEPT ![m] = TRUE ]
      /\ UNCHANGED << inv, tosend, up, resync, wire, pendingUpd, missed, avail >>
  BY DEF handleNodeStateUpdateFails, shardVars, capVars
<1>8. un' \in [ Machines -> Phases ] /\ \A k \in Machines : k # m => un'[k] = un[k]
  <2>1. \E v \in Versions(m, "") : Write(m, v)  BY <1>1 DEF Versions
  <2> QED  BY <2>1, WriteTyped DEF IInv, Phases
<1>2. up  BY <1>1 DEF IInv, DownQuiet, States
<1>3. SyncType'  BY <1>1, <1>8 DEF IInv, SyncType
<1>4. NotifiesLast'  BY <1>1 DEF IInv, NotifiesLast
<1>5. DownQuiet'  BY <1>1, <1>2 DEF DownQuiet
<1>6. ASSUME NEW k \in Machines, ~ stale'[k], tosend[k] = "none", resync[k] = "none"
      PROVE  LastRight(k)'
  <2>1. k # m  BY <1>1, <1>6 DEF IInv, SyncType
  <2>2. ~ stale[k] /\ un'[k] = un[k] /\ worker'[k] = worker[k]
    BY <1>1, <1>6, <1>8, <2>1 DEF IInv, SyncType
  <2>3. LastRight(k)  BY <1>6, <2>2 DEF IInv, AllRight
  <2> QED  BY <1>1, <2>2, <2>3, SameItself, StaysRight DEF IInv
<1>7. AllRight'  BY <1>1, <1>6 DEF AllRight
<1> QED  BY <1>3, <1>4, <1>5, <1>7 DEF IInv

\* The handlers and the hints touch no update.
LEMMA EmitStep ==
  ASSUME IInv, emitAvailableCapacity
  PROVE  IInv'
<1>1. /\ wire' = wire \/ (up /\ wire' = Append(wire, HintFrame(avail)))
      /\ UNCHANGED << inv, tosend, up, resync, pendingUpd, worker, un, missed, stale, avail >>
  BY DEF emitAvailableCapacity, shardVars, recvVars
<1>2. wire \in Seq(Frames) /\ avail \in Counts  BY DEF IInv, SyncType
<1>3. HintFrame(avail) \in Frames /\ HintFrame(avail).kind # "node"
  BY <1>2 DEF HintFrame, Frames
<1>4. wire' \in Seq(Frames) /\ \A k \in Machines : Same(wire, wire', k)
  <2>1. CASE wire' = wire  BY <1>2, <2>1, SameItself
  <2>2. CASE wire' = Append(wire, HintFrame(avail))
    <3>1. \A k \in Machines : Same(wire, wire', k)  BY <1>2, <1>3, <2>2, AppendOther
    <3> QED  BY <1>2, <1>3, <2>2, <3>1, AppendPlaces
  <2> QED  BY <1>1, <2>1, <2>2
<1> QED  BY <1>1, <1>2, <1>4, StreamStep

LEMMA QuietStep ==
  ASSUME IInv, avail' \in Counts,
         UNCHANGED << inv, tosend, up, resync, wire, pendingUpd, worker, un, missed, stale >>
  PROVE  IInv'
<1>1. wire' \in Seq(Frames)  BY DEF IInv, SyncType
<1>2. \A k \in Machines : Same(wire, wire', k)  BY SameItself
<1> QED  BY <1>1, <1>2, StreamStep

-----------------------------------------------------------------------------
LEMMA InitSettled == Init => IInv
<1> SUFFICES ASSUME Init PROVE IInv  OBVIOUS
<1>1. SyncType
  <2>1. << >> \in Seq(Frames)  OBVIOUS
  <2> QED  BY <2>1 DEF Init, SyncType, States, Phases, Counts
<1>2. NotifiesLast /\ DownQuiet  BY DEF Init, NotifiesLast, DownQuiet
<1>3. ASSUME NEW m \in Machines  PROVE LastRight(m)
  <2>1. Silent(wire, m) /\ Says(wire, m, inv[m])  BY EmptyStream DEF Init
  <2>2. Behind(m)  BY <1>3 DEF Init, Behind, Shown, States
  <2> QED  BY <2>1, <2>2 DEF LastRight
<1> QED  BY <1>1, <1>2, <1>3 DEF IInv, AllRight

LEMMA NextSettled == IInv /\ [Next]_vars => IInv'
<1> SUFFICES ASSUME IInv, [Next]_vars PROVE IInv'  OBVIOUS
<1>0. avail \in Counts  BY DEF IInv, SyncType
<1>1. ASSUME NEW m \in Machines, Executor(m)  PROVE IInv'  BY <1>1, ExecutorStep
<1>2. ASSUME NEW m \in Machines, notifyNodeState(m)  PROVE IInv'  BY <1>2, NotifyStep
<1>3. ASSUME NEW m \in Machines, resyncNodeState(m)  PROVE IInv'  BY <1>3, ResyncStep
<1>4. ASSUME NEW m \in Machines, Worker(m)  PROVE IInv'
  BY <1>4, TakeNextStep, HandleStep DEF Worker
<1>5. ASSUME NEW m \in Machines, handleReclaimInstruction(m) \/ drainNodesInBackground(m)
      PROVE  IInv'
  <2>1. UNCHANGED << inv, tosend, up, resync, wire, pendingUpd, worker, un, missed, stale, avail >>
    BY <1>5 DEF handleReclaimInstruction, drainNodesInBackground, shardVars, capVars
  <2> QED  BY <1>0, <2>1, QuietStep
<1>6. CASE Connect  BY <1>6, ConnectStep
<1>7. CASE \/ removeSession \/ LookupSession \/ WindowElapses \/ InformerSeesHint
           \/ \E m \in Machines : InformerSees(m)
  <2>1. UNCHANGED << inv, tosend, up, resync, wire, pendingUpd, worker, un, missed, stale, avail >>
    BY <1>7 DEF removeSession, LookupSession, WindowElapses, InformerSeesHint, InformerSees, shardVars,
                recvVars, capVars
  <2> QED  BY <1>0, <2>1, QuietStep
<1>8. CASE RecvNodeState  BY <1>8, RecvNodeStep
<1>9. CASE RecvOther  BY <1>9, RecvOtherStep
<1>10. CASE Deliver
  <2>1. UNCHANGED << inv, tosend, up, resync, wire, pendingUpd, worker, un, missed, stale, avail >>
    BY <1>10 DEF Deliver, capVars
  <2> QED  BY <1>0, <2>1, QuietStep
<1>11. ASSUME NEW f \in rendering, handleBootstrapRequest(f)  PROVE IInv'
  <2>1. UNCHANGED << inv, tosend, up, resync, wire, pendingUpd, worker, un, missed, stale, avail >>
    BY <1>11 DEF handleBootstrapRequest, capVars
  <2> QED  BY <1>0, <2>1, QuietStep
<1>12. CASE AvailChanges
  <2>1. /\ avail' \in Counts
        /\ UNCHANGED << inv, tosend, up, resync, wire, pendingUpd, worker, un, missed, stale >>
    BY <1>12 DEF AvailChanges, shardVars, recvVars
  <2> QED  BY <2>1, QuietStep
<1>13. CASE emitAvailableCapacity  BY <1>13, EmitStep
<1>14. CASE HintHandlers
  <2>1. UNCHANGED << inv, tosend, up, resync, wire, pendingUpd, worker, un, missed, stale, avail >>
    BY <1>14 DEF HintHandlers, handleAvailableCapacityUpdate, shardVars
  <2> QED  BY <1>0, <2>1, QuietStep
<1>15. ASSUME NEW m \in Machines, handleNodeStateUpdateFails(m)  PROVE IInv'
  BY <1>15, HandleFailsStep
<1>16. ASSUME NEW i \in DOMAIN hints, handleAvailableCapacityUpdateFails(i)  PROVE IInv'
  <2>1. UNCHANGED << inv, tosend, up, resync, wire, pendingUpd, worker, un, missed, stale, avail >>
    BY <1>16 DEF handleAvailableCapacityUpdateFails, shardVars
  <2> QED  BY <1>0, <2>1, QuietStep
<1>17. ASSUME NEW made \in SUBSET Machines, Break(made)  PROVE IInv'  BY <1>17, BreakStep
<1>18. CASE UNCHANGED vars
  <2>1. UNCHANGED << inv, tosend, up, resync, wire, pendingUpd, worker, un, missed, stale, avail >>
    BY <1>18 DEF vars, shardVars, recvVars, capVars
  <2> QED  BY <1>0, <2>1, QuietStep
<1> QED
  BY <1>1, <1>2, <1>3, <1>4, <1>5, <1>6, <1>7, <1>8, <1>9, <1>10, <1>11, <1>12, <1>13, <1>14,
     <1>15, <1>16, <1>17, <1>18 DEF Next, Faults

\* With nothing of a machine on its way, what was left behind is shown.
LEMMA SettledFollows == IInv => SettledShown
<1> SUFFICES ASSUME IInv, NEW m \in Machines,
                    up /\ ~ stale[m] /\ tosend[m] = "none" /\ ~ InTransit(m)
             PROVE  missed[m] \/ Shown(m)
  BY DEF SettledShown, Settled
<1>1. /\ resync[m] = "none" /\ pendingUpd[m] = "none" /\ worker[m] = "none"
      /\ Silent(wire, m)
  BY DEF InTransit, Silent, Carries
<1>2. LastRight(m)  BY <1>1 DEF IInv, AllRight
<1> QED  BY <1>1, <1>2 DEF LastRight, Behind, States

\* Whenever a session lives, no update of a machine was dropped, failed or overtaken
\* and none is on its way, the UpcomingNode shows the machine as the inventory has it,
\* or the last update was missed: replay, coalescing, the bounded workers and the order
\* of notifications lose nothing, and reads of a lagging cache do harm only where the
\* handler wrote nothing, on any number of sessions and with any number of failing API
\* calls (shard.go notifyNodeState, resyncNodeState; stream.go recvLoop; upcoming.go).
THEOREM SettledIsShown == Spec => []SettledShown
<1>1. Init => IInv  BY InitSettled
<1>2. IInv /\ [Next]_vars => IInv'  BY NextSettled
<1>3. IInv => SettledShown  BY SettledFollows
<1> QED  BY <1>1, <1>2, <1>3, PTL DEF Spec

-----------------------------------------------------------------------------
(* The cache: an update is missed only when the informer is behind. *)

\* The versions still on their way lead from the cache to the API server.
CacheInv ==
  /\ seen \in [ Machines -> Phases ] /\ watch \in [ Machines -> Seq(Phases) ]
  /\ \A m \in Machines :
       /\ Len(watch[m]) <= MaxLag
       /\ un[m] = IF watch[m] = << >> THEN seen[m] ELSE Last(watch[m])

LEMMA LastOf ==
  ASSUME NEW w \in Seq(Phases), NEW v \in Seq(Phases)
  PROVE  /\ w \o v \in Seq(Phases)
         /\ v = << >> => w \o v = w
         /\ v # << >> => w \o v # << >> /\ Last(w \o v) = Last(v)
<1>1. /\ w \o v \in Seq(Phases) /\ Len(w \o v) = Len(w) + Len(v)
      /\ \A i \in 1 .. Len(w) + Len(v) : (w \o v)[i] = IF i <= Len(w) THEN w[i] ELSE v[i - Len(w)]
  BY ConcatProperties
<1>2. v = << >> => w \o v = w  BY ConcatEmptySeq
<1>3. ASSUME v # << >>  PROVE w \o v # << >> /\ Last(w \o v) = Last(v)
  <2>1. Len(v) \in Nat \ { 0 } /\ Len(w) \in Nat  BY <1>3, EmptySeq
  <2>2. Len(w) + Len(v) \in 1 .. Len(w) + Len(v) /\ ~ (Len(w) + Len(v) <= Len(w))
        /\ (Len(w) + Len(v)) - Len(w) = Len(v)
    BY <2>1
  <2>3. (w \o v)[Len(w) + Len(v)] = v[Len(v)]  BY <1>1, <2>2
  <2>4. Len(w \o v) # 0  BY <1>1, <2>1
  <2> QED  BY <1>1, <2>3, <2>4 DEF Last
<1> QED  BY <1>1, <1>2, <1>3

LEMMA WriteCached ==
  ASSUME SyncType, CacheInv, NEW m \in Machines, NEW v \in Seq(Phases), Write(m, v), seen' = seen
  PROVE  CacheInv'
<1>1. /\ Len(watch[m]) + Len(v) <= MaxLag
      /\ un' = [ un EXCEPT ![m] = IF v = << >> THEN @ ELSE Last(v) ]
      /\ watch' = [ watch EXCEPT ![m] = @ \o v ]
  BY DEF Write
<1>2. ASSUME NEW k \in Machines
      PROVE  /\ watch'[k] \in Seq(Phases) /\ Len(watch'[k]) <= MaxLag
             /\ un'[k] = IF watch'[k] = << >> THEN seen'[k] ELSE Last(watch'[k])
  <2>1. CASE k # m  BY <1>1, <2>1 DEF CacheInv, SyncType
  <2>2. CASE k = m
    <3>1. watch'[m] = watch[m] \o v /\ un'[m] = IF v = << >> THEN un[m] ELSE Last(v)
      BY <1>1 DEF CacheInv, SyncType
    <3>2. Len(watch[m] \o v) = Len(watch[m]) + Len(v)  BY ConcatProperties DEF CacheInv
    <3>3. Len(watch'[m]) <= MaxLag  BY <1>1, <3>1, <3>2
    <3>4. /\ watch[m] \in Seq(Phases) /\ seen'[m] = seen[m]
          /\ un[m] = IF watch[m] = << >> THEN seen[m] ELSE Last(watch[m])
      BY DEF CacheInv
    <3>5. CASE v = << >>
      <4>1. watch'[m] = watch[m] /\ un'[m] = un[m]  BY <3>1, <3>4, <3>5, LastOf
      <4> QED  BY <2>2, <3>3, <3>4, <4>1
    <3>6. CASE v # << >>
      <4>1. /\ watch'[m] \in Seq(Phases) /\ watch'[m] # << >>
            /\ Last(watch'[m]) = Last(v) /\ un'[m] = Last(v)
        BY <3>1, <3>4, <3>6, LastOf
      <4> QED  BY <2>2, <3>3, <4>1
    <3> QED  BY <3>5, <3>6
  <2> QED  BY <2>1, <2>2
<1>3. watch' = [ k \in Machines |-> watch'[k] ]  BY <1>1 DEF CacheInv
<1> QED  BY <1>2, <1>3 DEF CacheInv

LEMMA ShortSeqs ==
  ASSUME NEW X, NEW x \in X, NEW y \in X
  PROVE  << >> \in Seq(X) /\ << x >> \in Seq(X) /\ << x, y >> \in Seq(X)
OBVIOUS

LEMMA VersionsTyped ==
  ASSUME NEW m, NEW phase \in Phases
  PROVE  Versions(m, phase) \subseteq Seq(Phases)
<1>1. "" \in Phases /\ "none" \in Phases  BY DEF Phases
<1>2. << >> \in Seq(Phases) /\ << "none" >> \in Seq(Phases)  BY <1>1, ShortSeqs, Zenon
<1>3. << phase >> \in Seq(Phases) /\ << "", phase >> \in Seq(Phases)  BY <1>1, ShortSeqs, Zenon
<1> QED  BY <1>2, <1>3, Zenon DEF Versions

LEMMA AppendLast ==
  ASSUME NEW w \in Seq(Phases), NEW x \in Phases, Len(w) < MaxLag
  PROVE  /\ Append(w, x) \in Seq(Phases) /\ Append(w, x) # << >> /\ Last(Append(w, x)) = x
         /\ Len(Append(w, x)) <= MaxLag
<1> DEFINE t == Append(w, x)
<1>1. t \in Seq(Phases) /\ Len(t) = Len(w) + 1 /\ t[Len(w) + 1] = x /\ Len(w) \in Nat  OBVIOUS
<1> HIDE DEF t
<1>2. Last(t) = x  BY <1>1 DEF Last
<1>3. t # << >>  BY <1>1, EmptySeq
<1>4. Len(t) <= MaxLag  BY <1>1, SyncAssumption
<1> QED  BY <1>1, <1>2, <1>3, <1>4 DEF t

-----------------------------------------------------------------------------
(* Types of what the session and the receive loop keep. *)

LEMMA AbandonedLength ==
  ASSUME NEW X, NEW s \in Seq(X), NEW m
  PROVE  Len(Abandoned(s, m)) = Len(s) /\ DOMAIN Abandoned(s, m) = 1 .. Len(s)
BY DEF Abandoned

LEMMA AbandonedAnswers ==
  ASSUME NEW s \in Seq(Answers), NEW m \in Machines
  PROVE  Abandoned(s, m) \in Seq(Answers) /\ Len(Abandoned(s, m)) = Len(s)
<1> DEFINE t == [ i \in DOMAIN s |-> IF s[i] = Frame("boot", m) THEN Frame("late", m) ELSE s[i] ]
<1>1. Len(s) \in Nat /\ DOMAIN s = 1 .. Len(s)  OBVIOUS
<1>2. Frame("late", m) \in Answers  BY DEF Frame, Answers
<1>3. \A i \in DOMAIN s : s[i] \in Answers  OBVIOUS
<1>4. t \in Seq(Answers) /\ Len(t) = Len(s)  BY <1>1, <1>2, <1>3
<1> QED  BY <1>4 DEF Abandoned

LEMMA EnqueueTyped ==
  ASSUME outbox \in Seq(Answers), Len(outbox) <= OutboxCap, NEW f \in Answers, enqueue(f)
  PROVE  outbox' \in Seq(Answers) /\ Len(outbox') <= OutboxCap
<1>1. Append(outbox, f) \in Seq(Answers) /\ Len(Append(outbox, f)) = Len(outbox) + 1  OBVIOUS
<1>2. Len(outbox) \in Nat /\ OutboxCap \in Nat  BY SyncAssumption
<1> QED  BY <1>1, <1>2 DEF enqueue

\* One more frame on a stream with room.
LEMMA WireGrows ==
  ASSUME NEW s \in Seq(Frames), NEW f, Len(s) < MaxWire
  PROVE  Len(Append(s, f)) <= MaxWire
<1>1. Len(s) \in Nat /\ MaxWire \in Nat /\ Len(Append(s, f)) = Len(s) + 1  BY SyncAssumption
<1> QED  BY <1>1

LEMMA WireShrinks ==
  ASSUME NEW X, NEW s \in Seq(X), NEW n \in Nat, Len(s) <= n, s # << >>
  PROVE  Tail(s) \in Seq(X) /\ Len(Tail(s)) <= n /\ Head(s) \in X
<1>1. Len(s) \in Nat /\ Tail(s) \in Seq(X) /\ Len(Tail(s)) = Len(s) - 1 /\ Head(s) \in X
  OBVIOUS
<1> QED  BY <1>1

LEMMA RemoveOne ==
  ASSUME NEW X, NEW s \in Seq(X), NEW i \in DOMAIN s
  PROVE  RemoveAt(s, i) \in Seq(X) /\ Len(RemoveAt(s, i)) = Len(s) - 1
<1>1. Len(s) \in Nat /\ i \in 1 .. Len(s) /\ \A k \in 1 .. Len(s) : s[k] \in X  OBVIOUS
<1>2. /\ SubSeq(s, 1, i - 1) \in Seq(X)
      /\ Len(SubSeq(s, 1, i - 1)) = IF 1 <= i - 1 THEN (i - 1) - 1 + 1 ELSE 0
  <2>1. i - 1 \in Int /\ 1 \in Int /\ \A k \in 1 .. i - 1 : s[k] \in X  BY <1>1
  <2> QED  BY <2>1, SubSeqProperties
<1>3. /\ SubSeq(s, i + 1, Len(s)) \in Seq(X)
      /\ Len(SubSeq(s, i + 1, Len(s))) = IF i + 1 <= Len(s) THEN Len(s) - (i + 1) + 1 ELSE 0
  <2>1. i + 1 \in Int /\ Len(s) \in Int /\ \A k \in i + 1 .. Len(s) : s[k] \in X  BY <1>1
  <2> QED  BY <2>1, SubSeqProperties
<1>4. /\ RemoveAt(s, i) \in Seq(X)
      /\ Len(RemoveAt(s, i)) = Len(SubSeq(s, 1, i - 1)) + Len(SubSeq(s, i + 1, Len(s)))
  BY <1>2, <1>3, ConcatProperties DEF RemoveAt
<1>5. Len(SubSeq(s, 1, i - 1)) = i - 1  BY <1>1, <1>2
<1>6. Len(SubSeq(s, i + 1, Len(s))) = Len(s) - i  BY <1>1, <1>3
<1> QED  BY <1>1, <1>4, <1>5, <1>6

LEMMA InitTyped == Init => SlotTypes /\ SlotInv
<1> SUFFICES ASSUME Init PROVE SlotTypes /\ SlotInv  OBVIOUS
<1>1. SlotTypes
  <2>1. << >> \in Seq(Counts) /\ Len(<< >>) = 0 /\ << >> \in Seq(Answers)  OBVIOUS
  <2> QED  BY <2>1, SyncAssumption DEF Init, SlotTypes
<1>2. Busy = {} /\ IsFiniteSet(Busy) /\ Cardinality(Busy) = 0  BY FS_EmptySet DEF Init, Busy
<1>3. SlotsHeld
  <2>1. Cardinality(reclaiming) = 0 /\ Len(hints) = 0  BY FS_EmptySet DEF Init
  <2> QED  BY <1>2, <2>1 DEF Init, SlotsHeld, Busy
<1>4. Marked  BY DEF Init, Marked
<1> QED  BY <1>1, <1>2, <1>3, <1>4, SyncAssumption, FS_EmptySet DEF Init, SlotInv

LEMMA ExecutorTyped ==
  ASSUME IInv, SlotTypes, NEW m \in Machines, Executor(m)
  PROVE  SlotTypes'
<1> USE DEF SlotTypes
<1>1. wire \in Seq(Frames)  BY DEF IInv, SyncType
<1>2. CASE Bind(m)  BY <1>2 DEF Bind, recvVars, capVars
<1>3. CASE requestBootstrap(m)
  BY <1>1, <1>3, WireGrows DEF requestBootstrap, recvVars, capVars
<1>4. CASE executeDrain(m)
  BY <1>1, <1>4, WireGrows DEF executeDrain, recvVars, capVars
<1>5. ASSUME NEW st \in States, handleBootstrapBlobErr(m, st)  PROVE SlotTypes'
  <2>1. Len(wire') <= MaxWire  BY <1>1, <1>5, AbandonedLength DEF handleBootstrapBlobErr
  <2>2. outbox' \in Seq(Answers) /\ Len(outbox') <= OutboxCap
    BY <1>5, AbandonedAnswers DEF handleBootstrapBlobErr
  <2>3. rendering' \subseteq { f \in Answers : f.kind # "ack" }
    BY <1>5 DEF handleBootstrapBlobErr, Frame, Answers
  <2>4. boot' \in [ Machines -> { "none", "asked", "orphaned", "answered" } ]
    BY <1>5 DEF handleBootstrapBlobErr
  <2> QED  BY <1>5, <2>1, <2>2, <2>3, <2>4 DEF handleBootstrapBlobErr, capVars
<1>6. ASSUME NEW st \in States, Configured(m, st) \/ Drained(m, st)  PROVE SlotTypes'
  BY <1>6 DEF Configured, Drained, recvVars, capVars
<1> QED  BY <1>2, <1>3, <1>4, <1>5, <1>6 DEF Executor

LEMMA BreakTyped ==
  ASSUME IInv, SlotTypes, NEW made \in SUBSET Machines, Break(made)
  PROVE  SlotTypes'
<1> USE DEF SlotTypes
<1>1. << >> \in Seq(Counts) /\ Len(<< >>) = 0 /\ << >> \in Seq(Answers)  OBVIOUS
<1>3. boot' \in [ Machines -> { "none", "asked", "orphaned", "answered" } ]  BY DEF Break
<1>2. /\ wire' = << >> /\ outbox' = << >> /\ hints' = << >> /\ rendering' = {}
      /\ conn' = conn /\ ac' = ac /\ acCache' = acCache
  BY DEF Break
<1>4. Len(wire') <= MaxWire /\ Len(outbox') <= OutboxCap  BY <1>1, <1>2, SyncAssumption
<1> QED  BY <1>1, <1>2, <1>3, <1>4

LEMMA NextTyped ==
  ASSUME IInv, SlotTypes, [Next]_vars
  PROVE  SlotTypes'
<1> USE DEF SlotTypes
<1>0. wire \in Seq(Frames) /\ avail \in Counts /\ MaxWire \in Nat /\ OutboxCap \in Nat
  BY SyncAssumption DEF IInv, SyncType
<1>1. ASSUME NEW m \in Machines, Executor(m)  PROVE SlotTypes'  BY <1>1, ExecutorTyped
<1>2. ASSUME NEW m \in Machines, notifyNodeState(m) \/ resyncNodeState(m)  PROVE SlotTypes'
  BY <1>0, <1>2, WireGrows DEF notifyNodeState, resyncNodeState, shardVars, recvVars, capVars
<1>3. ASSUME NEW m \in Machines,
             Worker(m) \/ handleNodeStateUpdateFails(m) \/ drainNodesInBackground(m)
      PROVE  SlotTypes'
  BY <1>3 DEF Worker, takeNextNodeStateUpdate, handleNodeStateUpdate, handleNodeStateUpdateFails,
              drainNodesInBackground, shardVars, capVars
<1>4. ASSUME NEW m \in Machines, handleReclaimInstruction(m)  PROVE SlotTypes'
  <2>1. Frame("ack", m) \in Answers  BY DEF Frame, Answers
  <2>2. outbox' \in Seq(Answers) /\ Len(outbox') <= OutboxCap
    BY <1>4, <2>1, EnqueueTyped DEF handleReclaimInstruction
  <2> QED  BY <1>4, <2>2 DEF handleReclaimInstruction, shardVars, capVars
<1>5. CASE Connect
  <2>1. conn' \in Nat  BY <1>0, <1>5 DEF Connect
  <2> QED  BY <1>5, <2>1 DEF Connect, shardVars, recvVars, capVars
<1>6. CASE \/ removeSession \/ AvailChanges \/ LookupSession \/ WindowElapses \/ UNCHANGED vars
           \/ InformerSeesHint \/ \E m \in Machines : InformerSees(m)
  BY <1>6 DEF InformerSeesHint, InformerSees, removeSession, forget, AvailChanges, LookupSession, WindowElapses, vars, shardVars,
              recvVars, capVars
<1>7. CASE RecvNodeState
  <2>1. Len(wire') <= MaxWire  BY <1>0, <1>7, WireShrinks DEF RecvNodeState
  <2> QED  BY <1>7, <2>1 DEF RecvNodeState, coalesceNodeStateUpdate, shardVars, capVars
<1>8. CASE RecvOther
  <2>1. Len(wire') <= MaxWire /\ Head(wire) \in Frames  BY <1>0, <1>8, WireShrinks DEF RecvOther
  <2>2. rendering' \subseteq { f \in Answers : f.kind # "ack" }
    BY <1>8, <2>1 DEF RecvOther, Frames, NodeFrames, Answers
  <2>3. hints' \in Seq(Counts)
    <3>1. CASE hints' = hints  BY <3>1
    <3>2. CASE Head(wire).kind = "hint" /\ hints' = Append(hints, Head(wire).count)
      <4>1. Head(wire).count \in Counts  BY <2>1, <3>2 DEF Frames, NodeFrames
      <4> QED  BY <3>2, <4>1
    <3> QED  BY <1>8, <3>1, <3>2 DEF RecvOther
  <2> QED  BY <1>8, <2>1, <2>2, <2>3 DEF RecvOther, shardVars
<1>9. CASE Deliver
  <2>1. outbox' \in Seq(Answers) /\ Len(outbox') <= OutboxCap
    BY <1>0, <1>9, WireShrinks DEF Deliver
  <2>2. boot' \in [ Machines -> { "none", "asked", "orphaned", "answered" } ]  BY <1>9 DEF Deliver
  <2> QED  BY <1>9, <2>1, <2>2 DEF Deliver, capVars
<1>10. ASSUME NEW f \in rendering, handleBootstrapRequest(f)  PROVE SlotTypes'
  <2>1. outbox' \in Seq(Answers) /\ Len(outbox') <= OutboxCap
    BY <1>10, EnqueueTyped DEF handleBootstrapRequest
  <2>2. boot' \in [ Machines -> { "none", "asked", "orphaned", "answered" } ]
    BY <1>10 DEF handleBootstrapRequest
  <2> QED  BY <1>10, <2>1, <2>2 DEF handleBootstrapRequest, capVars
<1>11. CASE emitAvailableCapacity
  BY <1>0, <1>11, WireGrows DEF emitAvailableCapacity, shardVars, recvVars
<1>12. ASSUME NEW i \in DOMAIN hints,
              handleAvailableCapacityUpdate(i) \/ handleAvailableCapacityUpdateFails(i)
       PROVE  SlotTypes'
  <2>1. hints' \in Seq(Counts)
    BY <1>12, RemoveOne DEF handleAvailableCapacityUpdate, handleAvailableCapacityUpdateFails
  <2>2. ac' \in Counts \cup { "none" }
    BY <1>12 DEF handleAvailableCapacityUpdate, handleAvailableCapacityUpdateFails
  <2> QED
    BY <1>12, <2>1, <2>2 DEF handleAvailableCapacityUpdate, handleAvailableCapacityUpdateFails, shardVars
<1>14. ASSUME NEW made \in SUBSET Machines, Break(made)  PROVE SlotTypes'
  BY <1>14, BreakTyped
<1> QED
  BY <1>1, <1>2, <1>3, <1>4, <1>5, <1>6, <1>7, <1>8, <1>9, <1>10, <1>11, <1>12, <1>14
     DEF Next, Faults, HintHandlers

-----------------------------------------------------------------------------
(* Who holds the semaphore. *)

LEMMA Counted ==
  ASSUME SlotInv, SlotTypes
  PROVE  /\ Cardinality(Busy) \in Nat /\ Cardinality(reclaiming) \in Nat
         /\ Len(hints) \in Nat /\ slots \in Nat /\ Slots \in Nat
         /\ slots = Cardinality(Busy) + Cardinality(reclaiming) + Len(hints)
<1>1. Cardinality(Busy) \in Nat /\ Cardinality(reclaiming) \in Nat
  BY FS_CardinalityType DEF SlotInv
<1>2. Len(hints) \in Nat  BY DEF SlotTypes
<1>3. slots = Cardinality(Busy) + Cardinality(reclaiming) + Len(hints)
  BY DEF SlotInv, SlotsHeld, Busy
<1> QED  BY <1>1, <1>2, <1>3, SyncAssumption

LEMMA HeldStill ==
  ASSUME SlotInv, inFlight' = inFlight, slots' = slots, reclaiming' = reclaiming, hints' = hints,
         worker' = worker
  PROVE  SlotInv'
BY DEF SlotInv, Marked, SlotsHeld, Busy

\* A worker that goes on holds what it held.
LEMMA WorkerGoesOn ==
  ASSUME SyncType, SlotInv, NEW m \in Machines, worker[m] # "none", NEW w, w # "none",
         worker' = [ worker EXCEPT ![m] = w ],
         inFlight' = inFlight, slots' = slots, reclaiming' = reclaiming, hints' = hints
  PROVE  SlotInv'
<1>1. \A k \in Machines : worker'[k] # "none" <=> worker[k] # "none"  BY DEF SyncType
<1>2. Busy' = Busy  BY <1>1 DEF Busy
<1>3. SlotsHeld'  BY <1>2 DEF SlotInv, SlotsHeld, Busy
<1>4. Marked'  BY <1>1 DEF SlotInv, Marked
<1> QED  BY <1>2, <1>3, <1>4 DEF SlotInv

LEMMA TakeNextHeld ==
  ASSUME SyncType, SlotTypes, SlotInv, NEW m \in Machines, takeNextNodeStateUpdate(m)
  PROVE  SlotInv'
<1>1. CASE pendingUpd[m] # "none"
  BY <1>1, WorkerGoesOn DEF takeNextNodeStateUpdate
<1>2. CASE pendingUpd[m] = "none"
  <2>1. /\ worker[m] = "looping" /\ worker' = [ worker EXCEPT ![m] = "none" ]
        /\ inFlight' = [ inFlight EXCEPT ![m] = FALSE ] /\ slots' = slots - 1
        /\ reclaiming' = reclaiming /\ hints' = hints
    BY <1>2 DEF takeNextNodeStateUpdate
  <2>2. Busy' = Busy \ { m } /\ m \in Busy  BY <2>1 DEF Busy, SyncType
  <2>3. IsFiniteSet(Busy') /\ Cardinality(Busy') = Cardinality(Busy) - 1
    BY <2>2, FS_RemoveElement DEF SlotInv
  <2>4. SlotsHeld' /\ slots' <= Slots
    <3>1. slots' = Cardinality(Busy') + Cardinality(reclaiming') + Len(hints')
      BY <2>1, <2>3, Counted
    <3>2. slots' <= Slots  BY <2>1, Counted DEF SlotInv
    <3> QED  BY <3>1, <3>2 DEF SlotsHeld, Busy
  <2>5. Marked'  BY <2>1 DEF SlotInv, Marked, SyncType
  <2> QED  BY <2>1, <2>3, <2>4, <2>5 DEF SlotInv
<1> QED  BY <1>1, <1>2

LEMMA RecvNodeHeld ==
  ASSUME SyncType, SlotTypes, SlotInv, RecvNodeState
  PROVE  SlotInv'
<1> DEFINE m == Head(wire).machine
<1>1. m \in Machines
  <2>1. Head(wire) \in Frames /\ Head(wire).kind = "node"  BY DEF RecvNodeState, SyncType
  <2> QED  BY <2>1 DEF Frames, NodeFrames
<1> HIDE DEF m
<1>2. inFlight' = [ inFlight EXCEPT ![m] = TRUE ] /\ reclaiming' = reclaiming /\ hints' = hints
  BY DEF RecvNodeState, coalesceNodeStateUpdate, m
<1>3. CASE inFlight[m]
  <2>1. worker' = worker /\ slots' = slots  BY <1>3 DEF RecvNodeState, m
  <2>2. inFlight' = inFlight  BY <1>1, <1>2, <1>3 DEF SlotInv, Marked
  <2> QED  BY <1>2, <2>1, <2>2, HeldStill
<1>4. CASE ~ inFlight[m]
  <2>1. slots < Slots /\ slots' = slots + 1 /\ worker' = [ worker EXCEPT ![m] = "looping" ]
    BY <1>4 DEF RecvNodeState, m
  <2>2. m \notin Busy  BY <1>1, <1>4 DEF SlotInv, Marked, Busy
  <2>3. Busy' = Busy \cup { m }  BY <1>1, <2>1 DEF Busy, SyncType
  <2>4. IsFiniteSet(Busy') /\ Cardinality(Busy') = Cardinality(Busy) + 1
    BY <2>2, <2>3, FS_AddElement DEF SlotInv
  <2>5. SlotsHeld' /\ slots' <= Slots
    <3>1. slots' = Cardinality(Busy') + Cardinality(reclaiming') + Len(hints')
      BY <1>2, <2>1, <2>4, Counted
    <3>2. slots' <= Slots  BY <2>1, Counted
    <3> QED  BY <3>1, <3>2 DEF SlotsHeld, Busy
  <2>6. Marked'  BY <1>1, <1>2, <2>1 DEF SlotInv, Marked, SyncType
  <2> QED  BY <1>2, <2>4, <2>5, <2>6 DEF SlotInv
<1> QED  BY <1>3, <1>4

\* The other handlers: a change of slots by the change of those that run.
LEMMA OthersHeld ==
  ASSUME SlotTypes, SlotInv, worker' = worker, inFlight' = inFlight, slots' <= Slots,
         IsFiniteSet(reclaiming'),
         slots' - slots = (Cardinality(reclaiming') - Cardinality(reclaiming))
                             + (Len(hints') - Len(hints)),
         slots' \in Int, Cardinality(reclaiming') \in Nat, Len(hints') \in Nat
  PROVE  SlotInv'
<1>1. Busy' = Busy  BY DEF Busy
<1>2. slots' = Cardinality(Busy) + Cardinality(reclaiming') + Len(hints')
  <2>1. \A b, r, u, h, k \in Nat, n, o \in Int :
          n = b + r + h /\ o - n = (u - r) + (k - h) => o = b + u + k
    OBVIOUS
  <2>2. /\ slots \in Int /\ Cardinality(Busy) \in Nat /\ Cardinality(reclaiming) \in Nat
        /\ Len(hints) \in Nat
        /\ slots = Cardinality(Busy) + Cardinality(reclaiming) + Len(hints)
    BY Counted
  <2> QED  BY <2>1, <2>2, SMTT(30)
<1>3. SlotsHeld'  BY <1>1, <1>2 DEF SlotsHeld, Busy
<1>4. Marked'  BY DEF SlotInv, Marked
<1> QED  BY <1>1, <1>3, <1>4 DEF SlotInv

LEMMA RecvOtherHeld ==
  ASSUME SlotTypes, SlotInv, RecvOther
  PROVE  SlotInv'
<1> DEFINE f == Head(wire)
<1>1. worker' = worker /\ inFlight' = inFlight  BY DEF RecvOther
<1>2. CASE slots' = slots /\ reclaiming' = reclaiming /\ hints' = hints
  BY <1>1, <1>2, HeldStill
<1>3. CASE /\ f.machine \notin reclaiming /\ slots < Slots /\ slots' = slots + 1
           /\ reclaiming' = reclaiming \cup { f.machine } /\ hints' = hints
  <2>1. IsFiniteSet(reclaiming') /\ Cardinality(reclaiming') = Cardinality(reclaiming) + 1
    BY <1>3, FS_AddElement DEF SlotInv
  <2>2. slots' - slots = (Cardinality(reclaiming') - Cardinality(reclaiming))
                           + (Len(hints') - Len(hints))
    BY <1>3, <2>1, Counted
  <2>3. Cardinality(reclaiming') \in Nat /\ Len(hints') \in Nat /\ slots' \in Int /\ slots' <= Slots
    BY <1>3, <2>1, Counted
  <2> QED  BY <1>1, <2>1, <2>2, <2>3, OthersHeld
<1>4. CASE /\ slots < Slots /\ slots' = slots + 1 /\ reclaiming' = reclaiming
           /\ hints' = Append(hints, f.count)
  <2>1. Len(hints') = Len(hints) + 1  BY <1>4 DEF SlotTypes
  <2>2. IsFiniteSet(reclaiming')  BY <1>4 DEF SlotInv
  <2>3. slots' - slots = (Cardinality(reclaiming') - Cardinality(reclaiming))
                           + (Len(hints') - Len(hints))
    BY <1>4, <2>1, Counted
  <2>4. Cardinality(reclaiming') \in Nat /\ Len(hints') \in Nat /\ slots' \in Int /\ slots' <= Slots
    BY <1>4, <2>1, Counted
  <2> QED  BY <1>1, <2>2, <2>3, <2>4, OthersHeld
<1> QED  BY <1>2, <1>3, <1>4 DEF RecvOther

LEMMA ReclaimHeld ==
  ASSUME SlotTypes, SlotInv, NEW m \in Machines, handleReclaimInstruction(m)
  PROVE  SlotInv'
<1>1. /\ m \in reclaiming /\ reclaiming' = reclaiming \ { m } /\ slots' = slots - 1
      /\ hints' = hints /\ worker' = worker /\ inFlight' = inFlight
  BY DEF handleReclaimInstruction
<1>2. IsFiniteSet(reclaiming') /\ Cardinality(reclaiming') = Cardinality(reclaiming) - 1
  BY <1>1, FS_RemoveElement DEF SlotInv
<1>3. Cardinality(reclaiming') \in Nat  BY <1>2, FS_CardinalityType
<1>4. slots' <= Slots  BY <1>1, Counted DEF SlotInv
<1> QED  BY <1>1, <1>2, <1>3, <1>4, Counted, OthersHeld

LEMMA HintHeld ==
  ASSUME SlotTypes, SlotInv, NEW i \in DOMAIN hints,
         hints' = RemoveAt(hints, i), slots' = slots - 1,
         worker' = worker, inFlight' = inFlight, reclaiming' = reclaiming
  PROVE  SlotInv'
<1>1. hints \in Seq(Counts) /\ Len(hints) \in Nat /\ i \in 1 .. Len(hints)  BY DEF SlotTypes
<1>2. Len(hints') = Len(hints) - 1  BY <1>1, RemoveOne
<1>3. Len(hints') \in Nat  BY <1>1, <1>2
<1>4. slots' <= Slots /\ slots' \in Int  BY Counted DEF SlotInv
<1>5. IsFiniteSet(reclaiming') /\ Cardinality(reclaiming') = Cardinality(reclaiming)
  BY DEF SlotInv
<1>6. slots' - slots = (Cardinality(reclaiming') - Cardinality(reclaiming))
                          + (Len(hints') - Len(hints))
  BY <1>1, <1>2, <1>5, Counted
<1> QED  BY <1>3, <1>4, <1>5, <1>6, Counted, OthersHeld

LEMMA BreakHeld ==
  ASSUME SlotInv, NEW made \in SUBSET Machines, Break(made)
  PROVE  SlotInv'
<1>1. /\ worker' = [ m \in Machines |-> "none" ] /\ inFlight' = [ m \in Machines |-> FALSE ]
      /\ slots' = 0 /\ reclaiming' = {} /\ hints' = << >>
  BY DEF Break
<1>2. Busy' = {}  BY <1>1 DEF Busy
<1>3. /\ IsFiniteSet(Busy') /\ IsFiniteSet(reclaiming')
      /\ Cardinality(Busy') = 0 /\ Cardinality(reclaiming') = 0 /\ Len(hints') = 0
  BY <1>1, <1>2, FS_EmptySet
<1>4. slots' = Cardinality(Busy') + Cardinality(reclaiming') + Len(hints')  BY <1>1, <1>3
<1>5. SlotsHeld'  BY <1>4 DEF SlotsHeld, Busy
<1>6. Marked'  BY <1>1 DEF Marked
<1> QED  BY <1>1, <1>3, <1>5, <1>6, SyncAssumption DEF SlotInv

LEMMA NextHeld ==
  ASSUME SyncType, SlotTypes, SlotInv, [Next]_vars
  PROVE  SlotInv'
<1>1. ASSUME NEW m \in Machines,
             Executor(m) \/ notifyNodeState(m) \/ resyncNodeState(m) \/ drainNodesInBackground(m)
      PROVE  SlotInv'
  <2>1. /\ inFlight' = inFlight /\ slots' = slots /\ reclaiming' = reclaiming /\ hints' = hints
        /\ worker' = worker
    BY <1>1 DEF Executor, Bind, requestBootstrap, executeDrain, handleBootstrapBlobErr, Configured,
                Drained, notifyNodeState, resyncNodeState, drainNodesInBackground, recvVars
  <2> QED  BY <2>1, HeldStill
<1>2. CASE \/ Connect \/ removeSession \/ Deliver \/ AvailChanges \/ LookupSession
           \/ emitAvailableCapacity \/ WindowElapses \/ UNCHANGED vars
           \/ \E f \in rendering : handleBootstrapRequest(f)
           \/ InformerSeesHint \/ \E m \in Machines : InformerSees(m)
  <2>1. /\ inFlight' = inFlight /\ slots' = slots /\ reclaiming' = reclaiming /\ hints' = hints
        /\ worker' = worker
    BY <1>2 DEF Connect, removeSession, Deliver, AvailChanges, LookupSession, emitAvailableCapacity,
                WindowElapses, InformerSeesHint, InformerSees, vars, handleBootstrapRequest, recvVars
  <2> QED  BY <2>1, HeldStill
<1>3. ASSUME NEW m \in Machines, takeNextNodeStateUpdate(m)  PROVE SlotInv'
  BY <1>3, TakeNextHeld
<1>4. ASSUME NEW m \in Machines, handleNodeStateUpdate(m) \/ handleNodeStateUpdateFails(m)
      PROVE  SlotInv'
  <2>1. worker[m] # "none"
    BY <1>4 DEF handleNodeStateUpdate, handleNodeStateUpdateFails, States
  <2> QED
    BY <1>4, <2>1, WorkerGoesOn DEF handleNodeStateUpdate, handleNodeStateUpdateFails
<1>5. CASE RecvNodeState  BY <1>5, RecvNodeHeld
<1>6. CASE RecvOther  BY <1>6, RecvOtherHeld
<1>7. ASSUME NEW m \in Machines, handleReclaimInstruction(m)  PROVE SlotInv'
  BY <1>7, ReclaimHeld
<1>8. ASSUME NEW i \in DOMAIN hints,
             handleAvailableCapacityUpdate(i) \/ handleAvailableCapacityUpdateFails(i)
      PROVE  SlotInv'
  BY <1>8, HintHeld DEF handleAvailableCapacityUpdate, handleAvailableCapacityUpdateFails
<1>10. ASSUME NEW made \in SUBSET Machines, Break(made)  PROVE SlotInv'
  BY <1>10, BreakHeld
<1> QED
  BY <1>1, <1>2, <1>3, <1>4, <1>5, <1>6, <1>7, <1>8, <1>10
     DEF Next, Worker, Faults, HintHandlers

-----------------------------------------------------------------------------
(* The cache, step by step. *)

LEMMA CacheStill ==
  ASSUME CacheInv, UNCHANGED << un, seen, watch >>
  PROVE  CacheInv'
BY DEF CacheInv

LEMMA InformerCached ==
  ASSUME SyncType, CacheInv, NEW m \in Machines, InformerSees(m)
  PROVE  CacheInv'
<1>1. /\ watch[m] # << >> /\ un' = un
      /\ seen' = [ seen EXCEPT ![m] = Head(watch[m]) ]
      /\ watch' = [ watch EXCEPT ![m] = Tail(watch[m]) ]
  BY DEF InformerSees
<1> DEFINE w == watch[m]
<1>2. w \in Seq(Phases) /\ Len(w) <= MaxLag /\ un[m] = Last(w) /\ w # << >>
  BY <1>1 DEF CacheInv
<1> HIDE DEF w
<1>3. /\ Len(w) \in Nat \ { 0 } /\ Head(w) \in Phases /\ Head(w) = w[1]
      /\ Tail(w) \in Seq(Phases) /\ Len(Tail(w)) = Len(w) - 1
      /\ \A i \in 1 .. Len(w) - 1 : Tail(w)[i] = w[i + 1]
  BY <1>2
<1>4. Tail(w) = << >> => Last(w) = Head(w)
  <2> SUFFICES ASSUME Tail(w) = << >> PROVE Last(w) = Head(w)  OBVIOUS
  <2>1. Len(Tail(w)) = Len(<< >>) /\ Len(<< >>) = 0  OBVIOUS
  <2>2. Len(w) - 1 = 0 /\ Len(w) \in Nat  BY <1>3, <2>1, Zenon
  <2>3. Len(w) = 1  BY <2>2
  <2> QED  BY <1>3, <2>3, Zenon DEF Last
<1>5. Tail(w) # << >> => Last(Tail(w)) = Last(w)
  <2> SUFFICES ASSUME Tail(w) # << >> PROVE Last(Tail(w)) = Last(w)  OBVIOUS
  <2>1. Len(w) - 1 \in 1 .. Len(w) - 1  BY <1>3, EmptySeq
  <2>2. Tail(w)[Len(w) - 1] = w[(Len(w) - 1) + 1]  BY <1>3, <2>1
  <2>3. (Len(w) - 1) + 1 = Len(w)  BY <1>3
  <2> QED  BY <1>3, <2>2, <2>3 DEF Last
<1>6. Len(Tail(w)) <= MaxLag
  <2>1. MaxLag \in Nat  BY SyncAssumption
  <2> QED  BY <1>2, <1>3, <2>1
<1>7. seen' \in [ Machines -> Phases ] /\ watch' \in [ Machines -> Seq(Phases) ]
  BY <1>1, <1>3 DEF CacheInv, w
<1>8. ASSUME NEW k \in Machines
      PROVE  /\ Len(watch'[k]) <= MaxLag
             /\ un'[k] = IF watch'[k] = << >> THEN seen'[k] ELSE Last(watch'[k])
  <2>1. CASE k = m
    <3>1. watch'[m] = Tail(w) /\ seen'[m] = Head(w) /\ un'[m] = Last(w)
      BY <1>1, <1>2 DEF CacheInv, w
    <3> QED  BY <1>4, <1>5, <1>6, <2>1, <3>1
  <2>2. CASE k # m
    <3>1. watch'[k] = watch[k] /\ seen'[k] = seen[k] /\ un'[k] = un[k]
      BY <1>1, <2>2 DEF CacheInv
    <3> QED  BY <3>1 DEF CacheInv
  <2> QED  BY <2>1, <2>2
<1> QED  BY <1>7, <1>8 DEF CacheInv

LEMMA BreakCached ==
  ASSUME SyncType, CacheInv, NEW made \in SUBSET Machines, Break(made)
  PROVE  CacheInv'
<1>1. /\ \A m \in made : Len(watch[m]) < MaxLag
      /\ un' = [ m \in Machines |-> IF m \in made THEN "" ELSE un[m] ]
      /\ watch' = [ m \in Machines |-> IF m \in made THEN Append(watch[m], "") ELSE watch[m] ]
      /\ seen' = seen
  BY DEF Break
<1>2. ASSUME NEW m \in Machines
      PROVE  /\ watch'[m] \in Seq(Phases) /\ Len(watch'[m]) <= MaxLag
             /\ un'[m] = IF watch'[m] = << >> THEN seen'[m] ELSE Last(watch'[m])
  <2>1. CASE m \notin made  BY <1>1, <2>1 DEF CacheInv
  <2>2. CASE m \in made
    <3>1. watch[m] \in Seq(Phases) /\ "" \in Phases  BY DEF CacheInv, Phases
    <3>2. Len(watch[m]) < MaxLag /\ watch'[m] = Append(watch[m], "") /\ un'[m] = ""
      BY <1>1, <2>2
    <3> QED  BY <3>1, <3>2, AppendLast
  <2> QED  BY <2>1, <2>2
<1>3. watch' \in [ Machines -> Seq(Phases) ]  BY <1>1, <1>2
<1> QED  BY <1>1, <1>2, <1>3 DEF CacheInv

LEMMA NextCached ==
  ASSUME SyncType, CacheInv, [Next]_vars
  PROVE  CacheInv'
<1>1. ASSUME NEW m \in Machines, handleNodeStateUpdate(m)  PROVE CacheInv'
  <2> DEFINE phase == upcomingNodePhase(worker[m])
  <2>1. worker[m] \in States /\ seen' = seen  BY <1>1 DEF handleNodeStateUpdate
  <2>2. phase \in Phases  BY <2>1, PhaseTyped
  <2>3. \E v \in Versions(m, phase) : Write(m, v)  BY <1>1, <2>1, UpdateShows
  <2> HIDE DEF phase
  <2> QED  BY <2>1, <2>2, <2>3, VersionsTyped, WriteCached
<1>2. ASSUME NEW m \in Machines, handleNodeStateUpdateFails(m)  PROVE CacheInv'
  <2>1. /\ Write(m, << >>) \/ Write(m, << "" >>) 
        /\ seen' = seen
    BY <1>2 DEF handleNodeStateUpdateFails
  <2>2. << >> \in Seq(Phases) /\ << "" >> \in Seq(Phases)  BY DEF Phases
  <2> QED  BY <2>1, <2>2, WriteCached
<1>3. ASSUME NEW m \in Machines, InformerSees(m)  PROVE CacheInv'  BY <1>3, InformerCached
<1>4. ASSUME NEW made \in SUBSET Machines, Break(made)  PROVE CacheInv'  BY <1>4, BreakCached
<1>5. ASSUME NEW m \in Machines,
             \/ Executor(m) \/ notifyNodeState(m) \/ resyncNodeState(m) \/ takeNextNodeStateUpdate(m)
             \/ handleReclaimInstruction(m) \/ drainNodesInBackground(m)
      PROVE  CacheInv'
  <2>1. UNCHANGED << un, seen, watch >>
    BY <1>5 DEF Executor, Bind, requestBootstrap, executeDrain, handleBootstrapBlobErr, Configured,
                Drained, notifyNodeState, resyncNodeState, takeNextNodeStateUpdate,
                handleReclaimInstruction, drainNodesInBackground
  <2> QED  BY <2>1, CacheStill
<1>6. CASE \/ Connect \/ removeSession \/ RecvNodeState \/ RecvOther \/ Deliver \/ AvailChanges
           \/ LookupSession \/ emitAvailableCapacity \/ WindowElapses \/ InformerSeesHint
           \/ HintHandlers \/ UNCHANGED vars
           \/ \E f \in rendering : handleBootstrapRequest(f)
           \/ \E i \in DOMAIN hints : handleAvailableCapacityUpdateFails(i)
  <2>1. UNCHANGED << un, seen, watch >>
    BY <1>6 DEF Connect, removeSession, RecvNodeState, RecvOther, Deliver, AvailChanges, LookupSession,
                emitAvailableCapacity, WindowElapses, InformerSeesHint, HintHandlers, vars,
                handleAvailableCapacityUpdate, handleAvailableCapacityUpdateFails,
                handleBootstrapRequest
  <2> QED  BY <2>1, CacheStill
<1> QED  BY <1>1, <1>2, <1>3, <1>4, <1>5, <1>6 DEF Next, Worker, Faults

LEMMA InitCached == Init => CacheInv
<1>1. << >> \in Seq(Phases) /\ Len(<< >>) = 0  OBVIOUS
<1> QED  BY <1>1, SyncAssumption DEF Init, CacheInv, Phases

\* With the cache up to date an update is not missed.
LEMMA CurrentNotMissed ==
  ASSUME SyncType, CacheInv, [Next]_vars, NEW m \in Machines, missed'[m], ~ missed[m]
  PROVE  watch[m] # << >>
<1> SUFFICES ASSUME watch[m] = << >> PROVE FALSE  OBVIOUS
<1>1. un[m] = seen[m]  BY DEF CacheInv
<1>2. ASSUME missed' = missed  PROVE FALSE  BY <1>2
<1>3. ASSUME NEW k \in Machines, handleNodeStateUpdate(k)  PROVE FALSE
  <2>1. worker[k] \in States  BY <1>3 DEF handleNodeStateUpdate
  <2>2. k = m
    <3>1. \A n \in Machines : n # k => missed'[n] = missed[n]  BY <1>3, <2>1, UpdateShows
    <3> QED  BY <3>1
  <2> DEFINE phase == upcomingNodePhase(worker[m])
  <2>3. /\ missed \in [ Machines -> BOOLEAN ] /\ un \in [ Machines -> Phases ]
        /\ phase \in Phases \ { "none", "" }
    BY <2>1, <2>2, PhaseTyped DEF SyncType
  <2>4. \/ CreateNode(m, phase) \/ CreateMeetsNode(m)
        \/ \E was \in Existing(m) : DeleteNode(m, phase, was) \/ PatchNode(m, phase, was)
    BY <1>3, <2>2 DEF handleNodeStateUpdate
  <2> HIDE DEF phase
  <2>5. ~ CreateNode(m, phase)  BY <2>3 DEF CreateNode
  <2>6. ~ CreateMeetsNode(m)  BY <1>1 DEF CreateMeetsNode
  <2>7. ASSUME NEW was \in Existing(m), DeleteNode(m, phase, was)  PROVE FALSE
    BY <2>3, <2>7 DEF DeleteNode
  <2>8. ASSUME NEW was \in Existing(m), PatchNode(m, phase, was)  PROVE FALSE
    <3>1. was = un[m] /\ un[m] # "none"  BY <1>1 DEF Existing
    <3>2. un'[m] # phase  BY <2>3, <2>8 DEF PatchNode
    <3>3. CASE un[m] = phase
      <4>1. Write(m, << >>)  BY <2>8, <3>3 DEF PatchNode
      <4> QED  BY <2>3, <3>2, <3>3, <4>1 DEF Write
    <3>4. CASE un[m] # phase
      <4>1. Write(m, << phase >>)  BY <2>8, <3>1, <3>4 DEF PatchNode
      <4>2. un'[m] = phase  BY <2>3, <4>1 DEF Write, Last
      <4> QED  BY <3>2, <4>2
    <3> QED  BY <3>3, <3>4
  <2> QED  BY <2>4, <2>5, <2>6, <2>7, <2>8
<1>4. ASSUME NEW k \in Machines,
             \/ Executor(k) \/ notifyNodeState(k) \/ resyncNodeState(k) \/ takeNextNodeStateUpdate(k)
             \/ handleReclaimInstruction(k) \/ drainNodesInBackground(k) \/ InformerSees(k)
             \/ handleNodeStateUpdateFails(k)
      PROVE  FALSE
  <2>1. missed' = missed
    BY <1>4 DEF Executor, Bind, requestBootstrap, executeDrain, handleBootstrapBlobErr, Configured,
                Drained, notifyNodeState, resyncNodeState, takeNextNodeStateUpdate,
                handleReclaimInstruction, drainNodesInBackground, InformerSees,
                handleNodeStateUpdateFails
  <2> QED  BY <1>2, <2>1
<1>5. CASE \/ Connect \/ removeSession \/ RecvNodeState \/ RecvOther \/ Deliver \/ AvailChanges
           \/ LookupSession \/ emitAvailableCapacity \/ WindowElapses \/ InformerSeesHint
           \/ HintHandlers \/ UNCHANGED vars
           \/ \E f \in rendering : handleBootstrapRequest(f)
           \/ \E i \in DOMAIN hints : handleAvailableCapacityUpdateFails(i)
           \/ \E made \in SUBSET Machines : Break(made)
  <2>1. missed' = missed
    BY <1>5 DEF Connect, removeSession, RecvNodeState, RecvOther, Deliver, AvailChanges, LookupSession,
                emitAvailableCapacity, WindowElapses, InformerSeesHint, HintHandlers, vars,
                handleAvailableCapacityUpdate, handleAvailableCapacityUpdateFails,
                handleBootstrapRequest, Break
  <2> QED  BY <1>2, <2>1
<1> QED  BY <1>3, <1>4, <1>5 DEF Next, Worker, Faults

\* What the theorems rest on.
LEMMA HeldAlways == Spec => [](SyncType /\ SlotTypes /\ SlotInv /\ CacheInv)
<1>1. Init => IInv /\ SlotTypes /\ SlotInv /\ CacheInv  BY InitSettled, InitTyped, InitCached
<1>2. (IInv /\ SlotTypes /\ SlotInv /\ CacheInv) /\ [Next]_vars
        => (IInv /\ SlotTypes /\ SlotInv /\ CacheInv)'
  BY NextSettled, NextTyped, NextHeld, NextCached DEF IInv
<1>3. IInv => SyncType  BY DEF IInv
<1> QED  BY <1>1, <1>2, <1>3, PTL DEF Spec

\* The variables keep their types; among them, neither the stream nor the outbox
\* outgrows its limit and the semaphore never holds more than its places
\* (operator/stream.go enqueue, recvLoop).
THEOREM SyncTypeCorrect == Spec => []TypeOK
<1>1. ASSUME SyncType, SlotTypes, SlotInv, CacheInv  PROVE TypeOK
  <2>1. slots \in 0 .. Slots  BY <1>1, Counted DEF SlotInv
  <2> QED  BY <1>1, <2>1 DEF TypeOK, SyncType, SlotTypes, CacheInv
<1> QED  BY <1>1, HeldAlways, PTL

\* The places taken in dispatchSem are those of the node update workers, reclaim
\* handlers and hint handlers that run, for any number of machines and sessions:
\* coalescing starts at most one worker per machine, each returns its place once,
\* and a broken session leaves none behind (operator/stream.go recvLoop).
THEOREM SemaphoreHeld == Spec => []SlotsHeld
<1>1. SlotInv => SlotsHeld  BY DEF SlotInv
<1> QED  BY <1>1, HeldAlways, PTL

\* An update of a machine is missed only while its informer is behind: the writes
\* and deletions of upcoming.go:88-235 leave no wrong phase behind when their first
\* read was current, whatever sessions, workers and failing API calls did before.
THEOREM MissedOnlyBehind ==
  Spec => [][\A m \in Machines : missed'[m] => missed[m] \/ watch[m] # << >>]_vars
<1>1. ASSUME SyncType, CacheInv, [Next]_vars
      PROVE  [\A m \in Machines : missed'[m] => missed[m] \/ watch[m] # << >>]_vars
  BY <1>1, CurrentNotMissed
<1>2. SyncType /\ CacheInv /\ [Next]_vars
        => [\A m \in Machines : missed'[m] => missed[m] \/ watch[m] # << >>]_vars
  BY <1>1
<1> QED  BY <1>2, HeldAlways, PTL DEF Spec

=============================================================================
