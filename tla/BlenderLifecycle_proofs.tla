----------------------- MODULE BlenderLifecycle_proofs ----------------------
(* Proofs about the supervision of Blender, for any number of events.      *)
EXTENDS BlenderLifecycle, FiniteSetTheorems, TLAPS

\* A process lives only while it is the one in the slot: the waiter empties
\* the slot after the process has ended, and a launch needs an empty slot.
InSlot == alive \subseteq {child} /\ 0 \notin alive

Inv == TypeOK /\ InSlot

\* The first state.
LEMMA InitInv == Init => Inv
<1> SUFFICES ASSUME Init PROVE Inv
    OBVIOUS
<1>1. InSlot
    BY Zenon DEF Init, InSlot
<1>2. queue \in Seq(Event) /\ alive \in SUBSET Nat /\ asked \in SUBSET Nat
    BY DEF Init
<1>3. /\ child \in Nat /\ launches \in Nat /\ leaving \in Nat /\ killers \in Nat
      /\ outside \in Nat /\ crashes \in Nat /\ fails \in Nat
    BY DEF Init
<1>4. /\ peerUp \in BOOLEAN /\ sessionOn \in BOOLEAN /\ deadline \in BOOLEAN /\ wanted \in BOOLEAN
      /\ failed \in BOOLEAN /\ crossed \in BOOLEAN
      /\ loop \in {"select", "relaunch", "done"} /\ byHand \in {"no", "start", "stop"}
    BY Zenon DEF Init
<1> QED
    BY <1>1, <1>2, <1>3, <1>4, Zenon DEF Inv, TypeOK

\* What is put on the queue, and taken off it.
LEMMA QueueTypes ==
    ASSUME queue \in Seq(Event), NEW e \in Event
    PROVE  Append(queue, e) \in Seq(Event) /\ (queue # <<>> => Tail(queue) \in Seq(Event))
OBVIOUS

\* A launch keeps the slot and the processes together.
LEMMA SpawnInv ==
    ASSUME TypeOK, InSlot, Spawn
    PROVE  /\ InSlot'
           /\ child' \in Nat /\ launches' \in Nat /\ leaving' \in Nat /\ killers' \in Nat
           /\ alive' \in SUBSET Nat /\ asked' \in SUBSET Nat
           /\ failed' \in BOOLEAN /\ fails' \in Nat
<1>1. CASE UNCHANGED <<blender, failed, fails>>
    BY <1>1 DEF TypeOK, InSlot, blender
<1>2. CASE /\ ~Running
           /\ child' = launches + 1 /\ launches' = launches + 1
           /\ alive' = alive \cup {launches + 1}
           /\ failed' = FALSE
           /\ UNCHANGED <<asked, leaving, killers, fails>>
  <2>1. alive = {}
      BY <1>2 DEF InSlot, Running
  <2>2. alive' = {child'} /\ child' # 0 /\ child' \in Nat
      BY <1>2, <2>1 DEF TypeOK
  <2> QED
      BY <1>2, <2>2 DEF TypeOK, InSlot
<1>3. CASE fails' = fails + 1 /\ failed' = TRUE /\ UNCHANGED blender
    BY <1>3 DEF TypeOK, InSlot, blender
<1> QED
    BY <1>1, <1>2, <1>3, Zenon DEF Spawn

\* A close changes neither.
LEMMA CloseInv ==
    ASSUME TypeOK, InSlot, Close
    PROVE  /\ InSlot'
           /\ child' \in Nat /\ launches' \in Nat /\ leaving' \in Nat /\ killers' \in Nat
           /\ alive' \in SUBSET Nat /\ asked' \in SUBSET Nat
<1>1. UNCHANGED <<child, alive, launches, leaving>>
    BY Zenon DEF Close
<1>2. CASE Running
  <2>1. asked' = asked \cup {child} /\ killers' = killers + 1
      BY <1>2, Zenon DEF Close
  <2> QED
      BY <1>1, <2>1 DEF TypeOK, InSlot
<1>3. CASE ~Running
  <2>1. UNCHANGED <<asked, killers>>
      BY <1>3, Zenon DEF Close
  <2> QED
      BY <1>1, <2>1, Zenon DEF TypeOK, InSlot
<1> QED
    BY <1>2, <1>3

\* Every step keeps the invariant.
LEMMA NextInv == Inv /\ [Next]_vars => Inv'
<1> SUFFICES ASSUME Inv, [Next]_vars PROVE Inv'
    OBVIOUS
<1> USE DEF Inv
<1>1. CASE UNCHANGED vars
    BY <1>1, Zenon DEF vars, flags, task, blender, notes, bounds, TypeOK, InSlot
<1>2. CASE Observed
  <2>1. UNCHANGED <<task, blender, notes, crashes, fails>> /\ outside' = outside + 1
      BY <1>2, Zenon DEF Observed, PeerUp, PeerDown, Goodbye, Session, Tray, Outside
  <2>2. peerUp' \in BOOLEAN /\ sessionOn' \in BOOLEAN
      BY <1>2, Zenon DEF Observed, PeerUp, PeerDown, Goodbye, Session, Tray, TypeOK, flags
  <2>3. queue' = queue \/ \E e \in Event : queue' = Append(queue, e)
      BY <1>2 DEF Observed, PeerUp, PeerDown, Goodbye, Session, Tray, Event
  <2>4. queue' \in Seq(Event)
      BY <2>3, QueueTypes DEF TypeOK
  <2>5. outside' \in Nat
      BY <2>1 DEF TypeOK
  <2>6. InSlot'
      BY <2>1, Zenon DEF InSlot, blender
  <2> QED
      BY <2>1, <2>2, <2>4, <2>5, <2>6, Zenon DEF TypeOK, task, blender, notes
<1>3. CASE Handle
  <2>1. UNCHANGED <<flags, outside, crashes>> /\ queue' = Tail(queue) /\ queue # <<>>
      BY <1>3, Zenon DEF Handle, OnSessionOn, EndSession, OnChildExited, OnManualStart, OnManualStop,
                  OnShutdown, Take
  <2>2. queue' \in Seq(Event)
      BY <2>1 DEF TypeOK
  <2>3. /\ loop' \in {"select", "relaunch", "done"} /\ deadline' \in BOOLEAN /\ wanted' \in BOOLEAN
        /\ byHand' \in {"no", "start", "stop"} /\ crossed' \in BOOLEAN
      BY <1>3, Zenon DEF Handle, OnSessionOn, EndSession, OnChildExited, OnManualStart, OnManualStop,
                  OnShutdown, TypeOK, notes
  <2>4. \/ Spawn
        \/ Close /\ UNCHANGED <<failed, fails>>
        \/ UNCHANGED <<blender, failed, fails>>
      BY <1>3, Zenon DEF Handle, OnSessionOn, EndSession, OnChildExited, OnManualStart, OnManualStop,
                  OnShutdown, notes
  <2>5. /\ InSlot'
        /\ child' \in Nat /\ launches' \in Nat /\ leaving' \in Nat /\ killers' \in Nat
        /\ alive' \in SUBSET Nat /\ asked' \in SUBSET Nat
        /\ failed' \in BOOLEAN /\ fails' \in Nat
    <3>1. CASE Spawn
        BY <3>1, SpawnInv
    <3>2. CASE Close /\ UNCHANGED <<failed, fails>>
        BY <3>2, CloseInv DEF TypeOK
    <3>3. CASE UNCHANGED <<blender, failed, fails>>
        BY <3>3, Zenon DEF TypeOK, InSlot, blender
    <3> QED
        BY <2>4, <3>1, <3>2, <3>3
  <2> QED
      BY <2>1, <2>2, <2>3, <2>5, Zenon DEF TypeOK, flags
<1>4. CASE Deadline
  <2>1. UNCHANGED <<flags, queue, loop, notes, bounds>> /\ deadline' \in BOOLEAN /\ wanted' \in BOOLEAN
      BY <1>4, Zenon DEF Deadline, TypeOK
  <2>2. CASE UNCHANGED blender
      BY <2>1, <2>2, Zenon DEF TypeOK, InSlot, flags, notes, bounds, blender
  <2>3. CASE Close
      BY <2>1, <2>3, CloseInv, Zenon DEF TypeOK, flags, notes, bounds
  <2> QED
      BY <1>4, <2>2, <2>3, Zenon DEF Deadline
<1>5. CASE Relaunch
  <2>1. /\ loop' = "select" /\ Spawn
        /\ UNCHANGED <<flags, queue, deadline, wanted, byHand, crossed, outside, crashes>>
      BY <1>5 DEF Relaunch
  <2> QED
      BY <2>1, SpawnInv, Zenon DEF TypeOK, flags
<1>6. CASE Aborted
    BY <1>6, Zenon DEF Aborted, TypeOK, InSlot, flags, blender, notes, bounds
<1>7. ASSUME NEW c \in alive, BlenderEnds(c) PROVE Inv'
  <2>1. /\ alive' = alive \ {c} /\ crashes' \in Nat
        /\ UNCHANGED <<flags, queue, task, child, asked, launches, leaving, killers, notes, outside, fails>>
      BY <1>7 DEF BlenderEnds, TypeOK
  <2>2. alive' \in SUBSET Nat /\ InSlot'
      BY <2>1, Zenon DEF TypeOK, InSlot
  <2> QED
      BY <2>1, <2>2, Zenon DEF TypeOK, flags, task, notes
<1>8. CASE Reap
  <2>1. /\ child' = 0 /\ leaving' \in Nat
        /\ UNCHANGED <<flags, queue, task, alive, asked, launches, killers, notes, bounds>>
      BY <1>8 DEF Reap, TypeOK
  <2>2. InSlot'
      BY <1>8, <2>1, Zenon DEF Reap, InSlot
  <2>3. child' \in Nat
      BY <2>1
  <2> QED
      BY <2>1, <2>2, <2>3, Zenon DEF TypeOK, flags, task, notes, bounds
<1>9. CASE SendChildExited
  <2>1. /\ leaving' \in Nat /\ queue' = Append(queue, "ChildExited")
        /\ UNCHANGED <<flags, task, child, alive, asked, launches, killers, notes, bounds>>
      BY <1>9 DEF SendChildExited, TypeOK
  <2>2. queue' \in Seq(Event)
      BY <2>1, QueueTypes DEF TypeOK, Event
  <2> QED
      BY <2>1, <2>2, Zenon DEF TypeOK, InSlot, flags, task, notes, bounds
<1>10. CASE Kill
  <2>1. /\ killers' \in Nat /\ alive' = alive \ {child}
        /\ UNCHANGED <<flags, queue, task, child, asked, launches, leaving, notes, bounds>>
      BY <1>10 DEF Kill, TypeOK
  <2>2. alive' \in SUBSET Nat /\ InSlot'
      BY <2>1, Zenon DEF TypeOK, InSlot
  <2> QED
      BY <2>1, <2>2, Zenon DEF TypeOK, flags, task, notes, bounds
<1> QED
    BY <1>1, <1>2, <1>3, <1>4, <1>5, <1>6, <1>7, <1>8, <1>9, <1>10, Zenon DEF Next

\* The invariant holds throughout, whatever the session, the tray, the
\* threads and Blender do (Lifecycle.run, spawn_blender, close_blender).
THEOREM SpecInv == Spec => []Inv
BY InitInv, NextInv, PTL DEF Spec

\* Every variable of the flags, the task, the slot and the threads keeps
\* its type.
THEOREM LifecycleTypes == Spec => []TypeOK
<1>1. Inv => TypeOK
    BY DEF Inv
<1> QED
    BY <1>1, SpecInv, PTL

\* There are never two Blenders on the replica, however exits, kills and
\* relaunches cross (spawn_blender and the waiter share the slot).
THEOREM NeverTwo == Spec => []OneBlender
<1>1. Inv => OneBlender
  <2> SUFFICES ASSUME alive \subseteq {child} PROVE Cardinality(alive) <= 1
      BY DEF Inv, InSlot, OneBlender
  <2>1. IsFiniteSet({child}) /\ Cardinality({child}) = 1
      BY FS_Singleton
  <2>2. Cardinality(alive) <= Cardinality({child})
      BY <2>1, FS_Subset
  <2> QED
      BY <2>1, <2>2
<1> QED
    BY <1>1, SpecInv, PTL
=============================================================================
