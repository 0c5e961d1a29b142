-------------------------- MODULE AgentLink_proofs --------------------------
(* The lanes of two agents keep frames in order, for any number of frames, *)
(* addons and sessions and any capacities: AgentLink implements            *)
(* OrderedLane, and what OrderedLane promises holds of AgentLink.  And     *)
(* their credit is accounted for, whatever the costs and the window.       *)
EXTENDS AgentLink, TLAPS, FiniteSetTheorems

Holding == [f : Frame, st : Stage]

\* The types of what frames pass through.
Shape ==
    /\ addon \in 0..MaxAddons /\ (live => addon # 0) /\ sent \in 0..MaxFrames
    /\ sock \in [Addons -> Seq(Frame)] /\ queue \in [Lanes -> Seq(Frame)]
    /\ task \in [Lanes -> Seq(Holding)]
    /\ \A l \in Lanes : Len(task[l]) <= 1 /\ \A k \in 1..Len(task[l]) : l = "cold" => task[l][k].st = "ack"
    /\ wire \in [Lanes -> Seq(Frame)] /\ rqueue \in [Lanes -> Seq(Frame)]
    /\ seen \in [Lanes -> [Addons -> 0..MaxFrames]]

\* A frame the lane's task has taken and not passed on.
Held(l) == {task[l][k].f : k \in {k \in 1..Len(task[l]) : l = "cold" \/ task[l][k].st = "send"}}

\* Every frame of S is older than every frame of T that the same addon sent on the same lane.
Before(S, T) == \A f \in S, g \in T : f.lane = g.lane /\ f.own = g.own => f.n < g.n

\* The frames of q of one addon and lane are in the order of their numbers.
InOrder(q) == \A i, j \in 1..Len(q) : i < j /\ q[i].lane = q[j].lane /\ q[i].own = q[j].own => q[i].n < q[j].n

\* Inside the agents: the replica's queue, the wire, the lane's task, the host's queue.
Inside(l) == ToSet(rqueue[l]) \cup ToSet(wire[l]) \cup Held(l) \cup ToSet(queue[l])

LaneOrder(l) ==
    /\ InOrder(rqueue[l]) /\ InOrder(wire[l]) /\ InOrder(queue[l])
    /\ Before(ToSet(rqueue[l]), ToSet(wire[l]) \cup Held(l) \cup ToSet(queue[l]))
    /\ Before(ToSet(wire[l]), Held(l) \cup ToSet(queue[l]))
    /\ Before(Held(l), ToSet(queue[l]))
    /\ \A f \in Inside(l) : f.lane = l /\ seen[l][f.own] < f.n /\ f.n <= sent

SockOrder(a) ==
    /\ InOrder(sock[a])
    /\ \A l \in Lanes : Before(Inside(l), ToSet(sock[a]))
    /\ \A f \in ToSet(sock[a]) : f.own = a /\ seen[f.lane][a] < f.n /\ f.n <= sent

SeenSent == \A l \in Lanes, a \in Addons : seen[l][a] <= sent

Inv == Shape /\ SeenSent /\ (\A l \in Lanes : LaneOrder(l)) /\ (\A a \in Addons : SockOrder(a))

\* The frames of lane l from addon a that can still arrive.
Frames(l, a) == {f \in ToSet(sock[a]) \cup Inside(l) : f.lane = l /\ f.own = a}

-----------------------------------------------------------------------------
(* What the operators on queues return.                                    *)

\* A frame newer than all of a queue goes to its end.
LEMMA OnAppend ==
    ASSUME NEW q \in Seq(Frame), NEW f \in Frame, InOrder(q), Before(ToSet(q), {f})
    PROVE  Append(q, f) \in Seq(Frame) /\ InOrder(Append(q, f)) /\ ToSet(Append(q, f)) = ToSet(q) \cup {f}
<1> DEFINE r == Append(q, f)
<1>1. r \in Seq(Frame) /\ Len(r) = Len(q) + 1 /\ DOMAIN r = 1..Len(q) + 1 /\ DOMAIN q = 1..Len(q) /\ Len(q) \in Nat
    OBVIOUS
<1>2. r[Len(q) + 1] = f /\ \A i \in 1..Len(q) : r[i] = q[i]
    OBVIOUS
<1> HIDE DEF r
<1>3. ToSet(r) = ToSet(q) \cup {f}
  <2>1. ToSet(r) \subseteq ToSet(q) \cup {f}
      BY <1>1, <1>2 DEF ToSet
  <2>2. ToSet(q) \subseteq ToSet(r) /\ f \in ToSet(r)
      BY <1>1, <1>2 DEF ToSet
  <2> QED
      BY <2>1, <2>2
<1>4. InOrder(r)
  <2> SUFFICES ASSUME NEW i \in 1..Len(r), NEW j \in 1..Len(r), i < j, r[i].lane = r[j].lane, r[i].own = r[j].own
               PROVE  r[i].n < r[j].n
      BY DEF InOrder
  <2>1. i \in 1..Len(q) /\ r[i] = q[i] /\ q[i] \in ToSet(q)
      BY <1>1, <1>2 DEF ToSet
  <2>2. CASE j = Len(q) + 1
      BY <1>2, <2>1, <2>2 DEF Before
  <2>3. CASE j \in 1..Len(q)
      BY <1>2, <2>1, <2>3 DEF InOrder
  <2> QED
      BY <1>1, <2>2, <2>3
<1> QED
    BY <1>1, <1>3, <1>4 DEF r

\* The head of a queue is older than the rest of it.
LEMMA OnTail ==
    ASSUME NEW q \in Seq(Frame), q # <<>>, InOrder(q)
    PROVE  /\ Tail(q) \in Seq(Frame) /\ InOrder(Tail(q)) /\ Head(q) \in Frame
           /\ ToSet(q) = ToSet(Tail(q)) \cup {Head(q)} /\ Before({Head(q)}, ToSet(Tail(q)))
<1> DEFINE r == Tail(q)
           h == Head(q)
<1>1. /\ r \in Seq(Frame) /\ Len(r) = Len(q) - 1 /\ DOMAIN r = 1..Len(r) /\ DOMAIN q = 1..Len(q)
      /\ Len(q) \in Nat \ {0} /\ Len(r) \in Nat /\ h \in Frame /\ h = q[1]
    OBVIOUS
<1>2. \A i \in 1..Len(r) : r[i] = q[i + 1] /\ i + 1 \in 1..Len(q)
    OBVIOUS
<1>3. \A i \in 1..Len(q) : i = 1 \/ (i - 1 \in 1..Len(r) /\ q[i] = r[i - 1])
    BY <1>1, <1>2
<1> HIDE DEF r, h
<1>4. ToSet(r) \subseteq ToSet(q) /\ h \in ToSet(q)
    BY <1>1, <1>2 DEF ToSet
<1>5. ToSet(q) \subseteq ToSet(r) \cup {h}
    BY <1>1, <1>3 DEF ToSet
<1>6. InOrder(r)
    BY <1>1, <1>2 DEF InOrder
<1>7. Before({h}, ToSet(r))
  <2> SUFFICES ASSUME NEW g \in ToSet(r), h.lane = g.lane, h.own = g.own PROVE h.n < g.n
      BY DEF Before
  <2>1. PICK i \in 1..Len(r) : g = r[i]
      BY <1>1 DEF ToSet
  <2> QED
      BY <1>1, <1>2, <2>1 DEF InOrder
<1> QED
    BY <1>1, <1>4, <1>5, <1>6, <1>7 DEF r, h

\* What is left of a queue whose first frames are discarded.
LEMMA OnSuffix ==
    ASSUME NEW q \in Seq(Frame), NEW k \in Nat, InOrder(q)
    PROVE  LET r == SubSeq(q, k + 1, Len(q)) IN
           r \in Seq(Frame) /\ InOrder(r) /\ ToSet(r) \subseteq ToSet(q)
<1> DEFINE r == SubSeq(q, k + 1, Len(q))
<1>1. r \in Seq(Frame) /\ DOMAIN r = 1..Len(r) /\ DOMAIN q = 1..Len(q) /\ Len(q) \in Nat /\ Len(r) \in Nat
    OBVIOUS
<1>2. \A i \in 1..Len(r) : r[i] = q[i + k] /\ i + k \in 1..Len(q)
    OBVIOUS
<1> HIDE DEF r
<1>3. InOrder(r)
    BY <1>1, <1>2 DEF InOrder
<1>4. ToSet(r) \subseteq ToSet(q)
    BY <1>1, <1>2 DEF ToSet
<1> QED
    BY <1>1, <1>3, <1>4 DEF r

\* An empty queue.
LEMMA OnEmpty == <<>> \in Seq(Frame) /\ InOrder(<<>>) /\ ToSet(<<>>) = {} /\ <<>> \in Seq(Holding)
BY DEF InOrder, ToSet

\* A lane's task holds one frame at most.
LEMMA OneHolding ==
    ASSUME task \in [Lanes -> Seq(Holding)], NEW l \in Lanes, Len(task[l]) <= 1, task[l] # <<>>
    PROVE  Len(task[l]) = 1 /\ task[l] \in Seq(Holding)
<1>1. task[l] \in Seq(Holding)
    OBVIOUS
<1>2. ASSUME NEW q \in Seq(Holding), Len(q) <= 1, q # <<>> PROVE Len(q) = 1
  <2>1. Len(q) \in Nat /\ (Len(q) = 0 => q = <<>>)
      OBVIOUS
  <2>2. Len(q) # 0
      BY <1>2, <2>1, Zenon
  <2>3. \A n \in Nat : n <= 1 /\ n # 0 => n = 1
      OBVIOUS
  <2> QED
      BY <1>2, <2>1, <2>2, <2>3, Zenon
<1> QED
    BY <1>1, <1>2, Zenon

\* A queue of frames holds frames.
LEMMA OnSet == ASSUME NEW q \in Seq(Frame) PROVE ToSet(q) \subseteq Frame
BY DEF ToSet

-----------------------------------------------------------------------------
(* A lane or a socket that a step does not touch.                          *)

\* A lane that a step does not touch.
LEMMA LaneSame ==
    ASSUME NEW l \in Lanes, LaneOrder(l), rqueue'[l] = rqueue[l], wire'[l] = wire[l], task'[l] = task[l],
           queue'[l] = queue[l], seen'[l] = seen[l], sent' = sent
    PROVE  LaneOrder(l)' /\ Inside(l)' = Inside(l) /\ Held(l)' = Held(l)
<1>1. Held(l)' = Held(l)
    BY DEF Held
<1>2. Inside(l)' = Inside(l)
    BY <1>1 DEF Inside
<1> QED
    BY <1>1, <1>2 DEF LaneOrder

\* Whatever stays inside was there before: the sockets are still behind it.
LEMMA SockSame ==
    ASSUME \A a \in Addons : SockOrder(a), \A l \in Lanes : Inside(l)' \subseteq Inside(l),
           NEW a \in Addons, InOrder(sock'[a]), ToSet(sock'[a]) \subseteq ToSet(sock[a]), seen' = seen, sent' = sent
    PROVE  SockOrder(a)'
BY DEF SockOrder, Before

\* A step that moves frames on or drops them takes every channel's frames from what they were.
LEMMA FramesShrink ==
    ASSUME NEW l \in Lanes, NEW a \in Addons, Inside(l)' \subseteq Inside(l), ToSet(sock'[a]) \subseteq ToSet(sock[a])
    PROVE  Frames(l, a)' \subseteq Frames(l, a)
BY DEF Frames

Moves == seen' = seen /\ \A l \in Lanes, a \in Addons : Frames(l, a)' \subseteq Frames(l, a)

\* A step inside one lane.
LEMMA WithinLane ==
    ASSUME Inv, Shape', NEW l \in Lanes, LaneOrder(l)', Inside(l)' \subseteq Inside(l),
           \A k \in Lanes \ {l} : /\ rqueue'[k] = rqueue[k] /\ wire'[k] = wire[k]
                                  /\ task'[k] = task[k] /\ queue'[k] = queue[k],
           sock' = sock, seen' = seen, sent' = sent
    PROVE  Inv' /\ Moves
<1>1. \A k \in Lanes : LaneOrder(k)' /\ Inside(k)' \subseteq Inside(k)
  <2> SUFFICES ASSUME NEW k \in Lanes, k # l PROVE LaneOrder(k)' /\ Inside(k)' \subseteq Inside(k)
      OBVIOUS
  <2> QED
      BY LaneSame DEF Inv
<1>2. \A a \in Addons : SockOrder(a)'
  <2> SUFFICES ASSUME NEW a \in Addons PROVE SockOrder(a)'
      OBVIOUS
  <2>1. InOrder(sock'[a]) /\ ToSet(sock'[a]) \subseteq ToSet(sock[a])
      BY DEF Inv, SockOrder
  <2> QED
      BY <1>1, <2>1, SockSame DEF Inv
<1>3. SeenSent'
    BY DEF Inv, SeenSent
<1>4. Moves
    BY <1>1, FramesShrink DEF Moves
<1> QED
    BY <1>1, <1>2, <1>3, <1>4 DEF Inv

\* The task takes the oldest frame of the host's queue.
LEMMA TakeFrameInv == ASSUME Inv, NEW l \in Lanes, TakeFrame(l) PROVE Inv' /\ Moves
<1> USE DEF Inv
<1> DEFINE f == Head(queue[l])
           h == [f |-> f, st |-> IF l = "cold" THEN "ack" ELSE "send"]
<1>0. /\ queue \in [Lanes -> Seq(Frame)] /\ task \in [Lanes -> Seq(Holding)] /\ LaneOrder(l)
    BY DEF Shape
<1>1. /\ task[l] = <<>> /\ queue[l] # <<>> /\ task' = [task EXCEPT ![l] = <<h>>]
      /\ queue' = [queue EXCEPT ![l] = Tail(@)]
      /\ UNCHANGED <<addon, live, sent, sock, wire, rqueue, seen>>
    BY DEF TakeFrame, addonVars, linkVars, replVars
<1>2. /\ Tail(queue[l]) \in Seq(Frame) /\ InOrder(Tail(queue[l])) /\ f \in Frame
      /\ ToSet(queue[l]) = ToSet(Tail(queue[l])) \cup {f} /\ Before({f}, ToSet(Tail(queue[l])))
    BY <1>0, <1>1, OnTail DEF LaneOrder
<1>3. h \in Holding /\ h.f = f /\ (l = "cold" => h.st = "ack") /\ (l # "cold" => h.st = "send")
    BY <1>2 DEF Holding, Stage
<1> HIDE DEF h, f
<1>4. queue'[l] = Tail(queue[l]) /\ task'[l] = <<h>> /\ <<h>> \in Seq(Holding)
    BY <1>0, <1>1, <1>3
<1>5. Held(l) = {} /\ Held(l)' = {f}
  <2>1. Held(l) = {}
      BY <1>1 DEF Held
  <2>2. Held(l)' = {f}
      BY <1>3, <1>4 DEF Held
  <2> QED
      BY <2>1, <2>2
<1>6. Shape'
  <2>1. queue' \in [Lanes -> Seq(Frame)] /\ task' \in [Lanes -> Seq(Holding)]
      BY <1>0, <1>1, <1>2, <1>4
  <2>2. \A k \in Lanes : Len(task'[k]) <= 1 /\ \A i \in 1..Len(task'[k]) : k = "cold" => task'[k][i].st = "ack"
      BY <1>0, <1>1, <1>3, <1>4 DEF Shape
  <2> QED
      BY <1>1, <2>1, <2>2 DEF Shape
<1>7. rqueue'[l] = rqueue[l] /\ wire'[l] = wire[l]
    BY <1>1
<1>8. Inside(l)' = Inside(l)
    BY <1>2, <1>4, <1>5, <1>7 DEF Inside
<1>9. LaneOrder(l)'
  <2>1. ToSet(queue'[l]) \subseteq ToSet(queue[l]) /\ f \in ToSet(queue[l])
      BY <1>2, <1>4
  <2>2. /\ Before(ToSet(rqueue[l]), ToSet(wire[l]) \cup {f} \cup ToSet(queue'[l]))
        /\ Before(ToSet(wire[l]), {f} \cup ToSet(queue'[l]))
      BY <1>0, <2>1 DEF LaneOrder, Before
  <2>3. \A g \in Inside(l)' : g.lane = l /\ seen'[l][g.own] < g.n /\ g.n <= sent'
      BY <1>0, <1>1, <1>8 DEF LaneOrder
  <2> QED
      BY <1>0, <1>2, <1>4, <1>5, <1>7, <2>2, <2>3 DEF LaneOrder
<1>10. \A k \in Lanes \ {l} : rqueue'[k] = rqueue[k] /\ wire'[k] = wire[k] /\ task'[k] = task[k] /\ queue'[k] = queue[k]
    BY <1>0, <1>1
<1> QED
    BY <1>1, <1>6, <1>8, <1>9, <1>10, WithinLane

\* The task passes its frame on (WriteWire, and the cold task's AckFrame).
LEMMA ToWire ==
    ASSUME Inv, Shape', NEW l \in Lanes, NEW f \in Frame, Held(l) = {f}, Held(l)' = {},
           wire' = [wire EXCEPT ![l] = Append(@, f)], \A k \in Lanes \ {l} : task'[k] = task[k],
           UNCHANGED <<sent, sock, queue, rqueue, seen>>
    PROVE  Inv' /\ Moves
<1> USE DEF Inv
<1>0. LaneOrder(l) /\ wire \in [Lanes -> Seq(Frame)]
    BY DEF Shape
<1>1. wire'[l] = Append(wire[l], f) /\ \A k \in Lanes \ {l} : wire'[k] = wire[k]
    BY <1>0
<1>2. InOrder(wire'[l]) /\ ToSet(wire'[l]) = ToSet(wire[l]) \cup {f}
  <2>1. Before(ToSet(wire[l]), {f}) /\ wire[l] \in Seq(Frame) /\ InOrder(wire[l])
      BY <1>0 DEF LaneOrder, Before
  <2>2. InOrder(Append(wire[l], f)) /\ ToSet(Append(wire[l], f)) = ToSet(wire[l]) \cup {f}
      BY <2>1, OnAppend, Zenon
  <2> QED
      BY <1>1, <2>2, Zenon
<1>3. rqueue'[l] = rqueue[l] /\ queue'[l] = queue[l] /\ seen'[l] = seen[l]
    OBVIOUS
<1>4. Inside(l)' = Inside(l)
    BY <1>2, <1>3 DEF Inside
<1>5. LaneOrder(l)'
  <2>1. /\ Before(ToSet(rqueue[l]), ToSet(wire'[l]) \cup {} \cup ToSet(queue[l]))
        /\ Before(ToSet(wire'[l]), {} \cup ToSet(queue[l])) /\ Before({}, ToSet(queue[l]))
      BY <1>0, <1>2 DEF LaneOrder, Before
  <2>2. \A g \in Inside(l)' : g.lane = l /\ seen'[l][g.own] < g.n /\ g.n <= sent'
      BY <1>0, <1>3, <1>4 DEF LaneOrder
  <2> QED
      BY <1>0, <1>2, <1>3, <2>1, <2>2 DEF LaneOrder
<1> QED
    BY <1>1, <1>4, <1>5, WithinLane

\* The task passes its frame on to the wire.
LEMMA WriteWireInv == ASSUME Inv, NEW l \in Lanes, WriteWire(l) PROVE Inv' /\ Moves
<1> USE DEF Inv
<1>0. task \in [Lanes -> Seq(Holding)] /\ Len(task[l]) <= 1 /\ wire \in [Lanes -> Seq(Frame)]
    BY DEF Shape
<1> DEFINE h == task[l][1]
           f == h.f
           g == [h EXCEPT !.st = "ack"]
<1>1. /\ task[l] # <<>> /\ h.st = "send"
      /\ wire' = [wire EXCEPT ![l] = Append(@, f)]
      /\ task' = [task EXCEPT ![l][1].st = "ack"]
      /\ UNCHANGED <<addon, live, sent, sock, queue, rqueue, seen>>
    BY DEF WriteWire, addonVars, linkVars, replVars
<1>2. Len(task[l]) = 1 /\ h \in Holding /\ task[l] = <<h>> /\ l # "cold"
  <2>1. Len(task[l]) = 1 /\ task[l] \in Seq(Holding)
      BY <1>0, <1>1, OneHolding, Zenon
  <2>2. h \in Holding /\ task[l] = <<h>>
      BY <2>1
  <2>3. "ack" # "send" /\ 1 \in 1..Len(task[l])
      BY <2>1
  <2>4. l # "cold"
      BY <1>1, <2>3 DEF Shape
  <2> QED
      BY <2>1, <2>2, <2>4
<1>3. f \in Frame /\ g \in Holding /\ g.st = "ack"
    BY <1>2 DEF Holding, Stage
<1>4. task'[l] = <<g>> /\ \A k \in Lanes \ {l} : task'[k] = task[k]
  <2>1. task' = [task EXCEPT ![l] = [task[l] EXCEPT ![1] = g]]
      BY <1>1, Zenon
  <2>2. [task[l] EXCEPT ![1] = g] = <<g>>
      BY <1>0, <1>2, <1>3
  <2> QED
      BY <1>0, <2>1, <2>2
<1>5. Held(l) = {f}
    BY <1>1, <1>2 DEF Held
<1>6. Held(l)' = {}
  <2> HIDE DEF f, g, h
  <2>1. Len(task'[l]) = 1 /\ task'[l][1].st = "ack"
      BY <1>3, <1>4
  <2> QED
      BY <1>2, <2>1 DEF Held
<1>7. Shape'
  <2>1. Append(wire[l], f) \in Seq(Frame)
      BY <1>0, <1>3
  <2>2. wire' \in [Lanes -> Seq(Frame)]
      BY <1>0, <1>1, <2>1
  <2>3. <<g>> \in Seq(Holding) /\ Len(<<g>>) = 1
      BY <1>3
  <2>4. task' \in [Lanes -> Seq(Holding)]
      BY <1>0, <1>1, <1>4, <2>3
  <2>5. \A k \in Lanes : Len(task'[k]) <= 1 /\ \A i \in 1..Len(task'[k]) : k = "cold" => task'[k][i].st = "ack"
      BY <1>2, <1>4, <2>3 DEF Shape
  <2> QED
      BY <1>1, <2>2, <2>4, <2>5 DEF Shape
<1> HIDE DEF f, g, h
<1> QED
    BY <1>1, <1>3, <1>4, <1>5, <1>6, <1>7, ToWire

\* What a task holds, and whether it has passed it on.
LEMMA TaskHolds ==
    ASSUME Shape, NEW l \in Lanes, task[l] # <<>>
    PROVE  /\ task[l][1] \in Holding /\ task[l][1].f \in Frame /\ (l = "cold" => task[l][1].st = "ack")
           /\ l = "cold" => Held(l) = {task[l][1].f}
           /\ l # "cold" /\ task[l][1].st = "ack" => Held(l) = {}
<1>1. Len(task[l]) = 1 /\ task[l] \in Seq(Holding)
  <2>1. task \in [Lanes -> Seq(Holding)] /\ Len(task[l]) <= 1
      BY DEF Shape
  <2> QED
      BY <2>1, OneHolding, Zenon
<1>2. task[l][1] \in Holding /\ 1..Len(task[l]) = {1}
    BY <1>1
<1>3. task[l][1].f \in Frame
    BY <1>2 DEF Holding
<1>4. l = "cold" => task[l][1].st = "ack"
    BY <1>2 DEF Shape
<1>5. l = "cold" => Held(l) = {task[l][1].f}
    BY <1>2 DEF Held
<1>6. l # "cold" /\ task[l][1].st = "ack" => Held(l) = {}
    BY <1>2 DEF Held
<1> QED
    BY <1>2, <1>3, <1>4, <1>5, <1>6

\* A task without a frame holds none.
LEMMA NothingHeld == ASSUME NEW l \in Lanes, task[l] = <<>> PROVE Held(l) = {}
BY DEF Held

\* The same after a step.
LEMMA NothingHeldNext == ASSUME NEW l \in Lanes, task'[l] = <<>> PROVE Held(l)' = {}
BY DEF Held

-----------------------------------------------------------------------------
(* Steps that drop frames, or leave them where they are.                   *)

LaneShrinks(l) ==
    /\ InOrder(rqueue'[l]) /\ InOrder(wire'[l]) /\ InOrder(queue'[l])
    /\ ToSet(rqueue'[l]) \subseteq ToSet(rqueue[l]) /\ ToSet(wire'[l]) \subseteq ToSet(wire[l])
    /\ Held(l)' \subseteq Held(l) /\ ToSet(queue'[l]) \subseteq ToSet(queue[l])

SockShrinks(a) == InOrder(sock'[a]) /\ ToSet(sock'[a]) \subseteq ToSet(sock[a])

\* A step that only throws frames away keeps the order of the others.
LEMMA Shrinks ==
    ASSUME Inv, Shape', \A l \in Lanes : LaneShrinks(l), \A a \in Addons : SockShrinks(a), seen' = seen, sent' = sent
    PROVE  Inv' /\ Moves
<1>1. \A l \in Lanes : Inside(l)' \subseteq Inside(l)
    BY DEF LaneShrinks, Inside
<1>2. ASSUME NEW l \in Lanes PROVE LaneOrder(l)'
  <2>1. LaneOrder(l) /\ LaneShrinks(l) /\ Inside(l)' \subseteq Inside(l)
      BY <1>1 DEF Inv
  <2>2. /\ Before(ToSet(rqueue'[l]), ToSet(wire'[l]) \cup Held(l)' \cup ToSet(queue'[l]))
        /\ Before(ToSet(wire'[l]), Held(l)' \cup ToSet(queue'[l]))
        /\ Before(Held(l)', ToSet(queue'[l]))
      BY <2>1 DEF LaneOrder, LaneShrinks, Before
  <2>3. \A g \in Inside(l)' : g.lane = l /\ seen'[l][g.own] < g.n /\ g.n <= sent'
      BY <2>1 DEF LaneOrder
  <2> QED
      BY <2>1, <2>2, <2>3 DEF LaneOrder, LaneShrinks
<1>3. ASSUME NEW a \in Addons PROVE SockOrder(a)'
    BY <1>1, SockSame DEF Inv, SockShrinks
<1>4. SeenSent'
    BY DEF Inv, SeenSent
<1>5. Moves
  <2> SUFFICES ASSUME NEW l \in Lanes, NEW a \in Addons PROVE Frames(l, a)' \subseteq Frames(l, a)
      BY DEF Moves
  <2> QED
      BY <1>1, FramesShrink DEF SockShrinks
<1> QED
    BY <1>2, <1>3, <1>4, <1>5 DEF Inv

\* Steps of events, acks and attachments move no frame.
LEMMA StayInv ==
    ASSUME Inv, addon' \in 0..MaxAddons, live' => addon' # 0, UNCHANGED <<sent, sock, queue, task, wire, rqueue, seen>>
    PROVE  Inv' /\ Moves
<1>1. Shape'
    BY DEF Inv, Shape
<1>2. ASSUME NEW l \in Lanes PROVE LaneShrinks(l)
    BY DEF LaneShrinks, Held, Inv, LaneOrder
<1>3. ASSUME NEW a \in Addons PROVE SockShrinks(a)
    BY DEF SockShrinks, Inv, SockOrder
<1> QED
    BY <1>1, <1>2, <1>3, Shrinks

\* The reader of an addon that has left ends, with what its socket held.
LEMMA ReaderEndsInv == ASSUME Inv, NEW a \in Addons, ReaderEnds(a) PROVE Inv' /\ Moves
<1>1. /\ sock' = [sock EXCEPT ![a] = <<>>]
      /\ UNCHANGED <<addon, live, sent, queue, task, wire, rqueue, seen>>
    BY DEF ReaderEnds, addonVars, sessVars, replVars
<1>2. Shape'
    BY <1>1, OnEmpty DEF Inv, Shape
<1>3. ASSUME NEW l \in Lanes PROVE LaneShrinks(l)
    BY <1>1 DEF LaneShrinks, Held, Inv, LaneOrder
<1>4. ASSUME NEW b \in Addons PROVE SockShrinks(b)
  <2>1. sock'[b] = <<>> \/ sock'[b] = sock[b]
      BY <1>1 DEF Inv, Shape
  <2> QED
      BY <2>1, OnEmpty DEF SockShrinks, Inv, SockOrder
<1> QED
    BY <1>1, <1>2, <1>3, <1>4, Shrinks

\* A session comes up: what a queue still held is thrown away.
LEMMA DrainInv == ASSUME Inv, NEW k \in Lanes, Drain(k) PROVE Inv' /\ Moves
<1>1. /\ queue' = [queue EXCEPT ![k] = <<>>]
      /\ UNCHANGED <<addon, live, sent, sock, task, wire, rqueue, seen>>
    BY DEF Drain, addonVars, linkVars, replVars
<1>2. Shape'
    BY <1>1, OnEmpty DEF Inv, Shape
<1>3. ASSUME NEW l \in Lanes PROVE LaneShrinks(l)
  <2>1. queue'[l] = queue[l] \/ queue'[l] = <<>>
      BY <1>1 DEF Inv, Shape
  <2> QED
      BY <1>1, <2>1, OnEmpty DEF LaneShrinks, Held, Inv, LaneOrder
<1>4. ASSUME NEW b \in Addons PROVE SockShrinks(b)
    BY <1>1 DEF SockShrinks, Inv, SockOrder
<1> QED
    BY <1>1, <1>2, <1>3, <1>4, Shrinks

\* A session that ends takes what the tasks hold and what is on the wire.
LEMMA EndTasksInv ==
    ASSUME Inv, EndTasks, UNCHANGED <<addon, live, sent, sock, queue, rqueue, seen>>
    PROVE  Inv' /\ Moves
<1>1. task' = [l \in Lanes |-> <<>>] /\ wire' = [l \in Lanes |-> <<>>]
    BY DEF EndTasks
<1>2. Shape'
  <2>1. task' \in [Lanes -> Seq(Holding)] /\ wire' \in [Lanes -> Seq(Frame)]
      BY <1>1, OnEmpty
  <2>2. \A l \in Lanes : Len(task'[l]) = 0
      BY <1>1
  <2> QED
      BY <2>1, <2>2 DEF Inv, Shape
<1>3. ASSUME NEW l \in Lanes PROVE LaneShrinks(l)
  <2>1. wire'[l] = <<>> /\ task'[l] = <<>>
      BY <1>1
  <2>2. Held(l)' = {}
      BY <2>1, NothingHeldNext
  <2> QED
      BY <2>1, <2>2, OnEmpty DEF LaneShrinks, Inv, LaneOrder
<1>4. ASSUME NEW b \in Addons PROVE SockShrinks(b)
    BY DEF SockShrinks, Inv, SockOrder
<1> QED
    BY <1>2, <1>3, <1>4, Shrinks

\* The replica's addon goes, with the first of what was queued for it.
LEMMA ReplicaLeavesInv == ASSUME Inv, ReplicaLeaves PROVE Inv' /\ Moves
<1>1. PICK k \in [Lanes -> 0..RCap] : rqueue' = [l \in Lanes |-> SubSeq(rqueue[l], k[l] + 1, Len(rqueue[l]))]
    BY DEF ReplicaLeaves
<1>2. UNCHANGED <<addon, live, sent, sock, queue, task, wire, seen>>
    BY DEF ReplicaLeaves, addonVars, linkVars, sessVars
<1>3. ASSUME NEW l \in Lanes
      PROVE  rqueue'[l] \in Seq(Frame) /\ InOrder(rqueue'[l]) /\ ToSet(rqueue'[l]) \subseteq ToSet(rqueue[l])
  <2>1. rqueue[l] \in Seq(Frame) /\ InOrder(rqueue[l])
      BY DEF Inv, Shape, LaneOrder
  <2>2. k[l] \in Nat
      BY LinkAssumption DEF LinkAssumption
  <2>3. rqueue'[l] = SubSeq(rqueue[l], k[l] + 1, Len(rqueue[l]))
      BY <1>1
  <2> QED
      BY <2>1, <2>2, <2>3, OnSuffix, Zenon
<1>4. Shape'
  <2>1. rqueue' \in [Lanes -> Seq(Frame)]
    <3>1. rqueue' = [l \in Lanes |-> rqueue'[l]]
        BY <1>1
    <3> QED
        BY <1>3, <3>1, Zenon
  <2> QED
      BY <1>2, <2>1 DEF Inv, Shape
<1>5. ASSUME NEW l \in Lanes PROVE LaneShrinks(l)
    BY <1>2, <1>3 DEF LaneShrinks, Held, Inv, LaneOrder
<1>6. ASSUME NEW b \in Addons PROVE SockShrinks(b)
    BY <1>2 DEF SockShrinks, Inv, SockOrder
<1> QED
    BY <1>2, <1>4, <1>5, <1>6, Shrinks

-----------------------------------------------------------------------------
(* Steps that pass a frame on.                                             *)

\* A task that has acknowledged its frame is free again.
LEMMA AckFrameInv == ASSUME Inv, NEW l \in Lanes, AckFrame(l) PROVE Inv' /\ Moves
<1> DEFINE f == task[l][1].f
<1>0. Shape /\ task \in [Lanes -> Seq(Holding)] /\ wire \in [Lanes -> Seq(Frame)]
    BY DEF Inv, Shape
<1>1. /\ task[l] # <<>> /\ task[l][1].st = "ack" /\ task' = [task EXCEPT ![l] = <<>>]
      /\ wire' = IF l = "cold" THEN [wire EXCEPT ![l] = Append(@, f)] ELSE wire
      /\ UNCHANGED <<addon, live, sent, sock, queue, rqueue, seen>>
    BY DEF AckFrame, addonVars, linkVars, replVars
<1>2. f \in Frame /\ (l = "cold" => Held(l) = {f}) /\ (l # "cold" => Held(l) = {})
    BY <1>0, <1>1, TaskHolds
<1> HIDE DEF f
<1>3. task'[l] = <<>> /\ (\A k \in Lanes \ {l} : task'[k] = task[k]) /\ task' \in [Lanes -> Seq(Holding)]
    BY <1>0, <1>1, OnEmpty
<1>4. Held(l)' = {}
    BY <1>3, NothingHeldNext
<1>5. Shape'
  <2>1. wire' \in [Lanes -> Seq(Frame)]
    <3>1. Append(wire[l], f) \in Seq(Frame)
        BY <1>0, <1>2
    <3> QED
        BY <1>0, <1>1, <3>1
  <2>2. ASSUME NEW k \in Lanes
        PROVE  Len(task'[k]) <= 1 /\ \A i \in 1..Len(task'[k]) : k = "cold" => task'[k][i].st = "ack"
    <3>1. CASE k = l
      <4>1. PICK t : t = task'[k]
          OBVIOUS
      <4>2. t = <<>>
          BY <1>3, <3>1, <4>1
      <4>3. Len(t) <= 1 /\ \A i \in 1..Len(t) : FALSE
          BY <4>2
      <4> QED
          BY <4>1, <4>3, Zenon
    <3>2. CASE k # l
      <4>1. task'[k] = task[k]
          BY <1>3, <3>2, Zenon
      <4>2. Len(task[k]) <= 1 /\ \A i \in 1..Len(task[k]) : k = "cold" => task[k][i].st = "ack"
          BY <1>0, Zenon DEF Shape
      <4> QED
          BY <4>1, <4>2, Zenon
    <3> QED
        BY <3>1, <3>2
  <2> QED
      BY <1>1, <1>3, <2>1, <2>2 DEF Inv, Shape
<1>6. CASE l = "cold"
    BY <1>1, <1>2, <1>3, <1>4, <1>5, <1>6, ToWire
<1>7. CASE l # "cold"
  <2>1. wire' = wire
      BY <1>1, <1>7
  <2>2. ASSUME NEW k \in Lanes PROVE LaneShrinks(k)
    <3>1. Held(k)' \subseteq Held(k)
        BY <1>3, <1>4 DEF Held
    <3> QED
        BY <1>1, <2>1, <3>1 DEF LaneShrinks, Inv, LaneOrder
  <2>3. ASSUME NEW b \in Addons PROVE SockShrinks(b)
      BY <1>1 DEF SockShrinks, Inv, SockOrder
  <2> QED
      BY <1>1, <1>5, <2>2, <2>3, Shrinks
<1> QED
    BY <1>6, <1>7

\* The replica's agent takes the oldest frame off the wire.
LEMMA ReceiveInv == ASSUME Inv, NEW l \in Lanes, Receive(l) PROVE Inv' /\ Moves
<1> DEFINE f == Head(wire[l])
<1>0. wire \in [Lanes -> Seq(Frame)] /\ rqueue \in [Lanes -> Seq(Frame)] /\ LaneOrder(l) /\ task \in [Lanes -> Seq(Holding)]
    BY DEF Inv, Shape
<1>1. /\ wire[l] # <<>> /\ rqueue' = [rqueue EXCEPT ![l] = Append(@, f)]
      /\ wire' = [wire EXCEPT ![l] = Tail(@)]
      /\ UNCHANGED <<addon, live, sent, sock, queue, task, seen>>
    BY DEF Receive, addonVars, linkVars
<1>2. /\ Tail(wire[l]) \in Seq(Frame) /\ InOrder(Tail(wire[l])) /\ f \in Frame
      /\ ToSet(wire[l]) = ToSet(Tail(wire[l])) \cup {f} /\ Before({f}, ToSet(Tail(wire[l])))
  <2>1. wire[l] \in Seq(Frame) /\ InOrder(wire[l])
      BY <1>0 DEF LaneOrder
  <2> QED
      BY <1>1, <2>1, OnTail, Zenon
<1> HIDE DEF f
<1>3. /\ Append(rqueue[l], f) \in Seq(Frame) /\ InOrder(Append(rqueue[l], f))
      /\ ToSet(Append(rqueue[l], f)) = ToSet(rqueue[l]) \cup {f}
  <2>1. rqueue[l] \in Seq(Frame) /\ InOrder(rqueue[l]) /\ Before(ToSet(rqueue[l]), {f})
      BY <1>0, <1>2 DEF LaneOrder, Before
  <2> QED
      BY <1>2, <2>1, OnAppend, Zenon
<1>4. wire'[l] = Tail(wire[l]) /\ rqueue'[l] = Append(rqueue[l], f)
    BY <1>0, <1>1
<1>5. \A k \in Lanes \ {l} : rqueue'[k] = rqueue[k] /\ wire'[k] = wire[k] /\ task'[k] = task[k] /\ queue'[k] = queue[k]
    BY <1>0, <1>1
<1>6. Held(l)' = Held(l) /\ queue'[l] = queue[l] /\ seen'[l] = seen[l]
    BY <1>1 DEF Held
<1>7. Shape'
  <2>1. wire' \in [Lanes -> Seq(Frame)] /\ rqueue' \in [Lanes -> Seq(Frame)]
      BY <1>0, <1>1, <1>2, <1>3
  <2> QED
      BY <1>1, <2>1 DEF Inv, Shape
<1> DEFINE w == ToSet(wire'[l])
           r == ToSet(rqueue'[l])
<1>8. w \subseteq ToSet(wire[l]) /\ f \in ToSet(wire[l]) /\ ToSet(wire[l]) = w \cup {f} /\ r = ToSet(rqueue[l]) \cup {f}
    BY <1>2, <1>3, <1>4
<1>9. Inside(l)' = Inside(l)
    BY <1>6, <1>8 DEF Inside
<1>10. LaneOrder(l)'
  <2>1. Before(r, w \cup Held(l) \cup ToSet(queue[l]))
    <3>1. Before(ToSet(rqueue[l]), w \cup Held(l) \cup ToSet(queue[l]))
        BY <1>0, <1>8 DEF LaneOrder, Before
    <3>2. Before({f}, w)
        BY <1>2, <1>4
    <3>3. Before({f}, Held(l) \cup ToSet(queue[l]))
        BY <1>0, <1>8 DEF LaneOrder, Before
    <3> QED
        BY <1>8, <3>1, <3>2, <3>3 DEF Before
  <2>2. Before(w, Held(l) \cup ToSet(queue[l])) /\ Before(Held(l), ToSet(queue[l]))
      BY <1>0, <1>8 DEF LaneOrder, Before
  <2>3. \A g \in Inside(l)' : g.lane = l /\ seen'[l][g.own] < g.n /\ g.n <= sent'
      BY <1>0, <1>1, <1>9 DEF LaneOrder
  <2>4. InOrder(rqueue'[l]) /\ InOrder(wire'[l]) /\ InOrder(queue'[l])
      BY <1>0, <1>2, <1>3, <1>4, <1>6 DEF LaneOrder
  <2> QED
      BY <1>6, <2>1, <2>2, <2>3, <2>4 DEF LaneOrder
<1> QED
    BY <1>1, <1>5, <1>7, <1>9, <1>10, WithinLane

\* The reader passes a frame on to the lane's queue, behind all that is
\* inside; the frames of other addons are not concerned.
LEMMA ReadFrameInv == ASSUME Inv, NEW a \in Addons, ReadFrame(a) PROVE Inv' /\ Moves
<1>0. sock \in [Addons -> Seq(Frame)] /\ queue \in [Lanes -> Seq(Frame)] /\ SockOrder(a)
    BY DEF Inv, Shape
<1>a. PICK f : f = Head(sock[a])
    OBVIOUS
<1>b. PICK l : l = f.lane
    OBVIOUS
<1>1. /\ sock[a] # <<>> /\ sock' = [sock EXCEPT ![a] = Tail(@)]
      /\ queue' = queue \/ queue' = [queue EXCEPT ![l] = Append(@, f)]
      /\ UNCHANGED <<addon, live, sent, task, wire, rqueue, seen>>
    BY <1>a, <1>b DEF ReadFrame, addonVars, replVars
<1>2. /\ Tail(sock[a]) \in Seq(Frame) /\ InOrder(Tail(sock[a])) /\ f \in Frame
      /\ ToSet(sock[a]) = ToSet(Tail(sock[a])) \cup {f} /\ Before({f}, ToSet(Tail(sock[a])))
  <2>1. sock[a] \in Seq(Frame) /\ InOrder(sock[a])
      BY <1>0 DEF SockOrder
  <2> QED
      BY <1>a, <1>1, <2>1, OnTail, Zenon
<1>3. l \in Lanes
    BY <1>b, <1>2 DEF Frame
<1>4. f.own = a /\ seen[l][a] < f.n /\ f.n <= sent /\ (\A k \in Lanes : Before(Inside(k), {f}))
    BY <1>0, <1>b, <1>2 DEF SockOrder, Before
<1>5. sock'[a] = Tail(sock[a]) /\ (\A b \in Addons \ {a} : sock'[b] = sock[b]) /\ sock' \in [Addons -> Seq(Frame)]
    BY <1>0, <1>1, <1>2
<1>6. \A b \in Addons : SockShrinks(b)
  <2> SUFFICES ASSUME NEW b \in Addons PROVE SockShrinks(b)
      OBVIOUS
  <2>1. InOrder(sock'[b])
      BY <1>2, <1>5 DEF Inv, SockOrder
  <2>2. ToSet(sock'[b]) \subseteq ToSet(sock[b])
      BY <1>2, <1>5
  <2> QED
      BY <2>1, <2>2 DEF SockShrinks
<1>7. \A k \in Lanes : Held(k)' = Held(k)
    BY <1>1 DEF Held
<1>8. CASE queue' = queue
  <2>1. Shape'
      BY <1>1, <1>5, <1>8 DEF Inv, Shape
  <2>2. ASSUME NEW k \in Lanes PROVE LaneShrinks(k)
      BY <1>1, <1>7, <1>8 DEF LaneShrinks, Inv, LaneOrder
  <2> QED
      BY <1>1, <1>6, <2>1, <2>2, Shrinks
<1>9. CASE queue' = [queue EXCEPT ![l] = Append(@, f)]
  <2>0. LaneOrder(l) /\ queue[l] \in Seq(Frame)
      BY <1>0, <1>3 DEF Inv
  <2>1. /\ Append(queue[l], f) \in Seq(Frame) /\ InOrder(Append(queue[l], f))
        /\ ToSet(Append(queue[l], f)) = ToSet(queue[l]) \cup {f}
    <3>1. Before(ToSet(queue[l]), {f}) /\ InOrder(queue[l])
        BY <1>3, <1>4, <2>0 DEF Inside, Before, LaneOrder
    <3> QED
        BY <1>2, <2>0, <3>1, OnAppend, Zenon
  <2>2. queue'[l] = Append(queue[l], f) /\ \A k \in Lanes \ {l} : queue'[k] = queue[k]
      BY <1>0, <1>3, <1>9
  <2>3. Shape'
    <3>1. queue' \in [Lanes -> Seq(Frame)]
        BY <1>0, <1>3, <1>9, <2>1
    <3> QED
        BY <1>1, <1>5, <3>1 DEF Inv, Shape
  <2>4. Inside(l)' = Inside(l) \cup {f} /\ \A k \in Lanes \ {l} : Inside(k)' = Inside(k)
      BY <1>1, <1>3, <1>7, <2>1, <2>2 DEF Inside
  <2>5. ASSUME NEW k \in Lanes PROVE LaneOrder(k)'
    <3>1. CASE k # l
        BY <1>1, <2>2, <3>1, LaneSame DEF Inv
    <3>2. CASE k = l
      <4> DEFINE q == ToSet(queue'[l])
      <4>1. q = ToSet(queue[l]) \cup {f}
          BY <2>1, <2>2
      <4>2. Before(Inside(l), {f}) /\ l \in Lanes
          BY <1>3, <1>4
      <4> HIDE DEF q
      <4>3. /\ Before(ToSet(rqueue[l]), ToSet(wire[l]) \cup Held(l) \cup q)
            /\ Before(ToSet(wire[l]), Held(l) \cup q) /\ Before(Held(l), q)
          BY <2>0, <4>1, <4>2 DEF LaneOrder, Before, Inside
      <4>4. \A g \in Inside(l) : g.lane = l /\ seen[l][g.own] < g.n /\ g.n <= sent
          BY <2>0 DEF LaneOrder
      <4>5. f.lane = l /\ seen[l][f.own] < f.n /\ f.n <= sent
          BY <1>4, <1>b
      <4>6. \A g \in Inside(l)' : g.lane = l /\ seen'[l][g.own] < g.n /\ g.n <= sent'
          BY <1>1, <2>4, <4>4, <4>5
      <4>7. InOrder(rqueue'[l]) /\ InOrder(wire'[l]) /\ InOrder(queue'[l])
          BY <1>1, <2>0, <2>1, <2>2 DEF LaneOrder
      <4>8. rqueue'[l] = rqueue[l] /\ wire'[l] = wire[l] /\ Held(l)' = Held(l)
          BY <1>1, <1>7, <4>2
      <4> QED
          BY <3>2, <4>3, <4>6, <4>7, <4>8 DEF LaneOrder, q
    <3> QED
        BY <3>1, <3>2
  <2>6. ASSUME NEW b \in Addons PROVE SockOrder(b)'
    <3>1. SockShrinks(b) /\ SockOrder(b)
        BY <1>6 DEF Inv
    <3>2. \A g \in ToSet(sock'[b]) : g.own = b /\ seen'[g.lane][b] < g.n /\ g.n <= sent'
        BY <1>1, <3>1 DEF SockShrinks, SockOrder
    <3>3. Before({f}, ToSet(sock'[b]))
      <4>1. CASE b = a
          BY <1>2, <1>5, <4>1
      <4>2. CASE b # a
          BY <1>4, <3>2, <4>2 DEF Before
      <4> QED
          BY <4>1, <4>2
    <3>4. ASSUME NEW k \in Lanes PROVE Before(Inside(k)', ToSet(sock'[b]))
      <4>1. Before(Inside(k), ToSet(sock'[b]))
          BY <3>1 DEF SockShrinks, SockOrder, Before
      <4>2. Inside(k)' \subseteq Inside(k) \cup {f}
          BY <2>4
      <4> QED
          BY <3>3, <4>1, <4>2 DEF Before
    <3> QED
        BY <3>1, <3>2, <3>4 DEF SockOrder, SockShrinks
  <2>7. SeenSent'
      BY <1>1 DEF Inv, SeenSent
  <2>8. Moves
    <3> SUFFICES ASSUME NEW k \in Lanes, NEW b \in Addons, NEW g \in Frames(k, b)' PROVE g \in Frames(k, b)
        BY <1>1 DEF Moves
    <3>1. g \in ToSet(sock[b]) \cup Inside(k) \cup {f} /\ g.lane = k /\ g.own = b
        BY <1>6, <2>4 DEF Frames, SockShrinks
    <3>2. f \in ToSet(sock[a])
        BY <1>2
    <3> QED
        BY <1>b, <1>4, <3>1, <3>2 DEF Frames
  <2> QED
      BY <2>3, <2>5, <2>6, <2>7, <2>8 DEF Inv
<1> QED
    BY <1>1, <1>8, <1>9

-----------------------------------------------------------------------------
(* Steps at the two ends of a channel.                                     *)

\* Every other channel's frames stay what they were.
Else(l, a) == \A k \in Lanes, b \in Addons : k # l \/ b # a => Frames(k, b)' = Frames(k, b)

\* A new frame enters the channel of lane l and addon a.
Enters(l, a, f) ==
    /\ f \in Frame /\ seen[l][a] < f.n /\ (\A g \in Frames(l, a) : g.n < f.n)
    /\ Frames(l, a)' = Frames(l, a) \cup {f} /\ Else(l, a) /\ seen' = seen

\* The oldest frame leaves it and has been seen.
Arrives(l, a, f) ==
    /\ f \in Frames(l, a) /\ (\A g \in Frames(l, a)' : f.n < g.n)
    /\ Frames(l, a) = Frames(l, a)' \cup {f} /\ Else(l, a) /\ seen' = [seen EXCEPT ![l][a] = f.n]

\* The addon sends a frame newer than all it has sent.
LEMMA SendInv == ASSUME Inv, NEW l \in Lanes, Send(l) PROVE Inv' /\ \E a \in Addons, f \in Frame : Enters(l, a, f)
<1>a. PICK a : a = addon
    OBVIOUS
<1>b. PICK f : f = [lane |-> l, n |-> sent + 1, own |-> a]
    OBVIOUS
<1>0. sock \in [Addons -> Seq(Frame)] /\ sent \in 0..MaxFrames /\ MaxFrames \in Nat /\ MaxAddons \in Nat
    BY LinkAssumption DEF Inv, Shape, LinkAssumption
<1>1. /\ live /\ sent < MaxFrames /\ sent' = sent + 1 /\ sock' = [sock EXCEPT ![a] = Append(@, f)]
      /\ UNCHANGED <<addon, live, queue, task, wire, rqueue, seen>>
    BY <1>a, <1>b DEF Send, ToAgent, sessVars, replVars
<1>2. a \in Addons
    BY <1>0, <1>1, <1>a DEF Inv, Shape, Addons
<1>3. f \in Frame /\ f.lane = l /\ f.own = a /\ f.n = sent + 1 /\ sent' \in 0..MaxFrames
    BY <1>0, <1>1, <1>2, <1>b DEF Frame
<1>4. (\A b \in Addons : SockOrder(b)) /\ SockOrder(a) /\ (\A k \in Lanes : LaneOrder(k))
    BY <1>2 DEF Inv
<1>5. \A k \in Lanes : Held(k)' = Held(k) /\ Inside(k)' = Inside(k) /\ Inside(k) \subseteq Frame
  <2> SUFFICES ASSUME NEW k \in Lanes PROVE Held(k)' = Held(k) /\ Inside(k)' = Inside(k) /\ Inside(k) \subseteq Frame
      OBVIOUS
  <2>1. Held(k)' = Held(k)
      BY <1>1 DEF Held
  <2>2. Inside(k)' = Inside(k)
      BY <1>1, <2>1 DEF Inside
  <2>3. Held(k) \subseteq Frame
    <3>1. task[k] \in Seq(Holding)
        BY DEF Inv, Shape
    <3>2. \A i \in 1..Len(task[k]) : task[k][i] \in Holding
        BY <3>1
    <3> QED
        BY <3>2 DEF Held, Holding
  <2>4. ToSet(rqueue[k]) \subseteq Frame /\ ToSet(wire[k]) \subseteq Frame /\ ToSet(queue[k]) \subseteq Frame
      BY OnSet DEF Inv, Shape
  <2> QED
      BY <2>1, <2>2, <2>3, <2>4 DEF Inside
<1>6. \A b \in Addons : ToSet(sock[b]) \subseteq Frame
    BY <1>0, OnSet
<1>7. \A g \in Frame : g.n \in Nat /\ (g.n <= sent => g.n < f.n /\ g.n <= sent')
    BY <1>0, <1>1, <1>3 DEF Frame
<1>8. Before(ToSet(sock[a]), {f}) /\ (\A k \in Lanes : Before(Inside(k), {f}))
  <2>1. Before(ToSet(sock[a]), {f})
      BY <1>2, <1>4, <1>6, <1>7 DEF SockOrder, Before
  <2>2. ASSUME NEW k \in Lanes PROVE Before(Inside(k), {f})
      BY <1>4, <1>5, <1>7 DEF LaneOrder, Before
  <2> QED
      BY <2>1, <2>2
<1>9. /\ Append(sock[a], f) \in Seq(Frame) /\ InOrder(Append(sock[a], f))
      /\ ToSet(Append(sock[a], f)) = ToSet(sock[a]) \cup {f}
  <2>1. sock[a] \in Seq(Frame) /\ InOrder(sock[a])
      BY <1>0, <1>2, <1>4 DEF SockOrder
  <2> QED
      BY <1>3, <1>8, <2>1, OnAppend, Zenon
<1>10. sock'[a] = Append(sock[a], f) /\ \A b \in Addons \ {a} : sock'[b] = sock[b]
    BY <1>0, <1>1, <1>2
<1>11. Shape'
  <2>1. sock' \in [Addons -> Seq(Frame)]
      BY <1>0, <1>1, <1>2, <1>9
  <2> QED
      BY <1>1, <1>3, <2>1 DEF Inv, Shape
<1>12. ASSUME NEW k \in Lanes PROVE LaneOrder(k)'
  <2>1. rqueue'[k] = rqueue[k] /\ wire'[k] = wire[k] /\ queue'[k] = queue[k] /\ Held(k)' = Held(k) /\ seen'[k] = seen[k]
      BY <1>1, <1>5
  <2>2. \A g \in Inside(k)' : g.lane = k /\ seen'[k][g.own] < g.n /\ g.n <= sent'
      BY <1>4, <1>5, <1>7, <2>1 DEF LaneOrder
  <2> QED
      BY <1>4, <2>1, <2>2 DEF LaneOrder
<1>13. seen[l][a] < f.n
  <2>1. seen[l][a] <= sent /\ seen[l][a] \in 0..MaxFrames
      BY <1>2 DEF Inv, SeenSent, Shape
  <2> QED
      BY <1>0, <1>3, <2>1
<1>14. ASSUME NEW b \in Addons PROVE SockOrder(b)'
  <2>1. ToSet(sock'[b]) \subseteq ToSet(sock[b]) \cup {f} /\ (b # a => ToSet(sock'[b]) = ToSet(sock[b]))
      BY <1>9, <1>10
  <2>2. \A g \in ToSet(sock[b]) : g.own = b /\ seen'[g.lane][b] < g.n /\ g.n <= sent'
      BY <1>1, <1>4, <1>6, <1>7 DEF SockOrder
  <2>3. \A g \in ToSet(sock'[b]) : g.own = b /\ seen'[g.lane][b] < g.n /\ g.n <= sent'
    <3>1. f.n <= sent' /\ seen'[f.lane][a] < f.n
        BY <1>0, <1>1, <1>3, <1>13
    <3> QED
        BY <1>3, <2>1, <2>2, <3>1
  <2>4. InOrder(sock'[b])
      BY <1>4, <1>9, <1>10 DEF SockOrder
  <2>5. ASSUME NEW k \in Lanes PROVE Before(Inside(k)', ToSet(sock'[b]))
    <3>1. Before(Inside(k), ToSet(sock[b])) /\ Before(Inside(k), {f})
        BY <1>4, <1>8 DEF SockOrder
    <3> QED
        BY <1>5, <2>1, <3>1 DEF Before
  <2> QED
      BY <2>3, <2>4, <2>5 DEF SockOrder
<1>15. SeenSent'
  <2>1. \A k \in Lanes, b \in Addons : seen[k][b] \in 0..MaxFrames
      BY DEF Inv, Shape
  <2> QED
      BY <1>0, <1>1, <2>1 DEF Inv, SeenSent
<1>16. Enters(l, a, f)
  <2>1. \A g \in Frames(l, a) : g.n < f.n
      BY <1>2, <1>3, <1>8 DEF Frames, Before
  <2>2. Frames(l, a)' = Frames(l, a) \cup {f}
      BY <1>3, <1>5, <1>9, <1>10 DEF Frames
  <2>3. Else(l, a)
    <3> SUFFICES ASSUME NEW k \in Lanes, NEW b \in Addons, k # l \/ b # a PROVE Frames(k, b)' = Frames(k, b)
        BY DEF Else
    <3>1. Inside(k)' = Inside(k) /\ (ToSet(sock'[b]) = ToSet(sock[b]) \/ (b = a /\ ToSet(sock'[b]) = ToSet(sock[b]) \cup {f}))
        BY <1>5, <1>9, <1>10
    <3> QED
        BY <1>3, <3>1 DEF Frames
  <2> QED
      BY <1>1, <1>3, <1>13, <2>1, <2>2, <2>3 DEF Enters
<1> QED
    BY <1>2, <1>3, <1>11, <1>12, <1>14, <1>15, <1>16 DEF Inv

\* The replica's addon is given the oldest frame of its queue.
LEMMA DeliverInv == ASSUME Inv, NEW l \in Lanes, Deliver(l) PROVE Inv' /\ \E a \in Addons, f \in Frame : Arrives(l, a, f)
<1>a. PICK f : f = Head(rqueue[l])
    OBVIOUS
<1>b. PICK a : a = f.own
    OBVIOUS
<1>0. rqueue \in [Lanes -> Seq(Frame)] /\ seen \in [Lanes -> [Addons -> 0..MaxFrames]] /\ LaneOrder(l)
    BY DEF Inv, Shape
<1>1. /\ rqueue[l] # <<>> /\ rqueue' = [rqueue EXCEPT ![l] = Tail(@)] /\ seen' = [seen EXCEPT ![l][a] = f.n]
      /\ UNCHANGED <<addon, live, sent, sock, queue, task, wire>>
    BY <1>a, <1>b DEF Deliver, addonVars, linkVars, sessVars
<1>2. /\ Tail(rqueue[l]) \in Seq(Frame) /\ InOrder(Tail(rqueue[l])) /\ f \in Frame
      /\ ToSet(rqueue[l]) = ToSet(Tail(rqueue[l])) \cup {f} /\ Before({f}, ToSet(Tail(rqueue[l])))
  <2>1. rqueue[l] \in Seq(Frame) /\ InOrder(rqueue[l])
      BY <1>0 DEF LaneOrder
  <2> QED
      BY <1>a, <1>1, <2>1, OnTail, Zenon
<1>3. a \in Addons /\ f.n \in 0..MaxFrames
    BY <1>2, <1>b, LinkAssumption DEF Frame, LinkAssumption
<1>4. rqueue'[l] = Tail(rqueue[l]) /\ \A k \in Lanes \ {l} : rqueue'[k] = rqueue[k]
    BY <1>0, <1>1
<1>5. /\ seen'[l][a] = f.n /\ (\A b \in Addons \ {a} : seen'[l][b] = seen[l][b])
      /\ \A k \in Lanes \ {l} : seen'[k] = seen[k]
    BY <1>0, <1>1, <1>3
<1>6. Held(l)' = Held(l) /\ wire'[l] = wire[l] /\ queue'[l] = queue[l]
    BY <1>1 DEF Held
<1>7. Inside(l) = Inside(l)' \cup {f} /\ Before({f}, Inside(l)')
  <2>1. Before({f}, ToSet(wire[l]) \cup Held(l) \cup ToSet(queue[l]))
      BY <1>0, <1>2 DEF LaneOrder, Before
  <2>2. Inside(l)' = ToSet(Tail(rqueue[l])) \cup (ToSet(wire[l]) \cup Held(l) \cup ToSet(queue[l]))
      BY <1>4, <1>6 DEF Inside
  <2>3. Before({f}, Inside(l)')
      BY <1>2, <2>1, <2>2 DEF Before
  <2>4. Inside(l) = Inside(l)' \cup {f}
      BY <1>2, <2>2 DEF Inside
  <2> QED
      BY <2>3, <2>4
<1>8. f.lane = l /\ f.n <= sent
    BY <1>0, <1>7 DEF LaneOrder
<1>9. \A k \in Lanes \ {l} : LaneOrder(k)' /\ Inside(k)' = Inside(k)
    BY <1>1, <1>4, <1>5, LaneSame DEF Inv
<1>10. Shape'
  <2>1. rqueue' \in [Lanes -> Seq(Frame)]
      BY <1>0, <1>1, <1>2
  <2>2. seen' \in [Lanes -> [Addons -> 0..MaxFrames]]
      BY <1>0, <1>1, <1>3
  <2> QED
      BY <1>1, <2>1, <2>2 DEF Inv, Shape
<1>11. LaneOrder(l)'
  <2>1. \A g \in Inside(l)' : g.lane = l /\ seen'[l][g.own] < g.n /\ g.n <= sent'
    <3> SUFFICES ASSUME NEW g \in Inside(l)' PROVE g.lane = l /\ seen'[l][g.own] < g.n /\ g.n <= sent'
        OBVIOUS
    <3>1. g.lane = l /\ seen[l][g.own] < g.n /\ g.n <= sent'
        BY <1>0, <1>1, <1>7 DEF LaneOrder
    <3>2. CASE g.own = a
        BY <1>5, <1>7, <1>8, <1>b, <3>1, <3>2 DEF Before
    <3>3. CASE g.own # a
      <4>1. seen'[l][g.own] = seen[l][g.own]
          BY <1>0, <1>1, <3>3
      <4> QED
          BY <3>1, <4>1
    <3> QED
        BY <3>1, <3>2, <3>3
  <2>2. /\ InOrder(rqueue'[l]) /\ InOrder(wire'[l]) /\ InOrder(queue'[l])
        /\ Before(ToSet(rqueue'[l]), ToSet(wire[l]) \cup Held(l) \cup ToSet(queue[l]))
        /\ Before(ToSet(wire[l]), Held(l) \cup ToSet(queue[l])) /\ Before(Held(l), ToSet(queue[l]))
      BY <1>0, <1>2, <1>4, <1>6 DEF LaneOrder, Before
  <2> QED
      BY <1>6, <2>1, <2>2 DEF LaneOrder
<1>12. ASSUME NEW b \in Addons PROVE SockOrder(b)'
  <2>1. SockOrder(b) /\ sock'[b] = sock[b]
      BY <1>1 DEF Inv
  <2>2. ASSUME NEW k \in Lanes PROVE Before(Inside(k)', ToSet(sock[b]))
      BY <1>7, <1>9, <2>1 DEF SockOrder, Before
  <2>3. ASSUME NEW g \in ToSet(sock[b]) PROVE g.own = b /\ seen'[g.lane][b] < g.n /\ g.n <= sent'
    <3>1. g.own = b /\ seen[g.lane][b] < g.n /\ g.n <= sent'
        BY <1>1, <2>1 DEF SockOrder
    <3>2. CASE g.lane = l /\ b = a
      <4>1. f.n < g.n
          BY <1>7, <1>8, <1>b, <2>1, <3>1, <3>2 DEF SockOrder, Before
      <4> QED
          BY <1>5, <3>1, <3>2, <4>1
    <3>3. CASE ~(g.lane = l /\ b = a)
      <4>1. seen'[g.lane][b] = seen[g.lane][b]
        <5>1. g.lane \in Lanes
          <6>1. sock[b] \in Seq(Frame)
              BY DEF Inv, Shape
          <6> QED
              BY <6>1, OnSet DEF Frame
        <5> QED
            BY <1>5, <3>3, <5>1
      <4> QED
          BY <3>1, <4>1
    <3> QED
        BY <3>2, <3>3
  <2> QED
      BY <2>1, <2>2, <2>3 DEF SockOrder
<1>13. SeenSent'
    BY <1>1, <1>5, <1>8 DEF Inv, SeenSent
<1>14. Arrives(l, a, f)
  <2>1. Before({f}, ToSet(sock[a]))
      BY <1>3, <1>7 DEF Inv, SockOrder, Before
  <2>2. f \in Frames(l, a) /\ \A g \in Frames(l, a)' : f.n < g.n
      BY <1>1, <1>7, <1>8, <1>b, <2>1 DEF Frames, Before
  <2>3. Frames(l, a) = Frames(l, a)' \cup {f}
      BY <1>1, <1>7, <1>8, <1>b DEF Frames
  <2>4. Else(l, a)
    <3> SUFFICES ASSUME NEW k \in Lanes, NEW b \in Addons, k # l \/ b # a PROVE Frames(k, b)' = Frames(k, b)
        BY DEF Else
    <3>1. Inside(k)' = Inside(k) \/ (k = l /\ Inside(k) = Inside(k)' \cup {f})
        BY <1>7, <1>9
    <3> QED
        BY <1>1, <1>b, <3>1 DEF Frames
  <2> QED
      BY <1>1, <2>2, <2>3, <2>4 DEF Arrives
<1> QED
    BY <1>2, <1>3, <1>9, <1>10, <1>11, <1>12, <1>13, <1>14 DEF Inv

-----------------------------------------------------------------------------
(* The specification.                                                      *)

\* Nothing is under way at first.
LEMMA InitInv == Init => Inv
<1> SUFFICES ASSUME Init PROVE Inv
    OBVIOUS
<1>1. /\ addon = 0 /\ live = FALSE /\ sent = 0 /\ sock = [a \in Addons |-> <<>>]
      /\ queue = [l \in Lanes |-> <<>>] /\ task = [l \in Lanes |-> <<>>] /\ wire = [l \in Lanes |-> <<>>]
      /\ rqueue = [l \in Lanes |-> <<>>] /\ seen = [l \in Lanes |-> [a \in Addons |-> 0]]
    BY DEF Init
<1>2. MaxAddons \in Nat /\ MaxFrames \in Nat
    BY LinkAssumption DEF LinkAssumption
<1>3. Shape
  <2>1. /\ sock \in [Addons -> Seq(Frame)] /\ queue \in [Lanes -> Seq(Frame)] /\ task \in [Lanes -> Seq(Holding)]
        /\ wire \in [Lanes -> Seq(Frame)] /\ rqueue \in [Lanes -> Seq(Frame)]
      BY <1>1, OnEmpty
  <2>2. seen \in [Lanes -> [Addons -> 0..MaxFrames]] /\ addon \in 0..MaxAddons /\ sent \in 0..MaxFrames
      BY <1>1, <1>2
  <2>3. \A l \in Lanes : Len(task[l]) = 0
      BY <1>1
  <2> QED
      BY <1>1, <2>1, <2>2, <2>3 DEF Shape
<1>4. ASSUME NEW l \in Lanes PROVE Inside(l) = {} /\ LaneOrder(l)
  <2>1. rqueue[l] = <<>> /\ wire[l] = <<>> /\ queue[l] = <<>> /\ task[l] = <<>>
      BY <1>1
  <2>2. Held(l) = {}
      BY <2>1, NothingHeld
  <2> QED
      BY <2>1, <2>2, OnEmpty DEF LaneOrder, Inside, Before
<1>5. ASSUME NEW a \in Addons PROVE SockOrder(a)
    BY <1>1, <1>4, OnEmpty DEF SockOrder, Before
<1>6. SeenSent
    BY <1>1 DEF SeenSent
<1> QED
    BY <1>3, <1>4, <1>5, <1>6 DEF Inv

\* What a step does to the channels: it drops frames or leaves them, or it is
\* a step at one end of one of them.
ChannelStep ==
    \/ Moves
    \/ \E l \in Lanes, a \in Addons, f \in Frame : Enters(l, a, f) \/ Arrives(l, a, f)

\* Every step keeps the order, and is one of the abstract lane or none.
LEMMA NextInv == ASSUME Inv, [Next]_vars PROVE Inv' /\ ChannelStep
<1>0. addon \in 0..MaxAddons /\ (live => addon # 0) /\ MaxAddons \in Nat
    BY LinkAssumption DEF Inv, Shape, LinkAssumption
<1>1. CASE Attach
    BY <1>0, <1>1, StayInv DEF Attach, ChannelStep, sessVars, replVars
<1>2. CASE Leave
    BY <1>0, <1>2, StayInv DEF Leave, ChannelStep, linkVars, sessVars, replVars
<1>3. ASSUME NEW l \in Lanes, Send(l) PROVE Inv' /\ ChannelStep
    BY <1>3, SendInv DEF ChannelStep
<1>4. ASSUME NEW a \in Addons, ReaderStep(a) PROVE Inv' /\ ChannelStep
    BY <1>4, ReadFrameInv, ReaderEndsInv DEF ReaderStep, ChannelStep
<1>5. CASE WriteItem
    BY <1>0, <1>5, StayInv DEF WriteItem, ChannelStep, sessVars, replVars
<1>6. CASE Connect
    BY <1>0, <1>6, StayInv DEF Connect, ChannelStep, addonVars, linkVars, replVars
<1>7. CASE DialFails
    BY <1>0, <1>7, StayInv DEF DialFails, ChannelStep, addonVars, linkVars, sessVars, replVars
<1>8. ASSUME NEW l \in Lanes, Drain(l) PROVE Inv' /\ ChannelStep
    BY <1>8, DrainInv DEF ChannelStep
<1>17. CASE AckStale
    BY <1>0, <1>17, StayInv DEF AckStale, ChannelStep, addonVars, linkVars, replVars
<1>18. CASE StartLanes
    BY <1>0, <1>18, StayInv DEF StartLanes, ChannelStep, addonVars, linkVars, replVars
<1>9. CASE SessionEnds
    BY <1>9, EndTasksInv DEF SessionEnds, ChannelStep, addonVars, linkVars, replVars
<1>10. CASE Retarget
    BY <1>10, EndTasksInv DEF Retarget, ChannelStep, addonVars, linkVars, replVars
<1>11. ASSUME NEW l \in Lanes, LaneStep(l) PROVE Inv' /\ ChannelStep
    BY <1>11, TakeFrameInv, WriteWireInv, AckFrameInv DEF LaneStep, ChannelStep
<1>12. ASSUME NEW l \in Lanes, Receive(l) PROVE Inv' /\ ChannelStep
    BY <1>12, ReceiveInv DEF ChannelStep
<1>13. ASSUME NEW l \in Lanes, Deliver(l) PROVE Inv' /\ ChannelStep
    BY <1>13, DeliverInv DEF ChannelStep
<1>14. CASE ReplicaAttaches
    BY <1>0, <1>14, StayInv DEF ReplicaAttaches, ChannelStep, addonVars, linkVars, sessVars
<1>15. CASE ReplicaLeaves
    BY <1>15, ReplicaLeavesInv DEF ChannelStep
<1>16. CASE UNCHANGED vars
    BY <1>0, <1>16, StayInv DEF vars, ChannelStep, addonVars, linkVars, sessVars, replVars
<1> QED
    BY <1>1, <1>2, <1>3, <1>4, <1>5, <1>6, <1>7, <1>8, <1>9, <1>10, <1>11, <1>12, <1>13, <1>14, <1>15, <1>16, <1>17, <1>18 DEF Next

\* In every reachable state the frames of one addon on one lane are numbered
\* in the order of the places they are in: seen, the replica's queue, the
\* wire, the lane's task, the host's queue, the socket.
THEOREM SpecInv == Spec => []Inv
<1>1. Inv /\ [Next]_vars => Inv'
    BY NextInv
<1> QED
    BY InitInv, <1>1, PTL DEF Spec

-----------------------------------------------------------------------------
(* The refinement.                                                         *)

\* What the refinement calls under way are the frames of Frames.
LEMMA UnderWayFrames == \A l \in Lanes, a \in Addons : UnderWay(l, a) = {f.n : f \in Frames(l, a)}
<1> SUFFICES ASSUME NEW l \in Lanes, NEW a \in Addons PROVE UnderWay(l, a) = {f.n : f \in Frames(l, a)}
    OBVIOUS
<1> DEFINE held == {task[l][k].f : k \in {k \in 1..Len(task[l]) : l = "cold" \/ task[l][k].st = "send"}}
           fs == ToSet(sock[a]) \cup ToSet(queue[l]) \cup held \cup ToSet(wire[l]) \cup ToSet(rqueue[l])
<1>1. UnderWay(l, a) = {f.n : f \in {f \in fs : f.lane = l /\ f.own = a}}
    BY DEF UnderWay
<1>2. held = Held(l)
    BY DEF Held
<1> HIDE DEF held
<1>3. {f \in fs : f.lane = l /\ f.own = a} = Frames(l, a)
    BY <1>2 DEF Frames, Inside
<1> QED
    BY <1>1, <1>3

\* The frames of a channel are frames, newer than what has been seen.
LEMMA FramesNew == ASSUME Inv, NEW l \in Lanes, NEW a \in Addons, NEW f \in Frames(l, a)
                   PROVE f \in Frame /\ f.n \in 1..MaxFrames /\ seen[l][a] < f.n
<1>1. f.lane = l /\ f.own = a /\ (f \in ToSet(sock[a]) \/ f \in Inside(l))
    BY DEF Frames
<1>2. seen[l][a] < f.n
    BY <1>1 DEF Inv, LaneOrder, SockOrder
<1>3. f \in Frame
  <2>1. ToSet(sock[a]) \subseteq Frame
      BY OnSet DEF Inv, Shape
  <2>2. Held(l) \subseteq Frame
    <3>1. task[l] \in Seq(Holding)
        BY DEF Inv, Shape
    <3>2. \A i \in 1..Len(task[l]) : task[l][i] \in Holding
        BY <3>1
    <3> QED
        BY <3>2 DEF Held, Holding
  <2>3. ToSet(rqueue[l]) \subseteq Frame /\ ToSet(wire[l]) \subseteq Frame /\ ToSet(queue[l]) \subseteq Frame
      BY OnSet DEF Inv, Shape
  <2> QED
      BY <1>1, <2>1, <2>2, <2>3 DEF Inside
<1> QED
    BY <1>2, <1>3 DEF Frame

Channels == Lanes \X Addons
Pend == [c \in Channels |-> UnderWay(c[1], c[2])]
Seen == [c \in Channels |-> seen[c[1]][c[2]]]

\* The abstract lane's variables at one channel.
LEMMA AtChannel == /\ \A c \in Channels : c[1] \in Lanes /\ c[2] \in Addons /\ c = <<c[1], c[2]>>
                   /\ \A c \in Channels : Pend[c] = {f.n : f \in Frames(c[1], c[2])} /\ Seen[c] = seen[c[1]][c[2]]
BY UnderWayFrames DEF Channels, Pend, Seen

\* The same after a step.
LEMMA AtChannelNext ==
    \A c \in Channels : Pend'[c] = {f.n : f \in Frames(c[1], c[2])'} /\ Seen'[c] = seen'[c[1]][c[2]]
<1>1. (\A l \in Lanes, a \in Addons : UnderWay(l, a) = {f.n : f \in Frames(l, a)})'
    BY UnderWayFrames, PTL
<1>2. Pend' = [c \in Channels |-> UnderWay(c[1], c[2])'] /\ Seen' = [c \in Channels |-> seen'[c[1]][c[2]]]
    BY DEF Pend, Seen, Channels
<1> QED
    BY <1>1, <1>2, AtChannel

\* Every state maps to numbers of frames, and seen to a number or 0.
LEMMA MapTypes == Inv => Pend \in [Channels -> SUBSET (1..MaxFrames)] /\ Seen \in [Channels -> 0..MaxFrames]
<1> SUFFICES ASSUME Inv PROVE Pend \in [Channels -> SUBSET (1..MaxFrames)] /\ Seen \in [Channels -> 0..MaxFrames]
    OBVIOUS
<1>1. ASSUME NEW c \in Channels PROVE Pend[c] \subseteq 1..MaxFrames /\ Seen[c] \in 0..MaxFrames
  <2>1. c[1] \in Lanes /\ c[2] \in Addons /\ Pend[c] = {f.n : f \in Frames(c[1], c[2])} /\ Seen[c] = seen[c[1]][c[2]]
      BY AtChannel
  <2>2. Seen[c] \in 0..MaxFrames
      BY <2>1 DEF Inv, Shape
  <2> QED
      BY <2>1, <2>2, FramesNew
<1>2. Pend = [c \in Channels |-> Pend[c]] /\ Seen = [c \in Channels |-> Seen[c]]
    BY DEF Pend, Seen
<1> QED
    BY <1>1, <1>2

\* The first state is one of the abstract lane.
LEMMA InitMaps == Init => Lane!Init
<1> SUFFICES ASSUME Init PROVE Pend = [c \in Channels |-> {}] /\ Seen = [c \in Channels |-> 0]
    BY DEF Lane!Init, Pend, Seen, Channels
<1>1. ASSUME NEW c \in Channels PROVE Pend[c] = {} /\ Seen[c] = 0
  <2>1. c[1] \in Lanes /\ c[2] \in Addons /\ Pend[c] = {f.n : f \in Frames(c[1], c[2])} /\ Seen[c] = seen[c[1]][c[2]]
      BY AtChannel
  <2>2. Seen[c] = 0
      BY <2>1 DEF Init
  <2>3. sock[c[2]] = <<>> /\ rqueue[c[1]] = <<>> /\ wire[c[1]] = <<>> /\ queue[c[1]] = <<>> /\ task[c[1]] = <<>>
      BY <2>1 DEF Init
  <2>4. Inside(c[1]) = {}
      BY <2>1, <2>3, NothingHeld, OnEmpty DEF Inside
  <2>5. Frames(c[1], c[2]) = {}
      BY <2>3, <2>4, OnEmpty DEF Frames
  <2> QED
      BY <2>1, <2>2, <2>5
<1> QED
    BY <1>1 DEF Pend, Seen

\* The abstract steps, of the mapped variables.
LEMMA LaneSteps ==
    /\ Lane!Lose <=> Pend' \in [Channels -> SUBSET (1..MaxFrames)] /\ (\A c \in Channels : Pend'[c] \subseteq Pend[c]) /\ Seen' = Seen
    /\ \A c \in Channels : Lane!Send(c) <=> \E n \in 1..MaxFrames : /\ n > Seen[c] /\ \A m \in Pend[c] : n > m
                                                               /\ Pend' = [Pend EXCEPT ![c] = @ \cup {n}] /\ Seen' = Seen
    /\ \A c \in Channels : Lane!Deliver(c) <=> \E n \in Pend[c] : /\ \A m \in Pend[c] : n <= m
                                                               /\ Seen' = [Seen EXCEPT ![c] = n]
                                                               /\ Pend' = [Pend EXCEPT ![c] = @ \ {n}]
    /\ Lane!Next <=> Lane!Lose \/ \E c \in Channels : Lane!Send(c) \/ Lane!Deliver(c)
<1>1. Lane!Lose <=> Pend' \in [Channels -> SUBSET (1..MaxFrames)] /\ (\A c \in Channels : Pend'[c] \subseteq Pend[c]) /\ Seen' = Seen
    BY Zenon DEF Lane!Lose, Lane!Num, Pend, Seen, Channels
<1>2. ASSUME NEW c \in Channels
      PROVE  Lane!Send(c) <=> \E n \in 1..MaxFrames : /\ n > Seen[c] /\ \A m \in Pend[c] : n > m
                                                    /\ Pend' = [Pend EXCEPT ![c] = @ \cup {n}] /\ Seen' = Seen
    BY Zenon DEF Lane!Send, Lane!Num, Pend, Seen, Channels
<1>3. ASSUME NEW c \in Channels
      PROVE  Lane!Deliver(c) <=> \E n \in Pend[c] : /\ \A m \in Pend[c] : n <= m
                                                   /\ Seen' = [Seen EXCEPT ![c] = n]
                                                   /\ Pend' = [Pend EXCEPT ![c] = @ \ {n}]
    BY Zenon DEF Lane!Deliver, Pend, Seen, Channels
<1>4. Lane!Next <=> Lane!Lose \/ \E c \in Channels : Lane!Send(c) \/ Lane!Deliver(c)
    BY Zenon DEF Lane!Next, Channels
<1> QED
    BY <1>1, <1>2, <1>3, <1>4, Zenon

\* A step of the two agents and addons is a loss, a send or a delivery.
LEMMA StepMaps == ASSUME Inv, Inv', ChannelStep PROVE Lane!Next
<1>0. /\ Pend \in [Channels -> SUBSET (1..MaxFrames)] /\ Seen \in [Channels -> 0..MaxFrames]
      /\ Pend' \in [Channels -> SUBSET (1..MaxFrames)] /\ Seen' \in [Channels -> 0..MaxFrames]
  <2>1. (Pend \in [Channels -> SUBSET (1..MaxFrames)] /\ Seen \in [Channels -> 0..MaxFrames])'
      BY MapTypes, PTL
  <2> QED
      BY <2>1, MapTypes DEF Channels, Addons
<1>1. CASE Moves
  <2>1. \A c \in Channels : Pend'[c] \subseteq Pend[c]
    <3> SUFFICES ASSUME NEW c \in Channels PROVE Pend'[c] \subseteq Pend[c]
        OBVIOUS
    <3>1. Frames(c[1], c[2])' \subseteq Frames(c[1], c[2])
        BY <1>1, AtChannel DEF Moves
    <3> QED
        BY <3>1, AtChannel, AtChannelNext
  <2>2. Seen' = Seen
      BY <1>1 DEF Moves, Seen, Channels
  <2> QED
      BY <1>0, <2>1, <2>2, LaneSteps
<1>2. ASSUME NEW l \in Lanes, NEW a \in Addons, NEW f \in Frame, Enters(l, a, f) PROVE Lane!Next
  <2> DEFINE c == <<l, a>>
             n == f.n
  <2>1. c \in Channels /\ c[1] = l /\ c[2] = a /\ n \in 1..MaxFrames
      BY DEF Channels, Frame
  <2>2. Pend[c] = {g.n : g \in Frames(l, a)} /\ Pend'[c] = {g.n : g \in Frames(l, a)'} /\ Seen[c] = seen[l][a]
      BY <2>1, AtChannel, AtChannelNext
  <2>3. Pend'[c] = Pend[c] \cup {n}
      BY <1>2, <2>2 DEF Enters
  <2>4. ASSUME NEW d \in Channels, d # c PROVE Pend'[d] = Pend[d]
    <3>1. d[1] # l \/ d[2] # a
        BY <2>4, AtChannel
    <3>2. Frames(d[1], d[2])' = Frames(d[1], d[2])
        BY <1>2, <3>1, AtChannel DEF Enters, Else
    <3> QED
        BY <3>2, AtChannel, AtChannelNext
  <2>5. Seen' = Seen
      BY <1>2 DEF Enters, Seen, Channels
  <2>6. (\A m \in Pend[c] : m < n) /\ Seen[c] < n
      BY <1>2, <2>2 DEF Enters
  <2>7. n > Seen[c] /\ \A m \in Pend[c] : n > m
      BY <1>0, <2>1, <2>6
  <2> HIDE DEF c, n
  <2>8. Pend' = [Pend EXCEPT ![c] = @ \cup {n}]
      BY <1>0, <2>1, <2>3, <2>4
  <2>9. Lane!Send(c)
      BY <2>1, <2>5, <2>7, <2>8, LaneSteps
  <2> QED
      BY <2>1, <2>9, LaneSteps
<1>3. ASSUME NEW l \in Lanes, NEW a \in Addons, NEW f \in Frame, Arrives(l, a, f) PROVE Lane!Next
  <2> DEFINE c == <<l, a>>
             n == f.n
  <2>1. c \in Channels /\ c[1] = l /\ c[2] = a /\ n \in 1..MaxFrames
      BY DEF Channels, Frame
  <2>2. Pend[c] = {g.n : g \in Frames(l, a)} /\ Pend'[c] = {g.n : g \in Frames(l, a)'} /\ Seen[c] = seen[l][a]
      BY <2>1, AtChannel, AtChannelNext
  <2>3. Pend[c] = Pend'[c] \cup {n} /\ (\A m \in Pend'[c] : n < m)
      BY <1>3, <2>2 DEF Arrives
  <2>4. n \notin Pend'[c] /\ n \in Pend[c] /\ (\A m \in Pend[c] : n <= m)
      BY <1>0, <2>1, <2>3
  <2>5. Pend'[c] = Pend[c] \ {n}
      BY <2>3, <2>4
  <2>6. ASSUME NEW d \in Channels, d # c PROVE Pend'[d] = Pend[d] /\ Seen'[d] = Seen[d]
    <3>1. (d[1] # l \/ d[2] # a) /\ d[1] \in Lanes /\ d[2] \in Addons
        BY <2>6, AtChannel
    <3>2. Frames(d[1], d[2])' = Frames(d[1], d[2])
        BY <1>3, <3>1, AtChannel DEF Arrives, Else
    <3>3. seen'[d[1]][d[2]] = seen[d[1]][d[2]]
        BY <1>3, <3>1 DEF Arrives, Inv, Shape
    <3> QED
        BY <3>2, <3>3, AtChannel, AtChannelNext
  <2>7. Seen'[c] = n
    <3>1. seen'[l][a] = n
        BY <1>3 DEF Arrives, Inv, Shape
    <3> QED
        BY <2>1, <3>1, AtChannelNext
  <2> HIDE DEF c, n
  <2>8. Pend' = [Pend EXCEPT ![c] = @ \ {n}] /\ Seen' = [Seen EXCEPT ![c] = n]
      BY <1>0, <2>1, <2>5, <2>6, <2>7
  <2>9. Lane!Deliver(c)
      BY <2>1, <2>4, <2>8, LaneSteps
  <2> QED
      BY <2>1, <2>9, LaneSteps
<1> QED
    BY <1>1, <1>2, <1>3 DEF ChannelStep

\* Whatever happens to sessions, agents' queues and addons, the frames of one
\* addon arrive on a lane in the order it sent them, each at most once: for
\* any number of frames, addons and sessions and any capacities, AgentLink
\* implements OrderedLane.
THEOREM LanesOrdered == Spec => Ordered
<1>1. Inv /\ Inv' /\ [Next]_vars => [Lane!Next]_Lane!vars
    BY NextInv, StepMaps
<1> QED
    BY InitMaps, <1>1, SpecInv, PTL DEF Spec, Ordered, Lane!Spec

\* Nothing older than what the replica's addon has been given can still
\* come, which is what lets its trackers take a jump in seq for a loss.
THEOREM NothingOlder == Spec => []Lane!Behind
<1>1. Inv => Lane!Behind
  <2> SUFFICES ASSUME Inv, NEW c \in Channels, NEW n \in Pend[c] PROVE Seen[c] < n
      BY Zenon DEF Lane!Behind, Pend, Seen, Channels
  <2>1. c[1] \in Lanes /\ c[2] \in Addons /\ Pend[c] = {f.n : f \in Frames(c[1], c[2])} /\ Seen[c] = seen[c[1]][c[2]]
      BY AtChannel
  <2> QED
      BY <2>1, FramesNew
<1> QED
    BY <1>1, SpecInv, PTL

\* Every delivery is newer than all the deliveries before it: no frame comes
\* twice and none overtakes another.
THEOREM OnlyForward ==
    Spec => [][\A l \in Lanes, a \in Addons : seen'[l][a] # seen[l][a] => seen'[l][a] > seen[l][a]]_vars
<1>1. ASSUME Inv, [Next]_vars, NEW l \in Lanes, NEW a \in Addons, seen'[l][a] # seen[l][a]
      PROVE  seen'[l][a] > seen[l][a]
  <2>1. PICK k \in Lanes, b \in Addons, f \in Frame : Arrives(k, b, f)
      BY <1>1, NextInv DEF ChannelStep, Moves, Enters
  <2>2. seen' = [seen EXCEPT ![k][b] = f.n] /\ f \in Frames(k, b) /\ seen \in [Lanes -> [Addons -> 0..MaxFrames]]
      BY <1>1, <2>1 DEF Arrives, Inv, Shape
  <2>3. l = k /\ a = b /\ seen'[l][a] = f.n
      BY <1>1, <2>2
  <2>4. f.n \in 1..MaxFrames /\ seen[k][b] < f.n
      BY <1>1, <2>2, FramesNew
  <2> QED
      BY <2>2, <2>3, <2>4
<1>2. Inv /\ [Next]_vars => [\A l \in Lanes, a \in Addons : seen'[l][a] # seen[l][a] => seen'[l][a] > seen[l][a]]_vars
    BY <1>1
<1> QED
    BY <1>2, SpecInv, PTL DEF Spec

-----------------------------------------------------------------------------
(* Sums of costs.  A statement about every set of frames is proved of a    *)
(* smallest set that would refute it: FS_StrictSubsetOrderingWellFounded.  *)

\* The frame a fold takes next.
Pick(s) == CHOOSE f \in s : TRUE

\* g is the fold of CostOf over the subsets of S.
IsSum(g, S) == g = [s \in SUBSET S |-> IF s = {} THEN 0 ELSE Cost[Pick(s).n] + g[s \ {Pick(s)}]]

\* There are finitely many frames.
LEMMA FramesFinite == IsFiniteSet(Frame) /\ \A S \in SUBSET Frame : IsFiniteSet(S)
<1>1. IsFiniteSet(Lanes)
  <2>1. IsFiniteSet({"cold"}) /\ IsFiniteSet({"cold"} \cup {"fast"})
      BY FS_Singleton, FS_Union
  <2>2. {"cold"} \cup {"fast"} = Lanes
      BY DEF Lanes
  <2> QED
      BY <2>1, <2>2
<1>2. IsFiniteSet(1..MaxFrames) /\ IsFiniteSet(Addons)
    BY FS_Interval, LinkAssumption DEF Addons
<1>3. IsFiniteSet((Lanes \X (1..MaxFrames)) \X Addons)
    BY <1>1, <1>2, FS_Product
<1> DEFINE P == (Lanes \X (1..MaxFrames)) \X Addons
           h == [p \in P |-> [lane |-> p[1][1], n |-> p[1][2], own |-> p[2]]]
<1>4. h \in Surjection(P, Frame)
  <2>1. h \in [P -> Frame]
      BY DEF Frame
  <2>2. ASSUME NEW f \in Frame PROVE \E p \in P : h[p] = f
    <3>1. << <<f.lane, f.n>>, f.own>> \in P /\ f = [lane |-> f.lane, n |-> f.n, own |-> f.own]
        BY DEF Frame
    <3> QED
        BY <3>1
  <2> QED
      BY <2>1, <2>2 DEF Surjection
<1>5. IsFiniteSet(Frame)
    BY <1>3, <1>4, FS_Surjection
<1> QED
    BY <1>5, FS_Subset

\* Among some sets of frames there is a smallest.
LEMMA Smallest ==
    ASSUME NEW T, T \subseteq SUBSET Frame, T # {}
    PROVE  \E s \in T : \A t \in T : t \subseteq s => t = s
<1>1. IsWellFoundedOn(StrictSubsetOrdering(Frame), SUBSET Frame)
    BY FramesFinite, FS_StrictSubsetOrderingWellFounded, FS_FiniteSubsetsOfFinite
<1>2. PICK s \in T : \A t \in T : ~(<<t, s>> \in StrictSubsetOrdering(Frame))
    BY <1>1, WFMin
<1>3. ASSUME NEW t \in T, t \subseteq s, t # s PROVE FALSE
    BY <1>2, <1>3 DEF StrictSubsetOrdering
<1> QED
    BY <1>2, <1>3

\* What IsSum says of one set.
LEMMA SumStep ==
    ASSUME NEW S \in SUBSET Frame, NEW g, IsSum(g, S)
    PROVE  /\ g[{}] = 0
           /\ \A s \in SUBSET S : s # {} => /\ Pick(s) \in s /\ s \ {Pick(s)} \in SUBSET S
                                            /\ g[s] = Cost[Pick(s).n] + g[s \ {Pick(s)}]
<1>1. \A s \in SUBSET S : s # {} => Pick(s) \in s
    BY DEF Pick
<1>2. \A s \in SUBSET S : g[s] = IF s = {} THEN 0 ELSE Cost[Pick(s).n] + g[s \ {Pick(s)}]
    BY DEF IsSum
<1> QED
    BY <1>1, <1>2

\* Two folds agree where both are defined.
LEMMA SumsAgree ==
    ASSUME NEW S \in SUBSET Frame, NEW T \in SUBSET Frame, NEW g, NEW h, IsSum(g, S), IsSum(h, T),
           NEW r, r \subseteq S, r \subseteq T
    PROVE  g[r] = h[r]
<1> DEFINE bad == {s \in SUBSET Frame : s \subseteq S /\ s \subseteq T /\ g[s] # h[s]}
<1>1. bad = {}
  <2> SUFFICES ASSUME bad # {} PROVE FALSE
      OBVIOUS
  <2>0. bad \subseteq SUBSET Frame
      OBVIOUS
  <2>1. PICK s \in bad : \A t \in bad : t \subseteq s => t = s
    <3> HIDE DEF bad
    <3> QED
        BY <2>0, Smallest
  <2>2. s # {}
      BY SumStep
  <2>3. /\ Pick(s) \in s /\ g[s] = Cost[Pick(s).n] + g[s \ {Pick(s)}] /\ h[s] = Cost[Pick(s).n] + h[s \ {Pick(s)}]
    <3>1. s \in SUBSET S /\ s \in SUBSET T
        OBVIOUS
    <3> HIDE DEF bad
    <3> QED
        BY <2>2, <3>1, SumStep
  <2>4. s \ {Pick(s)} \notin bad
      BY <2>1, <2>3
  <2>5. g[s \ {Pick(s)}] = h[s \ {Pick(s)}]
      BY <2>4
  <2> QED
      BY <2>3, <2>5
<1> QED
    BY <1>1

\* Every set has its fold, which is a number.
LEMMA SumExists == ASSUME NEW S \in SUBSET Frame PROVE \E g \in [SUBSET S -> Nat] : IsSum(g, S)
<1> DEFINE Has(s) == \E g \in [SUBSET s -> Nat] : IsSum(g, s)
           bad == {s \in SUBSET Frame : ~Has(s)}
           of(s) == CHOOSE g : g \in [SUBSET s -> Nat] /\ IsSum(g, s)
<1>1. bad = {}
  <2> SUFFICES ASSUME bad # {} PROVE FALSE
      OBVIOUS
  <2>0. bad \subseteq SUBSET Frame
      OBVIOUS
  <2>1. PICK s \in bad : \A t \in bad : t \subseteq s => t = s
    <3> HIDE DEF bad
    <3> QED
        BY <2>0, Smallest
  <2>2. \A t \in SUBSET s : t # s => of(t) \in [SUBSET t -> Nat] /\ IsSum(of(t), t)
      BY <2>1
  <2> DEFINE val(t) == IF t = {} THEN 0 ELSE Cost[Pick(t).n] + of(t \ {Pick(t)})[t \ {Pick(t)}]
             g == [t \in SUBSET s |-> val(t)]
  <2> HIDE DEF of
  <2>3. ASSUME NEW t \in SUBSET s PROVE val(t) \in Nat
    <3>1. CASE t = {}
        BY <3>1
    <3>2. CASE t # {}
      <4>1. Pick(t) \in t /\ Pick(t).n \in 1..MaxFrames
          BY <3>2 DEF Pick, Frame
      <4>2. Cost[Pick(t).n] \in Nat
          BY <4>1, LinkAssumption
      <4>3. of(t \ {Pick(t)})[t \ {Pick(t)}] \in Nat
        <5>1. t \ {Pick(t)} \in SUBSET s /\ t \ {Pick(t)} # s
            BY <4>1
        <5> DEFINE r == t \ {Pick(t)}
        <5>2. of(r) \in [SUBSET r -> Nat] /\ r \in SUBSET r
            BY <2>2, <5>1
        <5> HIDE DEF r
        <5>3. of(r)[r] \in Nat
            BY <5>2
        <5> QED
            BY <5>3 DEF r
      <4> QED
          BY <3>2, <4>2, <4>3
    <3> QED
        BY <3>1, <3>2
  <2>4. ASSUME NEW t \in SUBSET s, t # s PROVE of(t)[t] = val(t)
    <3>1. IsSum(of(t), t) /\ t \in SUBSET Frame
        BY <2>1, <2>2, <2>4
    <3>2. CASE t = {}
        BY <3>1, <3>2, SumStep
    <3>3. CASE t # {}
      <4>1. Pick(t) \in t /\ of(t)[t] = Cost[Pick(t).n] + of(t)[t \ {Pick(t)}]
          BY <3>1, <3>3, SumStep
      <4>2. IsSum(of(t \ {Pick(t)}), t \ {Pick(t)}) /\ t \ {Pick(t)} \in SUBSET Frame
          BY <2>1, <2>2, <4>1
      <4>3. of(t)[t \ {Pick(t)}] = of(t \ {Pick(t)})[t \ {Pick(t)}]
          BY <3>1, <4>2, SumsAgree
      <4> QED
          BY <3>3, <4>1, <4>3
    <3> QED
        BY <3>2, <3>3
  <2>5. ASSUME NEW t \in SUBSET s, t # {} PROVE val(t) = Cost[Pick(t).n] + g[t \ {Pick(t)}]
    <3>1. Pick(t) \in t
        BY <2>5 DEF Pick
    <3>2. t \ {Pick(t)} \in SUBSET s /\ t \ {Pick(t)} # s
        BY <3>1
    <3>3. g[t \ {Pick(t)}] = of(t \ {Pick(t)})[t \ {Pick(t)}]
        BY <2>4, <3>2
    <3> QED
        BY <2>5, <3>3
  <2>6. IsSum(g, s)
    <3>1. \A t \in SUBSET s : val(t) = IF t = {} THEN 0 ELSE Cost[Pick(t).n] + g[t \ {Pick(t)}]
        BY <2>5
    <3> QED
        BY <3>1 DEF IsSum
  <2>7. g \in [SUBSET s -> Nat]
      BY <2>3
  <2> QED
      BY <2>1, <2>6, <2>7
<1> QED
    BY <1>1

\* CostOf is that fold.
LEMMA CostFold == ASSUME NEW S \in SUBSET Frame PROVE \E g : IsSum(g, S) /\ CostOf(S) = g[S] /\ CostOf(S) \in Nat
<1> DEFINE it == CHOOSE g : g = [s \in SUBSET S |-> IF s = {} THEN 0 ELSE Cost[Pick(s).n] + g[s \ {Pick(s)}]]
<1>1. CostOf(S) = it[S]
    BY DEF CostOf, MapThenSumSet, MapThenFoldSet, Pick
<1>2. PICK g \in [SUBSET S -> Nat] : IsSum(g, S)
    BY SumExists
<1>3. IsSum(it, S)
    BY <1>2 DEF IsSum
<1> HIDE DEF it
<1>4. it[S] = g[S]
    BY <1>2, <1>3, SumsAgree
<1> QED
    BY <1>1, <1>2, <1>3, <1>4

\* The sum is a number; of no frames it is 0, and a frame that is taken out takes its cost along.
LEMMA CostStep ==
    /\ CostOf({}) = 0
    /\ \A S \in SUBSET Frame : CostOf(S) \in Nat
    /\ \A S \in SUBSET Frame : S # {} => Pick(S) \in S /\ CostOf(S) = Cost[Pick(S).n] + CostOf(S \ {Pick(S)})
<1>1. CostOf({}) = 0
  <2>1. {} \in SUBSET Frame
      OBVIOUS
  <2>2. PICK g : IsSum(g, {}) /\ CostOf({}) = g[{}]
      BY <2>1, CostFold
  <2> QED
      BY <2>1, <2>2, SumStep
<1>2. \A S \in SUBSET Frame : CostOf(S) \in Nat
    BY CostFold
<1>3. ASSUME NEW S \in SUBSET Frame, S # {}
      PROVE  Pick(S) \in S /\ CostOf(S) = Cost[Pick(S).n] + CostOf(S \ {Pick(S)})
  <2>1. PICK g : IsSum(g, S) /\ CostOf(S) = g[S]
      BY CostFold
  <2>2. Pick(S) \in S /\ g[S] = Cost[Pick(S).n] + g[S \ {Pick(S)}]
      BY <1>3, <2>1, SumStep
  <2> DEFINE r == S \ {Pick(S)}
  <2>3. r \in SUBSET Frame /\ r \subseteq S /\ r \subseteq r
      OBVIOUS
  <2> HIDE DEF r
  <2>4. PICK h : IsSum(h, r) /\ CostOf(r) = h[r]
      BY <2>3, CostFold
  <2>5. g[r] = h[r]
    <3>1. S \in SUBSET Frame /\ r \in SUBSET Frame /\ IsSum(g, S) /\ IsSum(h, r) /\ r \subseteq S /\ r \subseteq r
        BY <2>1, <2>3, <2>4, Zenon
    <3> QED
        BY ONLY <3>1, SumsAgree, SMTT(20)
  <2> QED
      BY <2>1, <2>2, <2>4, <2>5 DEF r
<1> QED
    BY <1>1, <1>2, <1>3

\* Every frame of the set may be the one: the order of the fold does not matter.
LEMMA CostWithout ==
    ASSUME NEW S \in SUBSET Frame, NEW f \in S
    PROVE  CostOf(S) = Cost[f.n] + CostOf(S \ {f}) /\ Cost[f.n] \in Nat \ {0}
<1> DEFINE Bad(s) == \E x \in s : CostOf(s) # Cost[x.n] + CostOf(s \ {x})
           bad == {s \in SUBSET Frame : Bad(s)}
<1>0. \A x \in Frame : Cost[x.n] \in Nat \ {0}
    BY LinkAssumption DEF Frame
<1>1. bad = {}
  <2> SUFFICES ASSUME bad # {} PROVE FALSE
      OBVIOUS
  <2>0. bad \subseteq SUBSET Frame
      OBVIOUS
  <2>1. PICK s \in bad : \A t \in bad : t \subseteq s => t = s
    <3> HIDE DEF bad
    <3> QED
        BY <2>0, Smallest
  <2>2. s \in SUBSET Frame /\ Bad(s)
      OBVIOUS
  <2>3. PICK x \in s : CostOf(s) # Cost[x.n] + CostOf(s \ {x})
      BY <2>2
  <2> DEFINE c == Pick(s)
  <2>4. c \in s /\ CostOf(s) = Cost[c.n] + CostOf(s \ {c})
      BY <2>2, <2>3, CostStep
  <2>5. x # c
      BY <2>3, <2>4
  <2>6. s \ {c} \notin bad /\ s \ {x} \notin bad /\ s \ {c} \in SUBSET Frame /\ s \ {x} \in SUBSET Frame
      BY <2>1, <2>2, <2>4
  <2> HIDE DEF c
  <2>7. CostOf(s \ {c}) = Cost[x.n] + CostOf((s \ {c}) \ {x}) /\ CostOf(s \ {x}) = Cost[c.n] + CostOf((s \ {x}) \ {c})
      BY <2>4, <2>5, <2>6
  <2>8. (s \ {c}) \ {x} = (s \ {x}) \ {c} /\ (s \ {c}) \ {x} \in SUBSET Frame
      BY <2>2
  <2>9. Cost[x.n] \in Nat /\ Cost[c.n] \in Nat /\ CostOf((s \ {c}) \ {x}) \in Nat
      BY <1>0, <2>2, <2>4, <2>8, CostStep
  <2> QED
      BY <2>3, <2>4, <2>7, <2>8, <2>9
<1> QED
    BY <1>0, <1>1

\* Costs of sets that have nothing in common add up.
LEMMA CostUnion ==
    ASSUME NEW S \in SUBSET Frame, NEW T \in SUBSET Frame, S \cap T = {}
    PROVE  CostOf(S \cup T) = CostOf(S) + CostOf(T)
<1> DEFINE bad == {t \in SUBSET Frame : S \cap t = {} /\ CostOf(S \cup t) # CostOf(S) + CostOf(t)}
<1>1. bad = {}
  <2> SUFFICES ASSUME bad # {} PROVE FALSE
      OBVIOUS
  <2>0. bad \subseteq SUBSET Frame
      OBVIOUS
  <2>1. PICK t \in bad : \A r \in bad : r \subseteq t => r = t
    <3> HIDE DEF bad
    <3> QED
        BY <2>0, Smallest
  <2>2. t \in SUBSET Frame /\ S \cap t = {} /\ CostOf(S \cup t) # CostOf(S) + CostOf(t)
      OBVIOUS
  <2>3. t # {}
    <3> SUFFICES ASSUME t = {} PROVE FALSE
        OBVIOUS
    <3>1. S \cup t = S /\ CostOf(t) = 0 /\ CostOf(S) \in Nat
        BY CostStep
    <3> HIDE DEF bad
    <3>2. CostOf(S \cup t) = CostOf(S)
        BY <3>1, Zenon
    <3>3. CostOf(S) + CostOf(t) = CostOf(S)
        BY <3>1
    <3> QED
        BY <2>2, <3>2, <3>3
  <2>4. PICK x \in t : TRUE
      BY <2>3
  <2> DEFINE r == t \ {x}
  <2>5. r \notin bad /\ r \in SUBSET Frame /\ S \cap r = {}
      BY <2>1, <2>2
  <2>6. CostOf(S \cup r) = CostOf(S) + CostOf(r)
      BY <2>5
  <2>7. (S \cup t) \ {x} = S \cup r /\ S \cup t \in SUBSET Frame /\ x \in S \cup t /\ S \cup r \in SUBSET Frame
      BY <2>2
  <2>8. CostOf(S \cup t) = Cost[x.n] + CostOf(S \cup r) /\ CostOf(t) = Cost[x.n] + CostOf(r) /\ Cost[x.n] \in Nat
      BY <2>2, <2>7, CostWithout
  <2>9. CostOf(S) \in Nat /\ CostOf(r) \in Nat
      BY <2>5, CostStep
  <2> QED
      BY <2>2, <2>6, <2>8, <2>9
<1> QED
    BY <1>1

\* Costs of what may overlap, of a part, of one frame.
LEMMA CostBounds ==
    ASSUME NEW S \in SUBSET Frame, NEW T \in SUBSET Frame
    PROVE  /\ CostOf(S) \in Nat /\ CostOf(S \cup T) <= CostOf(S) + CostOf(T)
           /\ S \subseteq T => CostOf(S) <= CostOf(T)
           /\ CostOf(S) = 0 => S = {}
<1>1. CostOf(S) \in Nat /\ CostOf(T) \in Nat /\ CostOf(T \ S) \in Nat /\ CostOf(T \cap S) \in Nat
    BY CostStep
<1>2. CostOf(S \cup (T \ S)) = CostOf(S) + CostOf(T \ S) /\ S \cup (T \ S) = S \cup T
    BY CostUnion
<1>3. CostOf((T \cap S) \cup (T \ S)) = CostOf(T \cap S) + CostOf(T \ S) /\ (T \cap S) \cup (T \ S) = T
    BY CostUnion
<1>4. S \subseteq T => T \cap S = S
    OBVIOUS
<1>5. ASSUME NEW f \in S PROVE CostOf(S) # 0
  <2>1. CostOf(S) = Cost[f.n] + CostOf(S \ {f}) /\ Cost[f.n] \in Nat \ {0} /\ CostOf(S \ {f}) \in Nat
      BY CostWithout, CostStep
  <2> QED
      BY <2>1
<1>6. CostOf(S \cup T) <= CostOf(S) + CostOf(T)
  <2>1. CostOf(S \cup T) = CostOf(S) + CostOf(T \ S)
      BY <1>2, Zenon
  <2>2. CostOf(T) = CostOf(T \cap S) + CostOf(T \ S)
      BY <1>3, Zenon
  <2> QED
      BY <1>1, <2>1, <2>2
<1>7. ASSUME S \subseteq T PROVE CostOf(S) <= CostOf(T)
  <2>1. CostOf(T) = CostOf(S) + CostOf(T \ S)
      BY <1>3, <1>4, <1>7, Zenon
  <2> QED
      BY <1>1, <2>1
<1> QED
    BY <1>1, <1>5, <1>6, <1>7

\* One frame.
LEMMA CostOne == ASSUME NEW f \in Frame PROVE CostOf({f}) = Cost[f.n] /\ Cost[f.n] \in Nat \ {0}
<1>1. {f} \in SUBSET Frame /\ {f} \ {f} = {}
    OBVIOUS
<1> QED
    BY <1>1, CostWithout, CostStep

-----------------------------------------------------------------------------
(* Credit: where the frames are that count against a window.               *)

\* The frames of lane l that the acks of p give back.
OfLane(p, l) == UNION {p[k].of : k \in {k \in 1..Len(p) : p[k].t = "ack" /\ p[k].lane = l}}

\* The acks of p are of frames of their lane, and no frame is in two of them.
Apart(p) ==
    /\ p \in Seq(Item)
    /\ \A k \in 1..Len(p) : p[k].t = "ack" => \A f \in p[k].of : f.lane = p[k].lane
    /\ \A i, j \in 1..Len(p) : i # j /\ p[i].t = "ack" /\ p[j].t = "ack" => p[i].of \cap p[j].of = {}

\* In the sockets, and with the lane's task or its drain.
Socks(l) == UNION {{f \in ToSet(sock[a]) : f.lane = l} : a \in Addons}
Carried(l) == {task[l][k].f : k \in 1..Len(task[l])}
Tasked(l) == Carried(l) \cup {f \in stale : f.lane = l}

\* What is drained is of the queue the session is at, and before a session is
\* up no task holds a frame.
Draining == stale \subseteq {f \in Frame : f.lane = phase} /\ (phase # "up" => \A l \in Lanes : task[l] = <<>>)

\* A frame is in one place only.
OnePlace(l) ==
    /\ Socks(l) \cap (ToSet(queue[l]) \cup Tasked(l)) = {} /\ ToSet(queue[l]) \cap Tasked(l) = {}
    /\ (Socks(l) \cup ToSet(queue[l]) \cup Tasked(l)) \cap OfLane(prio, l) = {}
    /\ \A f \in Uncredited(l) : f \in Frame /\ f.lane = l /\ f.n <= sent /\ f.own <= addon

Fits(S) == CostOf(S) <= Window \/ Cardinality(S) = 1

\* What an addon counts is not more than is under way or was lost; the first
\* addon's count is not less either, and what is under way fits the window.
Counted(l) ==
    /\ live /\ sink = addon => out[l] <= CostOf(Mine(l)) + lost[l]
    /\ addon = 1 /\ live => CostOf(Mine(l)) <= out[l] /\ Fits(Mine(l))

Places == Apart(prio) /\ \A l \in Lanes : OnePlace(l)
Counters == out \in [Lanes -> Nat] /\ lost \in [Lanes -> Nat] /\ \A l \in Lanes : Counted(l)

\* Items of the priority queue.
LEMMA OnItem ==
    /\ \A i \in Item : i.t = "ack" => i.lane \in Lanes /\ i.of \in SUBSET Frame
    /\ \A l \in Lanes, S \in SUBSET Frame : Ack(l, S) \in Item /\ Ack(l, S).t = "ack" /\ Ack(l, S).lane = l /\ Ack(l, S).of = S
    /\ \A e \in {"up", "down"} : [t |-> e] \in Item /\ [t |-> e].t # "ack"
BY DEF Item, Ack

\* An ack is queued for frames that no ack is queued for.
LEMMA OnAck ==
    ASSUME NEW p, Apart(p), NEW l \in Lanes, NEW S \in SUBSET Frame, \A f \in S : f.lane = l, S \cap OfLane(p, l) = {}
    PROVE  /\ Apart(Append(p, Ack(l, S))) /\ OfLane(Append(p, Ack(l, S)), l) = OfLane(p, l) \cup S
           /\ \A k \in Lanes \ {l} : OfLane(Append(p, Ack(l, S)), k) = OfLane(p, k)
<1> DEFINE i == Ack(l, S)
           q == Append(p, i)
<1>1. i \in Item /\ i.t = "ack" /\ i.lane = l /\ i.of = S
    BY OnItem
<1> HIDE DEF i
<1>2. /\ p \in Seq(Item) /\ q \in Seq(Item) /\ Len(q) = Len(p) + 1 /\ Len(p) \in Nat /\ q[Len(p) + 1] = i
      /\ \A k \in 1..Len(p) : q[k] = p[k]
    BY <1>1 DEF Apart
<1>3. 1..Len(q) = 1..Len(p) \cup {Len(p) + 1} /\ Len(p) + 1 \notin 1..Len(p)
    BY <1>2
<1> HIDE DEF q
<1>4. ASSUME NEW k \in Lanes PROVE OfLane(q, k) = OfLane(p, k) \cup (IF k = l THEN S ELSE {})
  <2>1. ASSUME NEW f \in OfLane(q, k) PROVE f \in OfLane(p, k) \/ (k = l /\ f \in S)
      BY <1>1, <1>2, <1>3 DEF OfLane
  <2>2. ASSUME NEW f \in OfLane(p, k) PROVE f \in OfLane(q, k)
      BY <1>2, <1>3 DEF OfLane
  <2>3. ASSUME NEW f \in S, k = l PROVE f \in OfLane(q, k)
      BY <1>1, <1>2, <1>3, <2>3 DEF OfLane
  <2> QED
      BY <2>1, <2>2, <2>3
<1>5. ASSUME NEW k \in 1..Len(p), p[k].t = "ack" PROVE p[k].of \cap S = {}
  <2> SUFFICES ASSUME NEW f \in S, f \in p[k].of PROVE FALSE
      OBVIOUS
  <2>1. f.lane = p[k].lane /\ f.lane = l
      BY <1>5 DEF Apart
  <2>2. f \in OfLane(p, l)
      BY <1>5, <2>1 DEF OfLane
  <2> QED
      BY <2>2
<1>6. Apart(q)
  <2>1. \A k \in 1..Len(q) : q[k].t = "ack" => \A f \in q[k].of : f.lane = q[k].lane
      BY <1>1, <1>2, <1>3 DEF Apart
  <2>2. ASSUME NEW j \in 1..Len(q), NEW k \in 1..Len(q), j # k, q[j].t = "ack", q[k].t = "ack"
        PROVE  q[j].of \cap q[k].of = {}
    <3>1. CASE j \in 1..Len(p) /\ k \in 1..Len(p)
        BY <1>2, <2>2, <3>1 DEF Apart
    <3>2. CASE j \in 1..Len(p) /\ k = Len(p) + 1
        BY <1>1, <1>2, <1>5, <2>2, <3>2
    <3>3. CASE j = Len(p) + 1 /\ k \in 1..Len(p)
        BY <1>1, <1>2, <1>5, <2>2, <3>3
    <3> QED
        BY <1>3, <2>2, <3>1, <3>2, <3>3
  <2> QED
      BY <1>2, <2>1, <2>2 DEF Apart
<1> QED
    BY <1>4, <1>6 DEF q, i

\* An event is queued, or dropped.
LEMMA OnEvent ==
    ASSUME NEW p, Apart(p), NEW e \in {"up", "down"}
    PROVE  Apart(EventTry(p, e)) /\ \A l \in Lanes : OfLane(EventTry(p, e), l) = OfLane(p, l)
<1> DEFINE i == [t |-> e]
           q == Append(p, i)
<1>0. EventTry(p, e) = q \/ EventTry(p, e) = p
    BY DEF EventTry
<1>1. i \in Item /\ i.t # "ack"
    BY OnItem, Zenon
<1> HIDE DEF i
<1>2. /\ p \in Seq(Item) /\ q \in Seq(Item) /\ Len(q) = Len(p) + 1 /\ Len(p) \in Nat /\ q[Len(p) + 1] = i
      /\ \A k \in 1..Len(p) : q[k] = p[k]
    BY <1>1 DEF Apart
<1>3. 1..Len(q) = 1..Len(p) \cup {Len(p) + 1}
    BY <1>2
<1> HIDE DEF q
<1>4. ASSUME NEW l \in Lanes PROVE OfLane(q, l) = OfLane(p, l)
  <2>1. \A k \in 1..Len(q) : q[k].t = "ack" => k \in 1..Len(p)
      BY <1>1, <1>2, <1>3
  <2>2. {k \in 1..Len(q) : q[k].t = "ack" /\ q[k].lane = l} = {k \in 1..Len(p) : p[k].t = "ack" /\ p[k].lane = l}
      BY <1>2, <1>3, <2>1
  <2> QED
      BY <1>2, <2>2 DEF OfLane
<1>5. Apart(q)
    BY <1>1, <1>2, <1>3 DEF Apart
<1> QED
    BY <1>0, <1>4, <1>5

\* The first item is taken off.
LEMMA OnWritten ==
    ASSUME NEW p, Apart(p), p # <<>>
    PROVE  /\ Apart(Tail(p)) /\ Head(p) \in Item
           /\ Head(p).t = "ack" => /\ Head(p).lane \in Lanes /\ Head(p).of \in SUBSET Frame
                                   /\ OfLane(p, Head(p).lane) = OfLane(Tail(p), Head(p).lane) \cup Head(p).of
                                   /\ OfLane(Tail(p), Head(p).lane) \cap Head(p).of = {}
           /\ \A l \in Lanes : Head(p).t # "ack" \/ l # Head(p).lane => OfLane(Tail(p), l) = OfLane(p, l)
<1> DEFINE i == Head(p)
           q == Tail(p)
<1>1. /\ p \in Seq(Item) /\ q \in Seq(Item) /\ Len(q) = Len(p) - 1 /\ Len(p) \in Nat \ {0} /\ p[1] = i /\ i \in Item
      /\ \A k \in 1..Len(q) : q[k] = p[k + 1] /\ k + 1 \in 1..Len(p)
    BY DEF Apart
<1>2. \A k \in 1..Len(p) : k = 1 \/ (k - 1 \in 1..Len(q) /\ p[k] = q[k - 1])
    BY <1>1
<1>3. i.t = "ack" => i.lane \in Lanes /\ i.of \in SUBSET Frame
    BY <1>1, OnItem, Zenon
<1> HIDE DEF i, q
<1>4. ASSUME NEW l \in Lanes PROVE OfLane(p, l) = OfLane(q, l) \cup (IF i.t = "ack" /\ i.lane = l THEN i.of ELSE {})
  <2>1. ASSUME NEW f \in OfLane(p, l) PROVE f \in OfLane(q, l) \/ (i.t = "ack" /\ i.lane = l /\ f \in i.of)
    <3>1. PICK k \in 1..Len(p) : p[k].t = "ack" /\ p[k].lane = l /\ f \in p[k].of
        BY DEF OfLane
    <3>2. CASE k = 1
        BY <1>1, <3>1, <3>2
    <3>3. CASE k - 1 \in 1..Len(q) /\ p[k] = q[k - 1]
        BY <3>1, <3>3 DEF OfLane
    <3> QED
        BY <1>2, <3>2, <3>3
  <2>2. ASSUME NEW f \in OfLane(q, l) PROVE f \in OfLane(p, l)
    <3>1. PICK k \in 1..Len(q) : q[k].t = "ack" /\ q[k].lane = l /\ f \in q[k].of
        BY DEF OfLane
    <3> QED
        BY <1>1, <3>1 DEF OfLane
  <2>3. ASSUME i.t = "ack", i.lane = l, NEW f \in i.of PROVE f \in OfLane(p, l)
    <3>1. 1 \in 1..Len(p)
        BY <1>1
    <3> QED
        BY <1>1, <2>3, <3>1 DEF OfLane
  <2> QED
      BY <2>1, <2>2, <2>3
<1>5. Apart(q)
  <2>1. \A k \in 1..Len(q) : q[k].t = "ack" => \A f \in q[k].of : f.lane = q[k].lane
      BY <1>1 DEF Apart
  <2>2. ASSUME NEW j \in 1..Len(q), NEW k \in 1..Len(q), j # k, q[j].t = "ack", q[k].t = "ack"
        PROVE  q[j].of \cap q[k].of = {}
    <3>1. j + 1 \in 1..Len(p) /\ k + 1 \in 1..Len(p) /\ j + 1 # k + 1 /\ q[j] = p[j + 1] /\ q[k] = p[k + 1]
        BY <1>1, <2>2
    <3> QED
        BY <2>2, <3>1 DEF Apart
  <2> QED
      BY <1>1, <2>1, <2>2 DEF Apart
<1>6. ASSUME i.t = "ack", NEW l \in Lanes, NEW f \in OfLane(q, l), f \in i.of PROVE FALSE
  <2>1. PICK k \in 1..Len(q) : q[k].t = "ack" /\ f \in q[k].of
      BY DEF OfLane
  <2>2. k + 1 \in 1..Len(p) /\ 1 \in 1..Len(p) /\ k + 1 # 1 /\ p[k + 1] = q[k] /\ p[1] = i
      BY <1>1
  <2>3. p[1].of \cap p[k + 1].of = {}
      BY <1>6, <2>1, <2>2 DEF Apart
  <2> QED
      BY <1>6, <2>1, <2>2, <2>3
<1>7. i.t = "ack" => OfLane(p, i.lane) = OfLane(q, i.lane) \cup i.of /\ OfLane(q, i.lane) \cap i.of = {}
    BY <1>3, <1>4, <1>6
<1>8. \A l \in Lanes : i.t # "ack" \/ l # i.lane => OfLane(q, l) = OfLane(p, l)
    BY <1>4
<1> QED
    BY <1>1, <1>3, <1>5, <1>7, <1>8 DEF i, q

\* An ack for each lane of fr is queued.
LEMMA OnAcks ==
    ASSUME NEW p, Apart(p), NEW fr, DOMAIN fr \subseteq Lanes,
           \A l \in DOMAIN fr : fr[l] \in SUBSET Frame /\ (\A f \in fr[l] : f.lane = l) /\ fr[l] \cap OfLane(p, l) = {}
    PROVE  /\ Apart(p \o Acks(fr))
           /\ \A l \in Lanes : OfLane(p \o Acks(fr), l) = OfLane(p, l) \cup (IF l \in DOMAIN fr THEN fr[l] ELSE {})
<1> DEFINE one(l) == IF l \in DOMAIN fr THEN <<Ack(l, fr[l])>> ELSE <<>>
           q == p \o one("cold")
           r == q \o one("fast")
<1>1. \A l \in DOMAIN fr : l \in Lanes /\ Ack(l, fr[l]) \in Item
    BY OnItem
<1>2. one("cold") \in Seq(Item) /\ one("fast") \in Seq(Item) /\ p \in Seq(Item)
    BY <1>1 DEF Apart
<1>3. p \o Acks(fr) = r
  <2>1. Acks(fr) = one("cold") \o one("fast")
      BY DEF Acks
  <2> HIDE DEF one
  <2>2. p \o (one("cold") \o one("fast")) = (p \o one("cold")) \o one("fast")
      BY <1>2
  <2> QED
      BY <2>1, <2>2
<1>4. /\ Apart(q) /\ \A l \in Lanes : OfLane(q, l) = OfLane(p, l) \cup (IF l = "cold" /\ l \in DOMAIN fr THEN fr[l] ELSE {})
  <2>1. CASE "cold" \in DOMAIN fr
    <3>1. q = Append(p, Ack("cold", fr["cold"]))
        BY <1>1, <1>2, <2>1
    <3>2. "cold" \in Lanes /\ fr["cold"] \in SUBSET Frame /\ (\A f \in fr["cold"] : f.lane = "cold") /\ fr["cold"] \cap OfLane(p, "cold") = {}
        BY <1>1, <2>1
    <3> HIDE DEF q
    <3> QED
        BY <2>1, <3>1, <3>2, OnAck
  <2>2. CASE "cold" \notin DOMAIN fr
    <3>1. q = p
        BY <1>2, <2>2
    <3> HIDE DEF q
    <3> QED
        BY <2>2, <3>1
  <2> QED
      BY <2>1, <2>2
<1>5. q \in Seq(Item)
    BY <1>4 DEF Apart
<1> HIDE DEF q
<1>6. /\ Apart(r) /\ \A l \in Lanes : OfLane(r, l) = OfLane(q, l) \cup (IF l = "fast" /\ l \in DOMAIN fr THEN fr[l] ELSE {})
  <2>1. CASE "fast" \in DOMAIN fr
    <3>1. r = Append(q, Ack("fast", fr["fast"]))
        BY <1>1, <1>5, <2>1
    <3>2. "fast" \in Lanes /\ fr["fast"] \in SUBSET Frame /\ (\A f \in fr["fast"] : f.lane = "fast") /\ fr["fast"] \cap OfLane(q, "fast") = {}
        BY <1>1, <1>4, <2>1
    <3> HIDE DEF r
    <3> QED
        BY <1>4, <2>1, <3>1, <3>2, OnAck
  <2>2. CASE "fast" \notin DOMAIN fr
    <3>1. r = q
        BY <1>5, <2>2
    <3> HIDE DEF r
    <3> QED
        BY <1>4, <2>2, <3>1
  <2> QED
      BY <2>1, <2>2
<1> HIDE DEF r
<1>7. \A l \in Lanes : l = "cold" \/ l = "fast"
    BY DEF Lanes
<1> QED
    BY <1>3, <1>4, <1>6, <1>7

-----------------------------------------------------------------------------
(* The places of a frame.                                                  *)

Waits(l) == Socks(l) \cup ToSet(queue[l]) \cup Tasked(l)

\* What is not credited waits in one of the agents' places or has its ack under way.
LEMMA UncreditedIs ==
    ASSUME NEW l \in Lanes
    PROVE  Uncredited(l) = Waits(l) \cup OfLane(prio, l) /\ Uncredited(l)' = Waits(l)' \cup OfLane(prio', l)
<1> DEFINE D == {f \in stale : f.lane = l}
<1>1. Uncredited(l) = Waits(l) \cup OfLane(prio, l)
  <2>1. Uncredited(l) = Socks(l) \cup ToSet(queue[l]) \cup Carried(l) \cup D \cup OfLane(prio, l)
      BY Zenon DEF Uncredited, Socks, Carried, OfLane
  <2>2. Waits(l) = Socks(l) \cup ToSet(queue[l]) \cup (Carried(l) \cup D)
      BY Zenon DEF Waits, Tasked
  <2> HIDE DEF D
  <2> QED
      BY <2>1, <2>2
<1>2. Uncredited(l)' = Waits(l)' \cup OfLane(prio', l)
  <2>1. Uncredited(l)' = Socks(l)' \cup ToSet(queue'[l]) \cup Carried(l)' \cup D' \cup OfLane(prio', l)
      BY Zenon DEF Uncredited, Socks, Carried, OfLane
  <2>2. Waits(l)' = Socks(l)' \cup ToSet(queue'[l]) \cup (Carried(l)' \cup D')
      BY Zenon DEF Waits, Tasked
  <2> HIDE DEF D
  <2> QED
      BY <2>1, <2>2
<1> QED
    BY <1>1, <1>2

\* A socket that is as before.
LEMMA SocksSame == ASSUME sock' = sock PROVE \A l \in Lanes : Socks(l)' = Socks(l)
BY DEF Socks

\* A lane's task as before.
LEMMA TaskedSame == ASSUME NEW l \in Lanes, task'[l] = task[l], stale' = stale PROVE Tasked(l)' = Tasked(l)
BY DEF Tasked, Carried

\* With nothing drained there is only the task.
LEMMA TaskedOnly ==
    ASSUME NEW l \in Lanes
    PROVE  (stale = {} => Tasked(l) = Carried(l)) /\ (stale' = {} => Tasked(l)' = Carried(l)')
BY DEF Tasked

\* The tasks run when nothing is left of the drains.
LEMMA UpIsClean == ASSUME Draining, phase = "up" PROVE stale = {}
BY DEF Draining, Frame, Lanes

\* What a task with a frame, and one without, has.
LEMMA CarriedIs ==
    ASSUME Inv, NEW l \in Lanes
    PROVE  /\ task[l] = <<>> => Carried(l) = {}
           /\ task[l] # <<>> => Carried(l) = {task[l][1].f} /\ task[l][1].f \in Frame
<1>1. CASE task[l] = <<>>
    BY <1>1 DEF Carried
<1>2. CASE task[l] # <<>>
  <2>1. Len(task[l]) = 1
    <3>1. task \in [Lanes -> Seq(Holding)] /\ Len(task[l]) <= 1
        BY DEF Inv, Shape
    <3> QED
        BY <1>2, <3>1, OneHolding, Zenon
  <2>2. Carried(l) = {task[l][1].f}
      BY <2>1 DEF Carried
  <2>3. task[l][1].f \in Frame
      BY <1>2, TaskHolds DEF Inv
  <2> QED
      BY <1>2, <2>2, <2>3
<1> QED
    BY <1>1, <1>2

\* The same after a step.
LEMMA CarriedNext ==
    ASSUME NEW l \in Lanes
    PROVE  (task'[l] = <<>> => Carried(l)' = {}) /\ \A h : task'[l] = <<h>> => Carried(l)' = {h.f}
<1>1. task'[l] = <<>> => Carried(l)' = {}
    BY DEF Carried
<1>2. ASSUME NEW h, task'[l] = <<h>> PROVE Carried(l)' = {h.f}
  <2>1. Len(task'[l]) = 1 /\ task'[l][1] = h
      BY <1>2
  <2> QED
      BY <2>1 DEF Carried
<1> QED
    BY <1>1, <1>2

\* The frames of a lane are frames.
LEMMA AreFrames ==
    ASSUME Places, NEW l \in Lanes
    PROVE  Uncredited(l) \in SUBSET Frame /\ Mine(l) \in SUBSET Frame /\ \A f \in Uncredited(l) : f.lane = l
BY DEF Places, OnePlace, Mine

\* A step that adds no frame to a lane.
LEMMA PlacesKept ==
    ASSUME Places, Apart(prio'), UNCHANGED <<sent, addon>>,
           \A l \in Lanes : /\ Socks(l)' \cap (ToSet(queue'[l]) \cup Tasked(l)') = {} /\ ToSet(queue'[l]) \cap Tasked(l)' = {}
                            /\ Waits(l)' \cap OfLane(prio', l) = {}
                            /\ Waits(l)' \cup OfLane(prio', l) \subseteq Waits(l) \cup OfLane(prio, l)
    PROVE  Places' /\ \A l \in Lanes : Uncredited(l)' \subseteq Uncredited(l)
<1>1. ASSUME NEW l \in Lanes PROVE OnePlace(l)' /\ Uncredited(l)' \subseteq Uncredited(l)
  <2>1. Uncredited(l)' \subseteq Uncredited(l)
      BY UncreditedIs
  <2>2. \A f \in Uncredited(l)' : f \in Frame /\ f.lane = l /\ f.n <= sent' /\ f.own <= addon'
      BY <2>1 DEF Places, OnePlace
  <2>3. (Socks(l)' \cup ToSet(queue'[l]) \cup Tasked(l)') \cap OfLane(prio', l) = {}
      BY DEF Waits
  <2> QED
      BY <2>1, <2>2, <2>3 DEF OnePlace
<1> QED
    BY <1>1 DEF Places

\* The frames of one lane are in one place each.
LEMMA PlacesOf ==
    ASSUME Places, NEW l \in Lanes
    PROVE  /\ Apart(prio)
           /\ Socks(l) \cap (ToSet(queue[l]) \cup Tasked(l)) = {} /\ ToSet(queue[l]) \cap Tasked(l) = {}
           /\ Waits(l) \cap OfLane(prio, l) = {}
BY DEF Places, OnePlace, Waits

-----------------------------------------------------------------------------
(* The counters.                                                           *)

\* A part of what fits the window does.
LEMMA FitsPart ==
    ASSUME NEW T \in SUBSET Frame, NEW S, S \subseteq T, Fits(T)
    PROVE  Fits(S) /\ CostOf(S) <= CostOf(T) /\ CostOf(S) \in Nat /\ CostOf(T) \in Nat
<1>0. CostOf(S) <= CostOf(T) /\ CostOf(S) \in Nat /\ CostOf(T) \in Nat /\ Window \in Nat
    BY CostBounds, LinkAssumption
<1>1. CASE CostOf(T) <= Window
    BY <1>0, <1>1 DEF Fits
<1>2. CASE Cardinality(T) = 1
  <2>1. PICK x : T = {x}
      BY <1>2, FramesFinite, FS_Singleton
  <2>2. S = {} \/ S = T
      BY <2>1
  <2>3. CASE S = {}
      BY <1>0, <2>3, CostStep DEF Fits
  <2> QED
      BY <1>0, <2>2, <2>3
<1> QED
    BY <1>0, <1>1, <1>2 DEF Fits

\* A step of which the addon is not told: what is under way becomes less only
\* by what is written down as lost, or the addon is no longer the one attached.
LEMMA CountersKept ==
    ASSUME Places, Counters, UNCHANGED <<addon, out>>, live' => live, lost' \in [Lanes -> Nat],
           \A l \in Lanes : Uncredited(l)' \subseteq Uncredited(l),
           live' /\ sink' = addon' => /\ sink = addon
                                      /\ \A l \in Lanes : CostOf(Mine(l)) + lost[l] <= CostOf(Mine(l)') + lost'[l]
    PROVE  Counters'
<1>1. ASSUME NEW l \in Lanes PROVE Counted(l)'
  <2>0. Counted(l) /\ out[l] \in Nat /\ lost[l] \in Nat /\ lost'[l] \in Nat /\ out'[l] = out[l]
      BY DEF Counters
  <2>1. Mine(l)' \subseteq Mine(l) /\ Mine(l) \in SUBSET Frame
      BY AreFrames DEF Mine
  <2>2. CostOf(Mine(l)) \in Nat /\ CostOf(Mine(l)') \in Nat /\ CostOf(Mine(l)') <= CostOf(Mine(l))
      BY <2>1, CostBounds
  <2>3. live' /\ sink' = addon' => out'[l] <= CostOf(Mine(l)') + lost'[l]
      BY <2>0, <2>2 DEF Counted
  <2>4. ASSUME addon' = 1, live' PROVE CostOf(Mine(l)') <= out'[l] /\ Fits(Mine(l)')
    <3>1. CostOf(Mine(l)) <= out[l] /\ Fits(Mine(l))
        BY <2>0, <2>4 DEF Counted
    <3>2. Fits(Mine(l)')
        BY <2>1, <3>1, FitsPart
    <3> QED
        BY <2>0, <2>2, <3>1, <3>2
  <2>5. Fits(Mine(l))' <=> Fits(Mine(l)')
      BY DEF Fits
  <2>6. CostOf(Mine(l))' = CostOf(Mine(l)')
      OBVIOUS
  <2> QED
      BY <2>3, <2>4, <2>5, <2>6 DEF Counted
<1> QED
    BY <1>1 DEF Counters

\* A step that moves frames between places.
LEMMA CountersMoved ==
    ASSUME Places, Counters, UNCHANGED <<addon, out, lost>>, live' => live,
           \A l \in Lanes : Uncredited(l)' = Uncredited(l), live' /\ sink' = addon' => sink = addon
    PROVE  Counters'
<1>1. lost' \in [Lanes -> Nat]
    BY DEF Counters
<1>2. ASSUME NEW l \in Lanes PROVE CostOf(Mine(l)) + lost[l] <= CostOf(Mine(l)') + lost'[l]
  <2>1. Mine(l)' = Mine(l) /\ lost[l] \in Nat /\ CostOf(Mine(l)) \in Nat
      BY AreFrames, CostStep DEF Mine, Counters
  <2> QED
      BY <2>1
<1> QED
    BY <1>1, <1>2, CountersKept

-----------------------------------------------------------------------------
(* One lemma for each step.                                                *)

Credit == Places /\ Counters

\* A step of events, of the wire or of the replica, which no credit hangs on.
LEMMA StayCredit ==
    ASSUME Credit, UNCHANGED <<sent, addon, out, lost, sock, queue>>, \A l \in Lanes : Tasked(l)' = Tasked(l),
           Apart(prio'), \A l \in Lanes : OfLane(prio', l) = OfLane(prio, l), live' => live, sink' = sink
    PROVE  Credit'
<1>1. ASSUME NEW l \in Lanes
      PROVE  Waits(l)' = Waits(l) /\ Uncredited(l)' = Uncredited(l) /\ Socks(l)' = Socks(l) /\ Tasked(l)' = Tasked(l) /\ queue'[l] = queue[l]
  <2>1. Socks(l)' = Socks(l) /\ Tasked(l)' = Tasked(l) /\ ToSet(queue'[l]) = ToSet(queue[l])
      BY SocksSame
  <2>2. Waits(l)' = Waits(l)
      BY <2>1 DEF Waits
  <2> QED
      BY <2>1, <2>2, UncreditedIs
<1>2. Places'
  <2>1. ASSUME NEW l \in Lanes
        PROVE  /\ Socks(l)' \cap (ToSet(queue'[l]) \cup Tasked(l)') = {} /\ ToSet(queue'[l]) \cap Tasked(l)' = {}
               /\ Waits(l)' \cap OfLane(prio', l) = {}
               /\ Waits(l)' \cup OfLane(prio', l) \subseteq Waits(l) \cup OfLane(prio, l)
      BY <1>1, PlacesOf DEF Credit
  <2> QED
      BY <2>1, PlacesKept DEF Credit
<1>3. Counters'
    BY <1>1, CountersMoved DEF Credit
<1> QED
    BY <1>2, <1>3 DEF Credit

\* A step that passes frames of a lane on from place to place.
LEMMA MoveCredit ==
    ASSUME Credit, UNCHANGED <<sent, addon, out, lost, live, sink>>, Apart(prio'),
           \A l \in Lanes : /\ Socks(l)' \cap (ToSet(queue'[l]) \cup Tasked(l)') = {} /\ ToSet(queue'[l]) \cap Tasked(l)' = {}
                            /\ Waits(l)' \cap OfLane(prio', l) = {}
                            /\ Waits(l)' \cup OfLane(prio', l) = Waits(l) \cup OfLane(prio, l)
    PROVE  Credit'
<1>1. \A l \in Lanes : Uncredited(l)' = Uncredited(l)
    BY UncreditedIs
<1>2. Places'
    BY PlacesKept DEF Credit
<1>3. Counters'
    BY <1>1, CountersMoved DEF Credit
<1> QED
    BY <1>2, <1>3 DEF Credit

\* The head of a queue is not in it twice.
LEMMA OnHead ==
    ASSUME NEW q \in Seq(Frame), q # <<>>, InOrder(q)
    PROVE  Head(q) \in Frame /\ Head(q) \in ToSet(q) /\ ToSet(Tail(q)) = ToSet(q) \ {Head(q)}
<1>1. /\ Head(q) \in Frame /\ ToSet(q) = ToSet(Tail(q)) \cup {Head(q)} /\ Before({Head(q)}, ToSet(Tail(q)))
    BY OnTail, Zenon
<1>2. Head(q).n \in Nat
    BY <1>1 DEF Frame
<1>3. Head(q) \notin ToSet(Tail(q))
    BY <1>1, <1>2 DEF Before
<1> QED
    BY <1>1, <1>3

\* A frame is appended to a queue.
LEMMA OnPut == ASSUME NEW q \in Seq(Frame), NEW f \in Frame PROVE ToSet(Append(q, f)) = ToSet(q) \cup {f}
<1> DEFINE r == Append(q, f)
<1>1. Len(r) = Len(q) + 1 /\ DOMAIN r = 1..Len(q) + 1 /\ DOMAIN q = 1..Len(q) /\ Len(q) \in Nat
    OBVIOUS
<1>2. r[Len(q) + 1] = f /\ \A i \in 1..Len(q) : r[i] = q[i]
    OBVIOUS
<1> HIDE DEF r
<1>3. ToSet(r) \subseteq ToSet(q) \cup {f}
    BY <1>1, <1>2 DEF ToSet
<1>4. ToSet(q) \subseteq ToSet(r) /\ f \in ToSet(r)
    BY <1>1, <1>2 DEF ToSet
<1> QED
    BY <1>3, <1>4 DEF r

\* A frame is read from the socket of a: into the lane's queue, or credited back.
LEMMA ReadFrameCredit == ASSUME Inv, Credit, NEW a \in Addons, ReadFrame(a) PROVE Credit'
<1>a. PICK f : f = Head(sock[a])
    OBVIOUS
<1>b. PICK l : l = f.lane
    OBVIOUS
<1>0. sock \in [Addons -> Seq(Frame)] /\ queue \in [Lanes -> Seq(Frame)] /\ (\A b \in Addons : SockOrder(b))
    BY DEF Inv, Shape
<1>1. /\ sock[a] # <<>> /\ sock' = [sock EXCEPT ![a] = Tail(@)]
      /\ \/ queue' = [queue EXCEPT ![l] = Append(@, f)] /\ prio' = prio
         \/ queue' = queue /\ prio' = Append(prio, Ack(l, {f}))
      /\ UNCHANGED <<sent, addon, out, lost, live, sink, task, stale>>
    BY <1>a, <1>b DEF ReadFrame, addonVars
<1>2. f \in Frame /\ f \in ToSet(sock[a]) /\ ToSet(Tail(sock[a])) = ToSet(sock[a]) \ {f} /\ l \in Lanes
  <2>1. sock[a] \in Seq(Frame) /\ InOrder(sock[a])
      BY <1>0 DEF SockOrder
  <2>2. f \in Frame /\ f \in ToSet(sock[a]) /\ ToSet(Tail(sock[a])) = ToSet(sock[a]) \ {f}
      BY <1>a, <1>1, <2>1, OnHead
  <2> QED
      BY <1>b, <2>2 DEF Frame
<1>3. sock'[a] = Tail(sock[a]) /\ \A b \in Addons \ {a} : sock'[b] = sock[b]
    BY <1>0, <1>1
<1>4. \A b \in Addons \ {a} : f \notin ToSet(sock[b])
    BY <1>0, <1>2 DEF SockOrder
<1>5. Socks(l)' = Socks(l) \ {f} /\ f \in Socks(l) /\ \A k \in Lanes \ {l} : Socks(k)' = Socks(k)
  <2>1. \A b \in Addons : ToSet(sock'[b]) = ToSet(sock[b]) \ {f}
      BY <1>2, <1>3, <1>4
  <2>2. f \in Socks(l)
      BY <1>b, <1>2 DEF Socks
  <2>3. \A k \in Lanes : Socks(k)' = Socks(k) \ {f}
      BY <2>1 DEF Socks
  <2>4. \A k \in Lanes \ {l} : f \notin Socks(k)
      BY <1>b DEF Socks
  <2> QED
      BY <1>2, <2>2, <2>3, <2>4
<1>6. \A k \in Lanes : Tasked(k)' = Tasked(k)
    BY <1>1, TaskedSame
<1>7. f \notin ToSet(queue[l]) \cup Tasked(l) \cup OfLane(prio, l)
    BY <1>2, <1>5, PlacesOf DEF Credit, Waits
<1>8. CASE queue' = [queue EXCEPT ![l] = Append(@, f)] /\ prio' = prio
  <2>1. ToSet(queue'[l]) = ToSet(queue[l]) \cup {f} /\ \A k \in Lanes \ {l} : queue'[k] = queue[k]
    <3>1. queue'[l] = Append(queue[l], f) /\ (\A k \in Lanes \ {l} : queue'[k] = queue[k]) /\ queue[l] \in Seq(Frame)
        BY <1>0, <1>2, <1>8
    <3> QED
        BY <1>2, <3>1, OnPut
  <2>2. ASSUME NEW k \in Lanes
        PROVE  /\ Socks(k)' \cap (ToSet(queue'[k]) \cup Tasked(k)') = {} /\ ToSet(queue'[k]) \cap Tasked(k)' = {}
               /\ Waits(k)' = Waits(k)
    <3>1. CASE k = l
        BY <1>5, <1>6, <1>7, <2>1, <3>1, PlacesOf DEF Credit, Waits
    <3>2. CASE k # l
        BY <1>5, <1>6, <2>1, <3>2, PlacesOf DEF Credit, Waits
    <3> QED
        BY <3>1, <3>2
  <2>3. Apart(prio') /\ \A k \in Lanes : Waits(k)' \cap OfLane(prio', k) = {} /\ OfLane(prio', k) = OfLane(prio, k)
      BY <1>2, <1>8, <2>2, PlacesOf DEF Credit
  <2> QED
      BY <1>1, <2>2, <2>3, MoveCredit
<1>9. CASE queue' = queue /\ prio' = Append(prio, Ack(l, {f}))
  <2>1. /\ Apart(prio') /\ OfLane(prio', l) = OfLane(prio, l) \cup {f}
        /\ \A k \in Lanes \ {l} : OfLane(prio', k) = OfLane(prio, k)
    <3>1. Apart(prio) /\ {f} \in SUBSET Frame /\ (\A g \in {f} : g.lane = l) /\ {f} \cap OfLane(prio, l) = {}
        BY <1>b, <1>2, <1>7, PlacesOf DEF Credit
    <3> QED
        BY <1>2, <1>9, <3>1, OnAck
  <2>2. ASSUME NEW k \in Lanes
        PROVE  /\ Socks(k)' \cap (ToSet(queue'[k]) \cup Tasked(k)') = {} /\ ToSet(queue'[k]) \cap Tasked(k)' = {}
               /\ Waits(k)' \cap OfLane(prio', k) = {}
               /\ Waits(k)' \cup OfLane(prio', k) = Waits(k) \cup OfLane(prio, k)
    <3>1. CASE k = l
      <4>1. Waits(k)' = Waits(k) \ {f} /\ f \in Waits(k)
          BY <1>5, <1>6, <1>7, <1>9, <3>1 DEF Waits
      <4>2. Waits(k)' \cap OfLane(prio', k) = {} /\ Waits(k)' \cup OfLane(prio', k) = Waits(k) \cup OfLane(prio, k)
          BY <2>1, <3>1, <4>1, PlacesOf DEF Credit
      <4>3. Socks(k)' \cap (ToSet(queue'[k]) \cup Tasked(k)') = {} /\ ToSet(queue'[k]) \cap Tasked(k)' = {}
          BY <1>5, <1>6, <1>9, <3>1, PlacesOf DEF Credit
      <4> QED
          BY <4>2, <4>3
    <3>2. CASE k # l
      <4>1. Waits(k)' = Waits(k)
          BY <1>5, <1>6, <1>9, <3>2 DEF Waits
      <4> QED
          BY <1>5, <1>6, <1>9, <2>1, <3>2, <4>1, PlacesOf DEF Credit
    <3> QED
        BY <3>1, <3>2
  <2> QED
      BY <1>1, <2>1, <2>2, MoveCredit
<1> QED
    BY <1>1, <1>8, <1>9

\* The task takes the head of the queue.
LEMMA TakeFrameCredit == ASSUME Inv, Draining, Credit, NEW l \in Lanes, TakeFrame(l) PROVE Credit'
<1> DEFINE f == Head(queue[l])
           h == [f |-> f, st |-> IF l = "cold" THEN "ack" ELSE "send"]
<1>0. queue \in [Lanes -> Seq(Frame)] /\ task \in [Lanes -> Seq(Holding)] /\ LaneOrder(l)
    BY DEF Inv, Shape
<1>1. /\ task[l] = <<>> /\ queue[l] # <<>> /\ task' = [task EXCEPT ![l] = <<h>>]
      /\ queue' = [queue EXCEPT ![l] = Tail(@)]
      /\ UNCHANGED <<sent, addon, out, lost, live, sink, sock, prio, stale>>
    BY DEF TakeFrame, addonVars, linkVars
<1>s. stale = {}
    BY UpIsClean DEF TakeFrame
<1>2. f \in Frame /\ f \in ToSet(queue[l]) /\ ToSet(Tail(queue[l])) = ToSet(queue[l]) \ {f} /\ h.f = f
    BY <1>0, <1>1, OnHead DEF LaneOrder
<1> HIDE DEF f, h
<1>3. queue'[l] = Tail(queue[l]) /\ task'[l] = <<h>> /\ \A k \in Lanes \ {l} : queue'[k] = queue[k] /\ task'[k] = task[k]
    BY <1>0, <1>1
<1>4. Tasked(l) = {} /\ Tasked(l)' = {f} /\ \A k \in Lanes \ {l} : Tasked(k)' = Tasked(k)
    BY <1>1, <1>2, <1>3, <1>s, CarriedIs, CarriedNext, TaskedOnly, TaskedSame
<1>5. \A k \in Lanes : Socks(k)' = Socks(k)
    BY <1>1, SocksSame
<1>6. ASSUME NEW k \in Lanes
      PROVE  /\ Socks(k)' \cap (ToSet(queue'[k]) \cup Tasked(k)') = {} /\ ToSet(queue'[k]) \cap Tasked(k)' = {}
             /\ Waits(k)' = Waits(k)
  <2>1. CASE k = l
      BY <1>2, <1>3, <1>4, <1>5, <2>1, PlacesOf DEF Credit, Waits
  <2>2. CASE k # l
      BY <1>3, <1>4, <1>5, <2>2, PlacesOf DEF Credit, Waits
  <2> QED
      BY <2>1, <2>2
<1>7. Apart(prio') /\ \A k \in Lanes : Waits(k)' \cap OfLane(prio', k) = {} /\ OfLane(prio', k) = OfLane(prio, k)
    BY <1>1, <1>6, PlacesOf DEF Credit
<1> QED
    BY <1>1, <1>6, <1>7, MoveCredit

\* The fast task has written its frame, and keeps it until it is credited.
LEMMA WriteWireCredit == ASSUME Inv, Credit, NEW l \in Lanes, WriteWire(l) PROVE Credit'
<1>0. task \in [Lanes -> Seq(Holding)] /\ Len(task[l]) <= 1
    BY DEF Inv, Shape
<1>1. /\ task[l] # <<>> /\ task' = [task EXCEPT ![l][1].st = "ack"]
      /\ UNCHANGED <<sent, addon, out, lost, live, sink, sock, queue, prio, stale>>
    BY DEF WriteWire, addonVars, linkVars
<1>2. Len(task[l]) = 1 /\ task[l] \in Seq(Holding)
    BY <1>0, <1>1, OneHolding, Zenon
<1>3. \A k \in Lanes \ {l} : task'[k] = task[k]
    BY <1>0, <1>1
<1>4. Len(task'[l]) = 1 /\ task'[l][1].f = task[l][1].f
  <2>1. task'[l] = [task[l] EXCEPT ![1] = [task[l][1] EXCEPT !.st = "ack"]]
      BY <1>0, <1>1
  <2>2. task[l][1] \in Holding
      BY <1>2
  <2>3. [task[l][1] EXCEPT !.st = "ack"] \in Holding /\ [task[l][1] EXCEPT !.st = "ack"].f = task[l][1].f
      BY <2>2 DEF Holding, Stage
  <2> QED
      BY <1>2, <2>1, <2>3
<1>5. Tasked(l)' = Tasked(l)
  <2>1. Carried(l)' = Carried(l)
      BY <1>2, <1>4 DEF Carried
  <2> QED
      BY <1>1, <2>1 DEF Tasked
<1>6. \A k \in Lanes : Tasked(k)' = Tasked(k)
    BY <1>1, <1>3, <1>5, TaskedSame
<1>7. Apart(prio') /\ \A k \in Lanes : OfLane(prio', k) = OfLane(prio, k)
    BY <1>1, PlacesOf DEF Credit, Places
<1> QED
    BY <1>1, <1>6, <1>7, StayCredit

\* The task's frame is credited.
LEMMA AckFrameCredit == ASSUME Inv, Draining, Credit, NEW l \in Lanes, AckFrame(l) PROVE Credit'
<1> DEFINE f == task[l][1].f
<1>0. task \in [Lanes -> Seq(Holding)]
    BY DEF Inv, Shape
<1>1. /\ task[l] # <<>> /\ task' = [task EXCEPT ![l] = <<>>] /\ prio' = Append(prio, Ack(l, {f}))
      /\ UNCHANGED <<sent, addon, out, lost, live, sink, sock, queue, stale>>
    BY DEF AckFrame, addonVars, linkVars
<1>s. stale = {}
    BY UpIsClean DEF AckFrame
<1>2. Tasked(l) = {f} /\ f \in Frame
    BY <1>1, <1>s, CarriedIs, TaskedOnly
<1> HIDE DEF f
<1>3. Tasked(l)' = {} /\ \A k \in Lanes \ {l} : Tasked(k)' = Tasked(k)
    BY <1>0, <1>1, <1>s, CarriedNext, TaskedOnly, TaskedSame
<1>4. \A k \in Lanes : Socks(k)' = Socks(k)
    BY <1>1, SocksSame
<1>5. /\ Apart(prio') /\ OfLane(prio', l) = OfLane(prio, l) \cup {f}
      /\ \A k \in Lanes \ {l} : OfLane(prio', k) = OfLane(prio, k)
  <2>1. f \in Uncredited(l)
      BY <1>2, UncreditedIs DEF Waits
  <2>2. Apart(prio) /\ {f} \in SUBSET Frame /\ (\A g \in {f} : g.lane = l) /\ {f} \cap OfLane(prio, l) = {}
      BY <1>2, <2>1, PlacesOf, AreFrames DEF Credit, Waits
  <2> QED
      BY <1>1, <2>2, OnAck
<1>6. ASSUME NEW k \in Lanes
      PROVE  /\ Socks(k)' \cap (ToSet(queue'[k]) \cup Tasked(k)') = {} /\ ToSet(queue'[k]) \cap Tasked(k)' = {}
             /\ Waits(k)' \cap OfLane(prio', k) = {}
             /\ Waits(k)' \cup OfLane(prio', k) = Waits(k) \cup OfLane(prio, k)
  <2>1. CASE k = l
    <3>1. Waits(k)' = Waits(k) \ {f} /\ f \in Waits(k)
        BY <1>1, <1>2, <1>3, <1>4, <2>1, PlacesOf DEF Credit, Waits
    <3>2. Waits(k)' \cap OfLane(prio', k) = {} /\ Waits(k)' \cup OfLane(prio', k) = Waits(k) \cup OfLane(prio, k)
        BY <1>5, <2>1, <3>1, PlacesOf DEF Credit
    <3>3. Socks(k)' \cap (ToSet(queue'[k]) \cup Tasked(k)') = {} /\ ToSet(queue'[k]) \cap Tasked(k)' = {}
        BY <1>1, <1>3, <1>4, <2>1, PlacesOf DEF Credit
    <3> QED
        BY <3>2, <3>3
  <2>2. CASE k # l
    <3>1. Waits(k)' = Waits(k)
        BY <1>1, <1>3, <1>4, <2>2 DEF Waits
    <3> QED
        BY <1>1, <1>3, <1>4, <1>5, <2>2, <3>1, PlacesOf DEF Credit
  <2> QED
      BY <2>1, <2>2
<1> QED
    BY <1>1, <1>5, <1>6, MoveCredit

\* A session comes up: what a queue still held is drained.
LEMMA DrainCredit == ASSUME Inv, Credit, NEW l \in Lanes, Drain(l) PROVE Credit'
<1>0. queue \in [Lanes -> Seq(Frame)]
    BY DEF Inv, Shape
<1>1. /\ stale = {} /\ stale' = ToSet(queue[l]) /\ queue' = [queue EXCEPT ![l] = <<>>]
      /\ UNCHANGED <<sent, addon, out, lost, live, sink, sock, task, prio>>
    BY DEF Drain, addonVars, linkVars
<1>2. ToSet(queue'[l]) = {} /\ \A k \in Lanes \ {l} : queue'[k] = queue[k]
    BY <1>0, <1>1, OnEmpty
<1>3. \A f \in ToSet(queue[l]) : f.lane = l
    BY UncreditedIs, AreFrames DEF Credit, Waits
<1>4. \A k \in Lanes : Socks(k)' = Socks(k) /\ Carried(k)' = Carried(k)
    BY <1>1, SocksSame DEF Carried
<1>5. Tasked(l)' = Tasked(l) \cup ToSet(queue[l]) /\ \A k \in Lanes \ {l} : Tasked(k)' = Tasked(k)
    BY <1>1, <1>3, <1>4 DEF Tasked
<1>6. ASSUME NEW k \in Lanes
      PROVE  /\ Socks(k)' \cap (ToSet(queue'[k]) \cup Tasked(k)') = {} /\ ToSet(queue'[k]) \cap Tasked(k)' = {}
             /\ Waits(k)' = Waits(k)
  <2>1. CASE k = l
      BY <1>2, <1>4, <1>5, <2>1, PlacesOf DEF Credit, Waits
  <2>2. CASE k # l
      BY <1>2, <1>4, <1>5, <2>2, PlacesOf DEF Credit, Waits
  <2> QED
      BY <2>1, <2>2
<1>7. Apart(prio') /\ \A k \in Lanes : Waits(k)' \cap OfLane(prio', k) = {} /\ OfLane(prio', k) = OfLane(prio, k)
    BY <1>1, <1>6, PlacesOf DEF Credit
<1> QED
    BY <1>1, <1>6, <1>7, MoveCredit

\* What was drained is credited back.
LEMMA AckStaleCredit == ASSUME Inv, Draining, Credit, AckStale PROVE Credit'
<1>a. PICK l \in Lanes : l = phase
    BY DEF AckStale, Draining, Frame
<1>1. /\ stale # {} /\ prio' = Append(prio, Ack(l, stale)) /\ stale' = {}
      /\ UNCHANGED <<sent, addon, out, lost, live, sink, sock, queue, task>>
    BY <1>a DEF AckStale, addonVars, linkVars
<1>2. stale \in SUBSET Frame /\ (\A f \in stale : f.lane = l) /\ l \in Lanes
    BY <1>1, <1>a DEF Draining
<1>3. \A k \in Lanes : task[k] = <<>>
  <2>1. phase # "up"
      BY <1>a DEF Lanes
  <2> QED
      BY <2>1 DEF Draining
<1>4. \A k \in Lanes : Carried(k) = {} /\ Carried(k)' = {}
    BY <1>1, <1>3, CarriedIs DEF Carried
<1>5. Tasked(l) = stale /\ Tasked(l)' = {} /\ \A k \in Lanes \ {l} : Tasked(k) = {} /\ Tasked(k)' = {}
    BY <1>1, <1>2, <1>4 DEF Tasked
<1>6. \A k \in Lanes : Socks(k)' = Socks(k) /\ queue'[k] = queue[k]
    BY <1>1, SocksSame
<1>7. /\ Apart(prio') /\ OfLane(prio', l) = OfLane(prio, l) \cup stale
      /\ \A k \in Lanes \ {l} : OfLane(prio', k) = OfLane(prio, k)
  <2>1. Apart(prio) /\ stale \cap OfLane(prio, l) = {}
      BY <1>2, <1>5, PlacesOf DEF Credit, Waits
  <2> QED
      BY <1>1, <1>2, <2>1, OnAck
<1>8. ASSUME NEW k \in Lanes
      PROVE  /\ Socks(k)' \cap (ToSet(queue'[k]) \cup Tasked(k)') = {} /\ ToSet(queue'[k]) \cap Tasked(k)' = {}
             /\ Waits(k)' \cap OfLane(prio', k) = {}
             /\ Waits(k)' \cup OfLane(prio', k) = Waits(k) \cup OfLane(prio, k)
  <2>1. CASE k = l
      BY <1>5, <1>6, <1>7, <2>1, PlacesOf DEF Credit, Waits
  <2>2. CASE k # l
      BY <1>5, <1>6, <1>7, <2>2, PlacesOf DEF Credit, Waits
  <2> QED
      BY <2>1, <2>2
<1> QED
    BY <1>1, <1>7, <1>8, MoveCredit

\* The reader of an addon that has left ends: its frames count for nobody.
LEMMA ReaderEndsCredit == ASSUME Inv, Credit, NEW a \in Addons, ReaderEnds(a) PROVE Credit'
<1>0. sock \in [Addons -> Seq(Frame)] /\ (live => addon # 0)
    BY DEF Inv, Shape
<1>1. /\ sock' = [sock EXCEPT ![a] = <<>>] /\ sink' = 0
      /\ UNCHANGED <<sent, addon, out, lost, live, queue, task, stale, prio>>
    BY DEF ReaderEnds, addonVars, sessVars
<1>2. \A l \in Lanes : Socks(l)' \subseteq Socks(l)
  <2>1. \A b \in Addons : ToSet(sock'[b]) \subseteq ToSet(sock[b])
      BY <1>0, <1>1, OnEmpty
  <2> QED
      BY <2>1 DEF Socks
<1>3. \A l \in Lanes : Tasked(l)' = Tasked(l) /\ queue'[l] = queue[l]
    BY <1>1, TaskedSame
<1>4. ASSUME NEW l \in Lanes
      PROVE  /\ Socks(l)' \cap (ToSet(queue'[l]) \cup Tasked(l)') = {} /\ ToSet(queue'[l]) \cap Tasked(l)' = {}
             /\ Waits(l)' \cap OfLane(prio', l) = {}
             /\ Waits(l)' \cup OfLane(prio', l) \subseteq Waits(l) \cup OfLane(prio, l)
    BY <1>1, <1>2, <1>3, PlacesOf DEF Credit, Waits
<1>5. Places' /\ \A l \in Lanes : Uncredited(l)' \subseteq Uncredited(l)
  <2>1. Apart(prio')
      BY <1>1 DEF Credit, Places
  <2> QED
      BY <1>1, <1>4, <2>1, PlacesKept DEF Credit
<1>6. Counters'
  <2>1. lost' \in [Lanes -> Nat] /\ ~(live' /\ sink' = addon')
      BY <1>0, <1>1 DEF Credit, Counters
  <2> QED
      BY <1>1, <1>5, <2>1, CountersKept DEF Credit
<1> QED
    BY <1>5, <1>6 DEF Credit

\* A session ends: what a task held is credited, or written down as lost, and
\* so is what was drained.
LEMMA EndTasksCredit ==
    ASSUME Inv, Credit, EndTasks, UNCHANGED <<sent, addon, out, live, sink, sock, queue>>
    PROVE  Credit'
<1> DEFINE has == {l \in Lanes : task[l] # <<>>}
           gone(cut, l) == {f \in stale : f.lane = l} \cup {task[k][1].f : k \in cut \cap {l}}
<1>1. PICK fin \in SUBSET has :
         /\ prio' = EventTry(prio \o Acks([l \in fin |-> {task[l][1].f}]), "down")
         /\ lost' = [l \in Lanes |-> lost[l] + CostOf({f \in gone(has \ fin, l) : f.own = addon})]
         /\ task' = [l \in Lanes |-> <<>>] /\ stale' = {}
    BY DEF EndTasks
<1> DEFINE fr == [l \in fin |-> {task[l][1].f}]
           p == prio \o Acks(fr)
           g(l) == gone(has \ fin, l)
           mine(l) == {f \in g(l) : f.own = addon}
<1>2. DOMAIN fr = fin /\ fin \subseteq Lanes /\ fin \subseteq has /\ has \subseteq Lanes /\ \A l \in fin : fr[l] = {task[l][1].f}
    OBVIOUS
<1>3. \A l \in has : Carried(l) = {task[l][1].f} /\ task[l][1].f \in Frame
    BY CarriedIs
<1>4. \A l \in Lanes \ has : Carried(l) = {}
    BY CarriedIs
<1>5. \A l \in Lanes : Tasked(l)' = {} /\ Socks(l)' = Socks(l)
    BY <1>1, CarriedNext, TaskedOnly, SocksSame
<1>6. prio' = EventTry(p, "down") /\ lost' = [l \in Lanes |-> lost[l] + CostOf(mine(l))]
    BY <1>1
<1>g. \A l \in Lanes : Tasked(l) = g(l) \cup (IF l \in fin THEN Carried(l) ELSE {})
  <2>1. ASSUME NEW l \in Lanes PROVE Tasked(l) = g(l) \cup (IF l \in fin THEN Carried(l) ELSE {})
    <3>1. CASE l \in has \ fin
      <4>1. g(l) = {f \in stale : f.lane = l} \cup {task[l][1].f}
          BY <3>1
      <4> QED
          BY <1>3, <3>1, <4>1 DEF Tasked
    <3>2. CASE l \notin has \ fin
      <4>1. g(l) = {f \in stale : f.lane = l}
          BY <3>2
      <4> QED
          BY <1>3, <1>4, <3>2, <4>1 DEF Tasked
    <3> QED
        BY <3>1, <3>2
  <2> QED
      BY <2>1
<1> HIDE DEF has, fr, g
<1>7. Apart(p) /\ \A l \in Lanes : OfLane(p, l) = OfLane(prio, l) \cup (IF l \in fin THEN Carried(l) ELSE {})
  <2>1. ASSUME NEW l \in DOMAIN fr PROVE fr[l] \in SUBSET Frame /\ (\A f \in fr[l] : f.lane = l) /\ fr[l] \cap OfLane(prio, l) = {}
    <3>1. l \in Lanes /\ fr[l] = Carried(l) /\ fr[l] \subseteq Tasked(l) /\ fr[l] \subseteq Uncredited(l)
        BY <1>2, <1>3, <1>g, UncreditedIs DEF Waits
    <3> QED
        BY <3>1, PlacesOf, AreFrames DEF Credit, Waits
  <2>2. Apart(prio) /\ DOMAIN fr \subseteq Lanes
      BY <1>2 DEF Credit, Places
  <2>3. Apart(p) /\ \A l \in Lanes : OfLane(p, l) = OfLane(prio, l) \cup (IF l \in DOMAIN fr THEN fr[l] ELSE {})
      BY <2>1, <2>2, OnAcks
  <2>4. \A l \in fin : fr[l] = Carried(l)
      BY <1>2, <1>3
  <2> HIDE DEF p
  <2> QED
      BY <1>2, <2>3, <2>4
<1> HIDE DEF p
<1>8. Apart(prio') /\ \A l \in Lanes : OfLane(prio', l) = OfLane(prio, l) \cup (IF l \in fin THEN Carried(l) ELSE {})
    BY <1>6, <1>7, OnEvent
<1>9. ASSUME NEW l \in Lanes
      PROVE  /\ Socks(l)' \cap (ToSet(queue'[l]) \cup Tasked(l)') = {} /\ ToSet(queue'[l]) \cap Tasked(l)' = {}
             /\ Waits(l)' \cap OfLane(prio', l) = {}
             /\ Waits(l)' \cup OfLane(prio', l) \subseteq Waits(l) \cup OfLane(prio, l)
  <2>1. ToSet(queue'[l]) = ToSet(queue[l]) /\ (IF l \in fin THEN Carried(l) ELSE {}) \subseteq Tasked(l)
      BY <1>g
  <2> QED
      BY <1>5, <1>8, <2>1, PlacesOf DEF Credit, Waits
<1>10. Places' /\ \A l \in Lanes : Uncredited(l)' \subseteq Uncredited(l)
    BY <1>8, <1>9, PlacesKept DEF Credit
<1>b. \A l \in Lanes : g(l) \in SUBSET Frame /\ mine(l) \in SUBSET Frame /\ CostOf(mine(l)) \in Nat
  <2>1. ASSUME NEW l \in Lanes PROVE g(l) \in SUBSET Frame /\ mine(l) \in SUBSET Frame
    <3>1. g(l) \subseteq Uncredited(l)
        BY <1>g, UncreditedIs DEF Waits
    <3> QED
        BY <3>1, AreFrames DEF Credit
  <2> HIDE DEF mine
  <2> QED
      BY <2>1, CostStep
<1>11. lost \in [Lanes -> Nat] /\ lost' \in [Lanes -> Nat] /\ \A l \in Lanes : lost'[l] = lost[l] + CostOf(mine(l))
  <2>2. lost \in [Lanes -> Nat]
      BY DEF Credit, Counters
  <2> HIDE DEF mine
  <2> QED
      BY <1>6, <1>b, <2>2
<1>12. ASSUME NEW l \in Lanes PROVE CostOf(Mine(l)) + lost[l] <= CostOf(Mine(l)') + lost'[l]
  <2>0. /\ Mine(l) \in SUBSET Frame /\ Mine(l)' \subseteq Mine(l) /\ lost[l] \in Nat
        /\ CostOf(Mine(l)) \in Nat /\ CostOf(Mine(l)') \in Nat
    <3>1. Mine(l) \in SUBSET Frame /\ Mine(l)' \subseteq Mine(l)
        BY <1>10, AreFrames DEF Credit, Mine
    <3> QED
        BY <1>11, <3>1, CostBounds
  <2>1. Mine(l) \subseteq Mine(l)' \cup mine(l)
    <3>1. Uncredited(l) \subseteq Uncredited(l)' \cup g(l)
      <4>1. ToSet(queue'[l]) = ToSet(queue[l])
          OBVIOUS
      <4> QED
          BY <1>5, <1>8, <1>g, <4>1, UncreditedIs DEF Waits
    <3> QED
        BY <3>1 DEF Mine
  <2>2. mine(l) \in SUBSET Frame /\ CostOf(mine(l)) \in Nat /\ lost'[l] = lost[l] + CostOf(mine(l))
      BY <1>b, <1>11
  <2> HIDE DEF mine
  <2>3. Mine(l)' \in SUBSET Frame /\ Mine(l)' \cup mine(l) \in SUBSET Frame
      BY <2>0, <2>2
  <2>4. CostOf(Mine(l)) <= CostOf(Mine(l)' \cup mine(l)) /\ CostOf(Mine(l)' \cup mine(l)) \in Nat
      BY <2>0, <2>1, <2>3, CostBounds
  <2>5. CostOf(Mine(l)' \cup mine(l)) <= CostOf(Mine(l)') + CostOf(mine(l))
      BY <2>2, <2>3, CostBounds
  <2> QED
      BY <2>0, <2>2, <2>4, <2>5
<1>13. Counters'
    BY <1>10, <1>11, <1>12, CountersKept DEF Credit
<1> QED
    BY <1>10, <1>13 DEF Credit

\* The writer takes an item: an ack that reaches the addon lowers its count
\* by what no longer counts against it.
LEMMA WriteItemCredit == ASSUME Inv, Credit, WriteItem PROVE Credit'
<1>a. PICK i : i = Head(prio)
    OBVIOUS
<1>0. live => addon # 0
    BY DEF Inv, Shape
<1>1. /\ prio # <<>> /\ prio' = Tail(prio) /\ UNCHANGED <<addon, live, sent, sock, queue, task, stale, lost>>
      /\ \/ live /\ sink = addon /\ sink' = sink /\ i.t = "ack"
            /\ out' = [out EXCEPT ![i.lane] = IF @ > CostOf(i.of) THEN @ - CostOf(i.of) ELSE 0]
         \/ i.t # "ack" /\ sink' = sink /\ out' = out
         \/ ~(live /\ sink' = addon) /\ out' = out
    BY <1>a, <1>0 DEF WriteItem, AddonTakes, sessVars
<1>2. Apart(prio)
    BY DEF Credit, Places
<1>3. /\ Apart(prio')
      /\ i.t = "ack" => /\ i.lane \in Lanes /\ i.of \in SUBSET Frame
                        /\ OfLane(prio, i.lane) = OfLane(prio', i.lane) \cup i.of /\ OfLane(prio', i.lane) \cap i.of = {}
      /\ \A l \in Lanes : i.t # "ack" \/ l # i.lane => OfLane(prio', l) = OfLane(prio, l)
    BY <1>a, <1>1, <1>2, OnWritten
<1>4. ASSUME NEW l \in Lanes
      PROVE  Socks(l)' = Socks(l) /\ Tasked(l)' = Tasked(l) /\ queue'[l] = queue[l] /\ Waits(l)' = Waits(l)
  <2>1. Socks(l)' = Socks(l) /\ Tasked(l)' = Tasked(l) /\ queue'[l] = queue[l]
      BY <1>1, SocksSame, TaskedSame
  <2> QED
      BY <2>1 DEF Waits
<1>5. \A l \in Lanes : OfLane(prio', l) \subseteq OfLane(prio, l)
    BY <1>3
<1>6. Places' /\ \A l \in Lanes : Uncredited(l)' \subseteq Uncredited(l)
  <2>1. ASSUME NEW l \in Lanes
        PROVE  /\ Socks(l)' \cap (ToSet(queue'[l]) \cup Tasked(l)') = {} /\ ToSet(queue'[l]) \cap Tasked(l)' = {}
               /\ Waits(l)' \cap OfLane(prio', l) = {}
               /\ Waits(l)' \cup OfLane(prio', l) \subseteq Waits(l) \cup OfLane(prio, l)
      BY <1>4, <1>5, PlacesOf DEF Credit
  <2> QED
      BY <1>1, <1>3, <2>1, PlacesKept DEF Credit
<1>7. CASE i.t # "ack" /\ sink' = sink /\ out' = out
  <2>1. \A l \in Lanes : Uncredited(l)' = Uncredited(l)
      BY <1>3, <1>4, <1>7, UncreditedIs
  <2>2. Counters'
      BY <1>1, <1>7, <2>1, CountersMoved DEF Credit
  <2> QED
      BY <1>6, <2>2 DEF Credit
<1>8. CASE ~(live /\ sink' = addon) /\ out' = out
  <2>1. lost' \in [Lanes -> Nat] /\ ~(live' /\ sink' = addon')
      BY <1>1, <1>8 DEF Credit, Counters
  <2>2. Counters'
      BY <1>1, <1>6, <1>8, <2>1, CountersKept DEF Credit
  <2> QED
      BY <1>6, <2>2 DEF Credit
<1>9. CASE /\ live /\ sink = addon /\ sink' = sink /\ i.t = "ack"
           /\ out' = [out EXCEPT ![i.lane] = IF @ > CostOf(i.of) THEN @ - CostOf(i.of) ELSE 0]
  <2> DEFINE c == CostOf(i.of)
  <2>0. c \in Nat /\ out \in [Lanes -> Nat] /\ lost \in [Lanes -> Nat] /\ i.lane \in Lanes /\ i.of \in SUBSET Frame
      BY <1>3, <1>9, CostStep DEF Credit, Counters
  <2>1. /\ out'[i.lane] = IF out[i.lane] > c THEN out[i.lane] - c ELSE 0
        /\ \A l \in Lanes \ {i.lane} : out'[l] = out[l]
      BY <1>9, <2>0
  <2>2. out' \in [Lanes -> Nat] /\ lost' \in [Lanes -> Nat]
    <3>1. (IF out[i.lane] > c THEN out[i.lane] - c ELSE 0) \in Nat
        BY <2>0
    <3> QED
        BY <1>1, <1>9, <2>0, <3>1
  <2> HIDE DEF c
  <2>3. ASSUME NEW l \in Lanes PROVE Counted(l)'
    <3>0. /\ Counted(l) /\ out[l] \in Nat /\ lost[l] \in Nat /\ lost'[l] = lost[l] /\ Mine(l) \in SUBSET Frame
          /\ Mine(l)' \subseteq Mine(l) /\ CostOf(Mine(l)) \in Nat /\ CostOf(Mine(l)') \in Nat
      <4>1. Mine(l) \in SUBSET Frame /\ Mine(l)' \subseteq Mine(l)
          BY <1>1, <1>6, AreFrames DEF Credit, Mine
      <4>2. Counted(l) /\ out[l] \in Nat /\ lost[l] \in Nat /\ lost'[l] = lost[l]
          BY <1>1, <2>0 DEF Credit, Counters
      <4> QED
          BY <4>1, <4>2, CostBounds
    <3>1. out[l] <= CostOf(Mine(l)) + lost[l]
        BY <1>9, <3>0 DEF Counted
    <3>2. addon = 1 => CostOf(Mine(l)) <= out[l] /\ Fits(Mine(l)')
      <4>1. addon = 1 => CostOf(Mine(l)) <= out[l] /\ Fits(Mine(l))
          BY <1>9, <3>0 DEF Counted
      <4> QED
          BY <3>0, <4>1, FitsPart
    <3>3. CASE l # i.lane
      <4>1. Mine(l)' = Mine(l)
          BY <1>1, <1>3, <1>4, <3>3, UncreditedIs DEF Mine
      <4> QED
          BY <1>1, <1>9, <2>1, <3>0, <3>1, <3>2, <3>3, <4>1 DEF Counted, Fits
    <3>4. CASE l = i.lane
      <4>1. Uncredited(l) = Uncredited(l)' \cup i.of /\ Uncredited(l)' \cap i.of = {}
        <5>1. OfLane(prio, l) = OfLane(prio', l) \cup i.of /\ OfLane(prio', l) \cap i.of = {}
            BY <1>3, <1>9, <3>4
        <5>2. Waits(l) \cap OfLane(prio, l) = {} /\ Waits(l)' = Waits(l)
            BY <1>4, PlacesOf DEF Credit
        <5> QED
            BY <5>1, <5>2, UncreditedIs
      <4>2. CostOf(Mine(l)) <= CostOf(Mine(l)') + c
        <5>1. Mine(l) \subseteq Mine(l)' \cup i.of
            BY <1>1, <4>1 DEF Mine
        <5>2. Mine(l)' \in SUBSET Frame /\ Mine(l)' \cup i.of \in SUBSET Frame
            BY <2>0, <3>0
        <5>3. CostOf(Mine(l)) <= CostOf(Mine(l)' \cup i.of) /\ CostOf(Mine(l)' \cup i.of) \in Nat
            BY <3>0, <5>1, <5>2, CostBounds
        <5>4. CostOf(Mine(l)' \cup i.of) <= CostOf(Mine(l)') + c
            BY <2>0, <5>2, CostBounds DEF c
        <5> QED
            BY <2>0, <3>0, <5>3, <5>4
      <4>3. addon = 1 => CostOf(Mine(l)) = CostOf(Mine(l)') + c
        <5> SUFFICES ASSUME addon = 1 PROVE CostOf(Mine(l)) = CostOf(Mine(l)') + c
            OBVIOUS
        <5>1. \A f \in Uncredited(l) : f.own = addon
          <6>1. \A f \in Uncredited(l) : f.own \in Nat /\ 1 <= f.own /\ f.own <= addon
              BY LinkAssumption DEF Credit, Places, OnePlace, Frame, Addons
          <6> QED
              BY <6>1
        <5>2. Mine(l) = Uncredited(l) /\ Mine(l)' = Uncredited(l)'
            BY <1>1, <4>1, <5>1 DEF Mine
        <5>3. Mine(l) = Mine(l)' \cup i.of /\ Mine(l)' \cap i.of = {} /\ Mine(l)' \in SUBSET Frame
            BY <3>0, <4>1, <5>2
        <5> QED
            BY <2>0, <5>3, CostUnion DEF c
      <4>4. out'[l] <= CostOf(Mine(l)') + lost'[l]
          BY <2>0, <2>1, <3>0, <3>1, <3>4, <4>2
      <4>5. addon = 1 => CostOf(Mine(l)') <= out'[l]
          BY <2>0, <2>1, <3>0, <3>2, <3>4, <4>3
      <4> QED
          BY <1>1, <3>2, <4>4, <4>5 DEF Counted, Fits
    <3> QED
        BY <3>3, <3>4
  <2> QED
      BY <1>6, <2>2, <2>3 DEF Credit, Counters
<1> QED
    BY <1>1, <1>7, <1>8, <1>9

\* An addon attaches, with nothing outstanding and nothing of its own under way.
LEMMA AttachCredit == ASSUME Inv, Credit, Attach PROVE Credit'
<1>0. addon \in Nat
    BY LinkAssumption DEF Inv, Shape
<1>1. /\ addon' = addon + 1 /\ out' = [l \in Lanes |-> 0] /\ lost' = [l \in Lanes |-> 0]
      /\ UNCHANGED <<sent, sock, queue, task, stale, prio>>
    BY DEF Attach, sessVars
<1>2. ASSUME NEW l \in Lanes
      PROVE  /\ Socks(l)' = Socks(l) /\ Tasked(l)' = Tasked(l) /\ queue'[l] = queue[l] /\ OfLane(prio', l) = OfLane(prio, l)
             /\ Uncredited(l)' = Uncredited(l)
  <2>1. Socks(l)' = Socks(l) /\ Tasked(l)' = Tasked(l) /\ queue'[l] = queue[l] /\ OfLane(prio', l) = OfLane(prio, l)
      BY <1>1, SocksSame, TaskedSame
  <2>2. Waits(l)' = Waits(l)
      BY <2>1 DEF Waits
  <2> QED
      BY <2>1, <2>2, UncreditedIs
<1>3. \A l \in Lanes : \A f \in Uncredited(l) : f \in Frame /\ f.lane = l /\ f.n <= sent /\ f.own <= addon /\ f.own \in Nat \ {0}
    BY LinkAssumption DEF Credit, Places, OnePlace, Frame, Addons
<1>4. Places'
  <2>1. ASSUME NEW l \in Lanes PROVE OnePlace(l)'
    <3>1. \A f \in Uncredited(l)' : f \in Frame /\ f.lane = l /\ f.n <= sent' /\ f.own <= addon'
      <4>1. \A f \in Uncredited(l) : f.own <= addon + 1
          BY <1>0, <1>3
      <4> QED
          BY <1>1, <1>2, <1>3, <4>1
    <3>2. OnePlace(l)
        BY DEF Credit, Places
    <3> QED
        BY <1>2, <3>1, <3>2 DEF OnePlace
  <2>2. Apart(prio')
      BY <1>1 DEF Credit, Places
  <2> QED
      BY <2>1, <2>2 DEF Places
<1>5. \A l \in Lanes : Mine(l)' = {}
    BY <1>0, <1>1, <1>2, <1>3 DEF Mine
<1>6. CostOf({}) = 0 /\ Window \in Nat /\ Fits({})
    BY CostStep, LinkAssumption DEF Fits
<1>7. ASSUME NEW l \in Lanes PROVE Counted(l)'
  <2>1. out'[l] = 0 /\ lost'[l] = 0 /\ CostOf(Mine(l)') = 0 /\ Fits(Mine(l)')
      BY <1>1, <1>5, <1>6
  <2> QED
      BY <2>1 DEF Counted, Fits
<1>8. Counters'
    BY <1>1, <1>7 DEF Counters
<1> QED
    BY <1>4, <1>8 DEF Credit

\* A frame is sent: it counts, and is under way, for what it costs.
LEMMA SendCredit == ASSUME Inv, Credit, NEW l \in Lanes, Send(l) PROVE Credit'
<1> DEFINE f == [lane |-> l, n |-> sent + 1, own |-> addon]
           c == Cost[sent + 1]
<1>0. /\ sock \in [Addons -> Seq(Frame)] /\ addon \in Addons /\ sent \in Nat /\ sent < MaxFrames
      /\ out \in [Lanes -> Nat] /\ lost \in [Lanes -> Nat]
  <2>1. addon \in 0..MaxAddons /\ (live => addon # 0) /\ sent \in 0..MaxFrames /\ sock \in [Addons -> Seq(Frame)]
      BY DEF Inv, Shape
  <2>2. live /\ sent < MaxFrames
      BY DEF Send
  <2>3. out \in [Lanes -> Nat] /\ lost \in [Lanes -> Nat]
      BY DEF Credit, Counters
  <2> QED
      BY <2>1, <2>2, <2>3, LinkAssumption DEF Addons
<1>1. /\ HasCredit(l, c) /\ out' = [out EXCEPT ![l] = @ + c] /\ sent' = sent + 1
      /\ sock' = [sock EXCEPT ![addon] = Append(@, f)]
      /\ UNCHANGED <<addon, live, sink, queue, task, stale, prio, lost>>
    BY DEF Send, ToAgent, sessVars
<1>2. f \in Frame /\ f.lane = l /\ f.n = sent + 1 /\ f.own = addon /\ c = Cost[f.n]
    BY <1>0, LinkAssumption DEF Frame
<1>3. HasCredit(l, c) <=> (out[l] = 0 \/ out[l] + c <= Window)
    BY DEF HasCredit
<1> HIDE DEF f, c
<1>4. CostOf({f}) = c /\ c \in Nat
    BY <1>2, CostOne
<1>5. Socks(l)' = Socks(l) \cup {f} /\ \A k \in Lanes \ {l} : Socks(k)' = Socks(k)
  <2>1. sock'[addon] = Append(sock[addon], f) /\ \A b \in Addons \ {addon} : sock'[b] = sock[b]
      BY <1>0, <1>1
  <2>2. ToSet(sock'[addon]) = ToSet(sock[addon]) \cup {f}
      BY <1>0, <1>2, <2>1, OnPut
  <2>a. \A b \in Addons : ToSet(sock'[b]) \subseteq ToSet(sock[b]) \cup {f} /\ ToSet(sock[b]) \subseteq ToSet(sock'[b])
      BY <2>1, <2>2
  <2>3. \A k \in Lanes : Socks(k)' = Socks(k) \cup {g \in {f} : g.lane = k}
    <3>1. ASSUME NEW k \in Lanes, NEW g \in Socks(k)' PROVE g \in Socks(k) \/ (g = f /\ g.lane = k)
      <4>1. PICK b \in Addons : g \in ToSet(sock'[b]) /\ g.lane = k
          BY DEF Socks
      <4>2. g = f \/ g \in ToSet(sock[b])
          BY <2>a, <4>1
      <4> QED
          BY <4>1, <4>2 DEF Socks
    <3>2. ASSUME NEW k \in Lanes, NEW g \in Socks(k) PROVE g \in Socks(k)'
      <4>1. PICK b \in Addons : g \in ToSet(sock[b]) /\ g.lane = k
          BY DEF Socks
      <4>2. g \in ToSet(sock'[b])
          BY <2>a, <4>1
      <4> QED
          BY <4>1, <4>2 DEF Socks
    <3>3. ASSUME NEW k \in Lanes, f.lane = k PROVE f \in Socks(k)'
        BY <1>0, <2>2, <3>3 DEF Socks
    <3> QED
        BY <3>1, <3>2, <3>3
  <2> QED
      BY <1>2, <2>3
<1>6. \A k \in Lanes : Tasked(k)' = Tasked(k) /\ queue'[k] = queue[k] /\ OfLane(prio', k) = OfLane(prio, k)
    BY <1>1, TaskedSame
<1>7. Waits(l)' = Waits(l) \cup {f} /\ \A k \in Lanes \ {l} : Waits(k)' = Waits(k)
    BY <1>5, <1>6 DEF Waits
<1>8. Uncredited(l)' = Uncredited(l) \cup {f} /\ \A k \in Lanes \ {l} : Uncredited(k)' = Uncredited(k)
    BY <1>6, <1>7, UncreditedIs
<1>9. \A k \in Lanes : \A g \in Uncredited(k) : g \in Frame /\ g.lane = k /\ g.n \in Nat /\ g.n <= sent /\ g.own <= addon
    BY LinkAssumption DEF Credit, Places, OnePlace, Frame
<1>10. f \notin Uncredited(l)
    BY <1>0, <1>2, <1>9
<1>11. Places'
  <2>1. ASSUME NEW k \in Lanes PROVE OnePlace(k)'
    <3>1. \A g \in Uncredited(k)' : g \in Frame /\ g.lane = k /\ g.n <= sent' /\ g.own <= addon'
      <4>1. \A g \in Uncredited(k) : g.n <= sent + 1
          BY <1>0, <1>9
      <4>2. f.n <= sent + 1 /\ f.own <= addon
          BY <1>0, <1>2, LinkAssumption DEF Addons
      <4> QED
          BY <1>1, <1>2, <1>8, <1>9, <4>1, <4>2
    <3>2. OnePlace(k)
        BY DEF Credit, Places
    <3>3. f \notin ToSet(queue[l]) \cup Tasked(l) \cup OfLane(prio, l)
        BY <1>10, UncreditedIs DEF Waits
    <3>4. CASE k = l
        BY <1>5, <1>6, <3>1, <3>2, <3>3, <3>4 DEF OnePlace
    <3>5. CASE k # l
        BY <1>5, <1>6, <3>1, <3>2, <3>5 DEF OnePlace
    <3> QED
        BY <3>4, <3>5
  <2>2. Apart(prio')
      BY <1>1 DEF Credit, Places
  <2> QED
      BY <2>1, <2>2 DEF Places
<1>12. Mine(l)' = Mine(l) \cup {f} /\ f \notin Mine(l) /\ \A k \in Lanes \ {l} : Mine(k)' = Mine(k)
    BY <1>1, <1>2, <1>8, <1>10 DEF Mine
<1>13. \A k \in Lanes : Counted(k) /\ Mine(k) \in SUBSET Frame /\ CostOf(Mine(k)) \in Nat
    BY AreFrames, CostStep DEF Credit, Counters
<1>14. CostOf(Mine(l)') = CostOf(Mine(l)) + c
  <2>1. {f} \in SUBSET Frame /\ Mine(l) \cap {f} = {} /\ Mine(l) \in SUBSET Frame
      BY <1>2, <1>12, <1>13
  <2> QED
      BY <1>4, <1>12, <2>1, CostUnion
<1>15. out'[l] = out[l] + c /\ \A k \in Lanes \ {l} : out'[k] = out[k]
    BY <1>0, <1>1
<1>16. Counted(l)'
  <2>1. live /\ sink = addon => out'[l] <= CostOf(Mine(l)') + lost'[l]
      BY <1>0, <1>1, <1>4, <1>13, <1>14, <1>15 DEF Counted
  <2>2. ASSUME addon = 1, live PROVE CostOf(Mine(l)') <= out'[l] /\ Fits(Mine(l)')
    <3>0. CostOf(Mine(l)) <= out[l] /\ out[l] \in Nat /\ Window \in Nat
        BY <1>0, <1>13, <2>2, LinkAssumption DEF Counted
    <3>1. CASE out[l] = 0
      <4>1. CostOf(Mine(l)) = 0
          BY <1>13, <3>0, <3>1
      <4>2. Mine(l) = {}
          BY <1>13, <4>1, CostBounds
      <4>3. Mine(l)' = {f}
          BY <1>12, <4>2
      <4>4. Cardinality(Mine(l)') = 1
          BY <4>3, FS_Singleton
      <4> QED
          BY <1>4, <1>13, <1>14, <1>15, <3>0, <4>4 DEF Fits
    <3>2. CASE out[l] + c <= Window
        BY <1>4, <1>13, <1>14, <1>15, <3>0, <3>2 DEF Fits
    <3> QED
        BY <1>1, <1>3, <3>1, <3>2
  <2> QED
      BY <1>1, <2>1, <2>2 DEF Counted, Fits
<1>17. ASSUME NEW k \in Lanes \ {l} PROVE Counted(k)'
    BY <1>1, <1>12, <1>13, <1>15 DEF Counted, Fits
<1>18. out' \in [Lanes -> Nat] /\ lost' \in [Lanes -> Nat]
    BY <1>0, <1>1, <1>4
<1> QED
    BY <1>11, <1>16, <1>17, <1>18 DEF Credit, Counters

\* At first nothing is sent.
LEMMA InitCredit == Init => Credit
<1> SUFFICES ASSUME Init PROVE Credit
    OBVIOUS
<1>1. /\ prio = <<>> /\ out = [l \in Lanes |-> 0] /\ lost = [l \in Lanes |-> 0] /\ live = FALSE
      /\ sock = [a \in Addons |-> <<>>] /\ queue = [l \in Lanes |-> <<>>] /\ task = [l \in Lanes |-> <<>>]
      /\ stale = {}
    BY DEF Init
<1>2. Apart(prio)
  <2>1. prio \in Seq(Item) /\ 1..Len(prio) = {}
      BY <1>1
  <2> QED
      BY <2>1 DEF Apart
<1>3. ASSUME NEW l \in Lanes PROVE OnePlace(l)
  <2>1. Socks(l) = {}
    <3>1. \A a \in Addons : ToSet(sock[a]) = {}
        BY <1>1, OnEmpty
    <3> QED
        BY <3>1 DEF Socks
  <2>2. ToSet(queue[l]) = {}
      BY <1>1, OnEmpty
  <2>3. Tasked(l) = {}
    <3>1. task[l] = <<>>
        BY <1>1
    <3>2. 1..Len(task[l]) = {}
        BY <3>1
    <3> QED
        BY <1>1, <3>2 DEF Tasked, Carried
  <2>4. OfLane(prio, l) = {}
    <3>1. 1..Len(prio) = {}
        BY <1>1
    <3> QED
        BY <3>1 DEF OfLane
  <2>5. Uncredited(l) = {}
      BY <2>1, <2>2, <2>3, <2>4, UncreditedIs DEF Waits
  <2> QED
      BY <2>1, <2>2, <2>3, <2>4, <2>5 DEF OnePlace
<1>4. Counters
    BY <1>1 DEF Counters, Counted
<1> QED
    BY <1>2, <1>3, <1>4 DEF Credit, Places

\* Drains and tasks exclude each other.
LEMMA NextDraining == ASSUME Inv, Draining, [Next]_vars PROVE Draining'
<1>1. CASE UNCHANGED <<stale, task, phase>>
    BY <1>1 DEF Draining
<1>2. CASE Connect
  <2>1. stale = {} /\ stale' = {} /\ task' = task
      BY <1>2 DEF Connect, Draining, Frame, Lanes
  <2>2. phase = "down"
      BY <1>2 DEF Connect
  <2> QED
      BY <2>1, <2>2 DEF Draining
<1>3. ASSUME NEW l \in Lanes, Drain(l) PROVE Draining'
  <2>1. phase' = l /\ stale' = ToSet(queue[l]) /\ task' = task /\ phase # "up"
      BY <1>3 DEF Drain
  <2>2. ToSet(queue[l]) \subseteq {f \in Frame : f.lane = l}
    <3>1. queue[l] \in Seq(Frame) /\ \A f \in ToSet(queue[l]) : f.lane = l
        BY DEF Inv, Shape, LaneOrder, Inside
    <3>2. ToSet(queue[l]) \subseteq Frame
        BY <3>1 DEF ToSet
    <3> QED
        BY <3>1, <3>2
  <2> QED
      BY <2>1, <2>2 DEF Draining
<1>4. CASE AckStale
    BY <1>4 DEF AckStale, Draining
<1>5. CASE StartLanes
    BY <1>5 DEF StartLanes, Draining
<1>6. ASSUME NEW l \in Lanes, LaneStep(l) PROVE Draining'
  <2>1. phase = "up" /\ UNCHANGED <<stale, phase>>
      BY <1>6 DEF LaneStep, TakeFrame, WriteWire, AckFrame
  <2> QED
      BY <2>1, UpIsClean DEF Draining
<1>7. CASE SessionEnds \/ Retarget
  <2>1. stale' = {} /\ task' = [l \in Lanes |-> <<>>]
      BY <1>7 DEF SessionEnds, Retarget, EndTasks
  <2> QED
      BY <2>1 DEF Draining
<1>8. CASE UNCHANGED vars \/ Attach \/ Leave \/ WriteItem \/ DialFails \/ ReplicaAttaches \/ ReplicaLeaves
    BY <1>1, <1>8 DEF vars, sessVars, Attach, Leave, WriteItem, DialFails, ReplicaAttaches, ReplicaLeaves
<1>9. ASSUME NEW l \in Lanes, Send(l) \/ Receive(l) \/ Deliver(l) PROVE Draining'
    BY <1>1, <1>9 DEF Send, Receive, Deliver, sessVars
<1>10. ASSUME NEW a \in Addons, ReaderStep(a) PROVE Draining'
    BY <1>1, <1>10 DEF ReaderStep, ReadFrame, ReaderEnds, sessVars
<1> QED
    BY <1>2, <1>3, <1>4, <1>5, <1>6, <1>7, <1>8, <1>9, <1>10 DEF Next

\* Every step keeps the account.
LEMMA NextCredit == ASSUME Inv, Draining, Credit, [Next]_vars PROVE Credit'
<1>0. Apart(prio)
    BY DEF Credit, Places
<1>1. CASE UNCHANGED vars
  <2>1. UNCHANGED <<sent, addon, out, lost, sock, queue, task, stale, prio, live, sink>>
      BY <1>1 DEF vars, addonVars, linkVars, sessVars
  <2> QED
      BY <1>0, <2>1, TaskedSame, StayCredit
<1>2. CASE Leave \/ StartLanes \/ (\E l \in Lanes : Receive(l) \/ Deliver(l)) \/ ReplicaAttaches \/ ReplicaLeaves
  <2>1. UNCHANGED <<sent, addon, out, lost, sock, queue, task, stale, prio, sink>> /\ (live' => live)
      BY <1>2 DEF Leave, StartLanes, Receive, Deliver, ReplicaAttaches, ReplicaLeaves, addonVars, linkVars, sessVars
  <2> QED
      BY <1>0, <2>1, TaskedSame, StayCredit
<1>3. CASE Connect \/ DialFails
  <2>1. /\ UNCHANGED <<sent, addon, out, lost, sock, queue, task, stale, sink, live>>
        /\ \E e \in {"up", "down"} : prio' = EventTry(prio, e)
      BY <1>3 DEF Connect, DialFails, addonVars, linkVars, sessVars
  <2>2. Apart(prio') /\ \A l \in Lanes : OfLane(prio', l) = OfLane(prio, l)
      BY <1>0, <2>1, OnEvent
  <2> QED
      BY <2>1, <2>2, TaskedSame, StayCredit
<1>4. CASE SessionEnds \/ Retarget
  <2>1. EndTasks /\ UNCHANGED <<sent, addon, out, live, sink, sock, queue>>
      BY <1>4 DEF SessionEnds, Retarget, addonVars, linkVars
  <2> QED
      BY <2>1, EndTasksCredit
<1>5. CASE Attach \/ WriteItem \/ AckStale
    BY <1>5, AttachCredit, WriteItemCredit, AckStaleCredit
<1>6. CASE \E l \in Lanes : Send(l) \/ Drain(l) \/ LaneStep(l)
    BY <1>6, SendCredit, DrainCredit, TakeFrameCredit, WriteWireCredit, AckFrameCredit DEF LaneStep
<1>7. CASE \E a \in Addons : ReaderStep(a)
    BY <1>7, ReadFrameCredit, ReaderEndsCredit DEF ReaderStep
<1> QED
    BY <1>1, <1>2, <1>3, <1>4, <1>5, <1>6, <1>7 DEF Next

\* No discard, reconnect or change of addon leaks credit, nor a drain that is
\* let finish: for any sizes of frames, any window and any number of addons and
\* sessions, what the attached addon counts is under way to it, or went with a
\* torn-down lane task or with a drain whose ack still waited when the target
\* changed; and a first addon never has more than the window (or one larger
\* frame) between itself and the wire.
THEOREM CreditKept == Spec => []CreditAccounted
<1>1. Credit => CreditAccounted
    BY DEF Credit, Counters, Counted, Fits, CreditAccounted
<1>2. Inv /\ Draining /\ Credit /\ [Next]_vars => Draining' /\ Credit'
    BY NextDraining, NextCredit
<1>3. Init => Draining
    BY DEF Init, Draining
<1> QED
    BY InitCredit, <1>1, <1>2, <1>3, SpecInv, PTL DEF Spec
=============================================================================
