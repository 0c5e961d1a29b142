------------------------------ MODULE AgentLink ------------------------------
(***************************************************************************)
(* The path of a cold or fast frame from the host's addon to the replica's *)
(* addon, and of its credit back (ring1/transport_agent.py, agent/link.rs, *)
(* agent/session.rs):                                                      *)
(*                                                                         *)
(*   addon -> socket -> reader_loop -> lane queue -> lane task -> QUIC     *)
(*         -> replica's agent queue -> its writer thread -> replica addon  *)
(*                                                                         *)
(* The agents outlive sessions and addons: a session may end and another   *)
(* begin, and an addon may leave and another attach, while frames, credits *)
(* and events are anywhere on the way.  Frame payloads, compression and    *)
(* framing are left out; a frame is its number and the addon that sent it, *)
(* and costs Cost[n] bytes of credit.                                      *)
(***************************************************************************)
EXTENDS Naturals, Sequences, FiniteSets, FiniteSetsExt, SequencesExt

CONSTANTS
    MaxFrames,  \* bound: frames sent, on all lanes
    Cost,       \* [1..MaxFrames -> bytes]
    Window,     \* _COLD_WINDOW_BYTES, _FAST_WINDOW_BYTES
    QCap,       \* capacity of the agent's cold_tx / fast_tx
    PCap,       \* capacity of the agent's prio_tx
    WCap,       \* frames QUIC takes before a write waits
    RCap,       \* capacity of the replica agent's queue to its addon
    MaxAddons,  \* bound: addons that attach to the host's agent
    MaxDrops,   \* bound: sessions that end
    MaxCuts,    \* bound: sessions that end beyond these, while they drain the queues
    MaxDowns    \* bound: "down" events queued at once for dials that fail

ASSUME LinkAssumption ==
    /\ MaxFrames \in Nat /\ Cost \in [1..MaxFrames -> Nat \ {0}]
    /\ Window \in Nat \ {0} /\ MaxAddons \in Nat /\ MaxDrops \in Nat /\ MaxCuts \in Nat /\ MaxDowns \in Nat
    /\ QCap \in Nat \ {0} /\ PCap \in Nat \ {0} /\ WCap \in Nat \ {0} /\ RCap \in Nat \ {0}

VARIABLES
    addon,      \* the host addon's transport object: how many there have been
    live,       \* does that addon still run?
    up,         \* its _link_up
    out,        \* its _cold_outstanding and _fast_outstanding
    sent,       \* how many frames have been handed over
    sock,       \* frames each addon has queued or written, not read yet
    readers,    \* the addons whose reader_loop runs
    sink,       \* the addon the writer writes to, 0 = None; not 0 = Link.attached
    connected,  \* Inbound.connected
    queue,      \* cold_rx, fast_rx
    task,       \* what each lane's task holds: <<>> or <<[f, st]>>
    prio,       \* prio_rx: acks and events on their way to the addon
    phase,      \* the session: "down", "opening" (before run_lanes starts), "cold" and "fast" (it
                \* has drained that lane's queue), "up"; HostObserver.up = not "down"
    stale,      \* the frames drained from that queue, while their ack waits
    drops,      \* sessions that have ended
    wire,       \* frames inside the codec pipelines and QUIC
    rlive,      \* is an addon attached to the replica's agent?
    rqueue,     \* the replica agent's queue to it
    seen,       \* the frame delivered last, of each lane and host addon
    lost        \* history: credit that ended with a lane task or a drain, this addon's

addonVars == <<addon, live, up, out, sent>>
linkVars == <<sock, readers, sink>>
sessVars == <<connected, queue, task, stale, phase, drops, wire>>
replVars == <<rlive, rqueue, seen>>
vars == <<addonVars, linkVars, sessVars, replVars, prio, lost>>

Lanes == {"cold", "fast"}  \* the lanes with credit
Addons == 1..MaxAddons
Frame == [lane : Lanes, n : 1..MaxFrames, own : Addons]
Stage == {"send", "ack"}
Item == [t : {"up", "down"}] \cup [t : {"ack"}, lane : Lanes, of : SUBSET Frame]

CostOf(S) == MapThenSumSet(LAMBDA f : Cost[f.n], S)
Ack(l, S) == [t |-> "ack", lane |-> l, of |-> S]

\* One ack for each lane of the domain, cold first.
Acks(frames) ==
    LET one(l) == IF l \in DOMAIN frames THEN <<Ack(l, frames[l])>> ELSE <<>>
    IN  one("cold") \o one("fast")

Init ==
    /\ addon = 0 /\ live = FALSE /\ up = FALSE
    /\ out = [l \in Lanes |-> 0] /\ sent = 0
    /\ sock = [a \in Addons |-> <<>>]
    /\ readers = {} /\ sink = 0
    /\ connected = FALSE
    /\ queue = [l \in Lanes |-> <<>>] /\ task = [l \in Lanes |-> <<>>]
    /\ stale = {} /\ prio = <<>> /\ phase = "down" /\ drops = 0 /\ wire = [l \in Lanes |-> <<>>]
    /\ rlive = FALSE
    /\ rqueue = [l \in Lanes |-> <<>>] /\ seen = [l \in Lanes |-> [a \in Addons |-> 0]]
    /\ lost = [l \in Lanes |-> 0]

\* Link.event_try: an event is dropped when the queue is full.
EventTry(p, e) == IF Len(p) < PCap THEN Append(p, [t |-> e]) ELSE p

-----------------------------------------------------------------------------
(* The host's addon                                                        *)

\* serve_local accepts one addon at a time; the attach reply, written before
\* anything queued, tells a fresh transport whether the peer is up.
Attach ==
    /\ ~live /\ addon < MaxAddons
    /\ sink = 0
    /\ addon' = addon + 1 /\ live' = TRUE
    /\ up' = (phase # "down")
    /\ out' = [l \in Lanes |-> 0] /\ lost' = [l \in Lanes |-> 0]
    /\ sink' = addon + 1
    /\ readers' = readers \cup {addon + 1}
    /\ UNCHANGED <<sent, sock, sessVars, replVars, prio>>

\* send_cold / send_fast: refused while the link is down or the window is
\* used; a frame larger than the window goes when nothing is outstanding.
HasCredit(l, c) == out[l] = 0 \/ out[l] + c <= Window

\* The frame waits in the link's deque and its socket; the caller never does.
ToAgent(f) == sock' = [sock EXCEPT ![addon] = Append(@, f)]

Send(l) ==
    LET n == sent + 1 IN
    /\ live /\ sent < MaxFrames
    /\ up
    /\ HasCredit(l, Cost[n])
    /\ out' = [out EXCEPT ![l] = @ + Cost[n]]
    /\ sent' = n
    /\ ToAgent([lane |-> l, n |-> n, own |-> addon])
    /\ UNCHANGED <<addon, live, up, readers, sink, sessVars, replVars, prio, lost>>

\* The addon's session stops, or its Blender dies; the agent learns of it
\* later, from a failed write or from the end of the stream.  The last of
\* MaxAddons stays: it is there for what the ones before it leave behind.
Leave ==
    /\ live /\ addon < MaxAddons
    /\ live' = FALSE
    /\ UNCHANGED <<addon, up, out, sent, linkVars, sessVars, replVars, prio, lost>>

-----------------------------------------------------------------------------
(* The host agent's reader and writer threads                              *)

\* Mutant of ReadFrame: a frame discarded for want of room is not credited.
ReadFrameForgets(a) ==
    /\ a \in readers
    /\ sock[a] # <<>>
    /\ sock' = [sock EXCEPT ![a] = Tail(@)]
    /\ LET f == Head(sock[a])
           fits == connected /\ Len(queue[f.lane]) < QCap
       IN  queue' = IF fits THEN [queue EXCEPT ![f.lane] = Append(@, f)] ELSE queue
    /\ UNCHANGED <<addonVars, readers, sink, connected, task, stale, phase, drops, wire, replVars, prio, lost>>

\* reader_loop on a T_COLD or T_FAST frame: into the lane's queue, or
\* discarded and credited back (frame_blocking waits for room).
ReadFrame(a) ==
    /\ a \in readers
    /\ sock[a] # <<>>
    /\ sock' = [sock EXCEPT ![a] = Tail(@)]
    /\ LET f == Head(sock[a])
           fits == connected /\ Len(queue[f.lane]) < QCap
       IN  \/ /\ fits
              /\ queue' = [queue EXCEPT ![f.lane] = Append(@, f)]
              /\ UNCHANGED prio
           \/ /\ ~fits
              /\ Len(prio) < PCap
              /\ prio' = Append(prio, Ack(f.lane, {f}))
              /\ UNCHANGED queue
    /\ UNCHANGED <<addonVars, readers, sink, connected, task, stale, phase, drops, wire, replVars, lost>>

\* The stream ends, before or after what was written to it has been read:
\* the thread clears the sink, whoever's it is by now.
ReaderEnds(a) ==
    /\ a \in readers
    /\ ~(live /\ a = addon)
    /\ sock' = [sock EXCEPT ![a] = <<>>]
    /\ readers' = readers \ {a}
    /\ sink' = 0
    /\ UNCHANGED <<addonVars, sessVars, replVars, prio, lost>>

\* What the addon's reader thread does with a frame it is sent (_on_frame).
AddonTakes(i) ==
    \/ /\ i.t = "ack"
       /\ LET c == CostOf(i.of)
          IN  out' = [out EXCEPT ![i.lane] = IF @ > c THEN @ - c ELSE 0]
       /\ UNCHANGED up
    \/ i.t # "ack" /\ up' = (i.t = "up") /\ UNCHANGED out

\* writer_thread: the next queued item goes to the attached addon.  Events
\* wait for nobody; anything else waits for an addon.  A write to an addon
\* that is gone is lost, and is noticed or not.
WriteItem ==
    /\ prio # <<>>
    /\ prio' = Tail(prio)
    /\ \/ sink # 0 /\ live /\ sink = addon
          /\ AddonTakes(Head(prio))
          /\ UNCHANGED sink
       \/ sink # 0 /\ ~(live /\ sink = addon)
          /\ sink' \in {0, sink}
          /\ UNCHANGED <<up, out>>
       \/ sink = 0 /\ Head(prio).t # "ack"
          /\ UNCHANGED <<up, out, sink>>
    /\ UNCHANGED <<addon, live, sent, sock, readers, sessVars, replVars, lost>>

-----------------------------------------------------------------------------
(* The QUIC session, host side                                             *)

\* connect_one reaches the replica and tells the addon, before run_lanes.
Connect ==
    /\ phase = "down"
    /\ phase' = "opening"
    /\ prio' = EventTry(prio, "up")
    /\ UNCHANGED <<addonVars, linkVars, connected, queue, task, stale, drops, wire, replVars, lost>>

\* connect_one cannot reach it: the reason goes to the addon.
DialFails ==
    /\ phase = "down"
    /\ Cardinality({k \in DOMAIN prio : prio[k].t = "down"}) < MaxDowns
    /\ prio' = EventTry(prio, "down")
    /\ UNCHANGED <<addonVars, linkVars, sessVars, replVars, lost>>

\* Mutant of Drain: the stale frames are discarded without credit.
DrainClean(l) ==
    /\ phase = IF l = "cold" THEN "opening" ELSE "cold"
    /\ stale = {}
    /\ phase' = l
    /\ queue' = [queue EXCEPT ![l] = <<>>]
    /\ UNCHANGED <<addonVars, linkVars, connected, task, stale, drops, wire, replVars, prio, lost>>

\* run_lanes begins: what the last session left in a lane's queue is discarded, the cold lane's
\* first.
Drain(l) ==
    /\ phase = IF l = "cold" THEN "opening" ELSE "cold"
    /\ stale = {}
    /\ phase' = l /\ stale' = ToSet(queue[l])
    /\ queue' = [queue EXCEPT ![l] = <<>>]
    /\ UNCHANGED <<addonVars, linkVars, connected, task, drops, wire, replVars, prio, lost>>

\* It is credited back in one ack, which waits for room among the priority frames.
AckStale ==
    /\ stale # {}
    /\ Len(prio) < PCap
    /\ prio' = Append(prio, Ack(phase, stale))
    /\ stale' = {}
    /\ UNCHANGED <<addonVars, linkVars, connected, queue, task, phase, drops, wire, replVars, lost>>

\* Both lanes are clean: the reader may queue again, the tasks start.
StartLanes ==
    /\ phase = "fast" /\ stale = {}
    /\ connected' = TRUE /\ phase' = "up"
    /\ UNCHANGED <<addonVars, linkVars, queue, task, stale, drops, wire, replVars, prio, lost>>

\* The lane's task takes a frame.  The cold task credits it at once and
\* passes it to the compressor; the fast task writes it, then credits it.
TakeFrame(l) ==
    /\ phase = "up" /\ task[l] = <<>> /\ queue[l] # <<>>
    /\ l = "cold" => Len(wire[l]) < WCap
    /\ task' = [task EXCEPT ![l] = <<[f |-> Head(queue[l]), st |-> IF l = "cold" THEN "ack" ELSE "send"]>>]
    /\ queue' = [queue EXCEPT ![l] = Tail(@)]
    /\ UNCHANGED <<addonVars, linkVars, connected, stale, phase, drops, wire, replVars, prio, lost>>

WriteWire(l) ==
    /\ phase = "up" /\ task[l] # <<>> /\ task[l][1].st = "send"
    /\ Len(wire[l]) < WCap
    /\ wire' = [wire EXCEPT ![l] = Append(@, task[l][1].f)]
    /\ task' = [task EXCEPT ![l][1].st = "ack"]
    /\ UNCHANGED <<addonVars, linkVars, connected, queue, stale, phase, drops, replVars, prio, lost>>

\* ack_cold / ack_fast wait for room among the priority frames.
AckFrame(l) ==
    /\ phase = "up" /\ task[l] # <<>> /\ task[l][1].st = "ack"
    /\ Len(prio) < PCap
    /\ prio' = Append(prio, Ack(l, {task[l][1].f}))
    /\ task' = [task EXCEPT ![l] = <<>>]
    /\ wire' = IF l = "cold" THEN [wire EXCEPT ![l] = Append(@, task[l][1].f)] ELSE wire
    /\ UNCHANGED <<addonVars, linkVars, connected, queue, stale, phase, drops, replVars, lost>>

\* The lane tasks end.  A task that holds a frame can still credit it if the
\* queue has room: always at "ack"; at "send" when the failed write wakes it
\* before it is cancelled.  Otherwise the credit ends with the task, and that of
\* drained frames whose ack still waits with the drain.
EndTasks ==
    \E fin \in SUBSET {l \in Lanes : task[l] # <<>>} :
       LET acks == Acks([l \in fin |-> {task[l][1].f}])
           cut == {l \in Lanes : task[l] # <<>>} \ fin
           room == Len(prio) + Len(acks) < PCap
           gone(l) == {f \in stale : f.lane = l} \cup {task[k][1].f : k \in cut \cap {l}}
       IN  /\ Len(prio) + Len(acks) <= PCap
           /\ \A l \in cut : task[l][1].st = "ack" => ~room
           /\ prio' = EventTry(prio \o acks, "down")
           /\ lost' = [l \in Lanes |-> lost[l] + CostOf({f \in gone(l) : f.own = addon})]
           /\ task' = [l \in Lanes |-> <<>>] /\ stale' = {}
           /\ wire' = [l \in Lanes |-> <<>>]

\* Mutant of SessionEnds: a frame the fast task still holds is handed back
\* to the reader, to be sent again in the next session.
SessionEndsRetries ==
    /\ phase = "up" /\ drops < MaxDrops
    /\ drops' = drops + 1
    /\ sock' = [sock EXCEPT ![1] = (IF task["fast"] # <<>> THEN <<task["fast"][1].f>> ELSE <<>>) \o @]
    /\ task' = [l \in Lanes |-> <<>>] /\ wire' = [l \in Lanes |-> <<>>]
    /\ prio' = EventTry(prio, "down")
    /\ connected' = FALSE /\ phase' = "down"
    /\ UNCHANGED <<addonVars, readers, sink, queue, stale, replVars, lost>>

\* run_lanes returns: the connection is closed or a lane ended.
SessionEnds ==
    /\ phase = "up" /\ drops < MaxDrops
    /\ EndTasks
    /\ drops' = drops + 1
    /\ connected' = FALSE /\ phase' = "down"
    /\ UNCHANGED <<addonVars, linkVars, queue, replVars>>

\* HostControl::set while host_loop waits on connect_one: the session's
\* future is dropped where it stands, so that `connected` keeps its value.
Retarget ==
    /\ phase # "down" /\ drops < MaxDrops + (IF stale = {} THEN 0 ELSE MaxCuts)
    /\ EndTasks
    /\ drops' = drops + 1
    /\ phase' = "down"
    /\ UNCHANGED <<addonVars, linkVars, connected, queue, replVars>>

-----------------------------------------------------------------------------
(* The replica's agent and addon                                           *)

Receive(l) ==
    /\ phase = "up" /\ wire[l] # <<>>
    /\ Len(rqueue[l]) < RCap
    /\ rqueue' = [rqueue EXCEPT ![l] = Append(@, Head(wire[l]))]
    /\ wire' = [wire EXCEPT ![l] = Tail(@)]
    /\ UNCHANGED <<addonVars, linkVars, connected, queue, task, stale, phase, drops, rlive, seen, prio, lost>>

\* write_when_attached on the replica: the frame waits for an addon.
Deliver(l) ==
    /\ rlive /\ rqueue[l] # <<>>
    /\ rqueue' = [rqueue EXCEPT ![l] = Tail(@)]
    /\ LET f == Head(rqueue[l]) IN seen' = [seen EXCEPT ![l][f.own] = f.n]
    /\ UNCHANGED <<addonVars, linkVars, sessVars, rlive, prio, lost>>

\* The replica's addon leaves: what is written to it until a write fails or
\* its stream ends is lost.
ReplicaLeaves ==
    /\ rlive
    /\ rlive' = FALSE
    /\ \E k \in [Lanes -> 0..RCap] :
          rqueue' = [l \in Lanes |-> SubSeq(rqueue[l], k[l] + 1, Len(rqueue[l]))]
    /\ UNCHANGED <<addonVars, linkVars, sessVars, seen, prio, lost>>

ReplicaAttaches ==
    /\ ~rlive
    /\ rlive' = TRUE
    /\ UNCHANGED <<addonVars, linkVars, sessVars, rqueue, seen, prio, lost>>

-----------------------------------------------------------------------------
LaneStep(l) == TakeFrame(l) \/ WriteWire(l) \/ AckFrame(l)
ReaderStep(a) == ReadFrame(a) \/ ReaderEnds(a)

Next ==
    \/ Attach \/ Leave \/ \E l \in Lanes : Send(l)
    \/ \E a \in Addons : ReaderStep(a)
    \/ WriteItem
    \/ Connect \/ DialFails \/ AckStale \/ StartLanes \/ SessionEnds \/ Retarget
    \/ \E l \in Lanes : Drain(l) \/ LaneStep(l) \/ Receive(l) \/ Deliver(l)
    \/ ReplicaAttaches \/ ReplicaLeaves

Spec == Init /\ [][Next]_vars

(***************************************************************************)
(* Threads and tasks keep running: the reader and writer threads, the lane *)
(* tasks, QUIC while a session lasts, the replica agent's writer.  The     *)
(* host keeps dialling, a replica's addon comes back when it is gone and   *)
(* is not always gone again before the writer gets to it.                  *)
(***************************************************************************)
Fair ==
    /\ \A a \in Addons : WF_vars(ReadFrame(a)) /\ WF_vars(ReaderEnds(a))
    /\ WF_vars(WriteItem)
    /\ WF_vars(Connect) /\ WF_vars(AckStale) /\ WF_vars(StartLanes)
    /\ \A l \in Lanes :
         /\ WF_vars(Drain(l))
         /\ WF_vars(TakeFrame(l)) /\ WF_vars(WriteWire(l)) /\ WF_vars(AckFrame(l))
         /\ WF_vars(Receive(l)) /\ SF_vars(Deliver(l))
    /\ WF_vars(ReplicaAttaches)

FairSpec == Spec /\ Fair

-----------------------------------------------------------------------------
(* Properties                                                              *)

\* Every variable of addon, link, session and replica keeps its type.
TypeOK ==
    /\ addon \in 0..MaxAddons /\ live \in BOOLEAN /\ up \in BOOLEAN
    /\ out \in [Lanes -> Nat] /\ sent \in 0..MaxFrames
    /\ sock \in [Addons -> Seq(Frame)]
    /\ readers \subseteq Addons /\ sink \in 0..MaxAddons
    /\ connected \in BOOLEAN
    /\ queue \in [Lanes -> Seq(Frame)]
    /\ task \in [Lanes -> Seq([f : Frame, st : Stage])]
    /\ prio \in Seq(Item) /\ Len(prio) <= PCap
    /\ phase \in {"down", "opening", "cold", "fast", "up"} /\ drops \in 0..MaxDrops + MaxCuts
    /\ stale \subseteq {f \in Frame : f.lane = phase}
    /\ wire \in [Lanes -> Seq(Frame)] /\ rqueue \in [Lanes -> Seq(Frame)]
    /\ rlive \in BOOLEAN
    /\ seen \in [Lanes -> [Addons -> 0..MaxFrames]]
    /\ lost \in [Lanes -> Nat]

\* The frames of a lane that have not been credited back, the acks under
\* way included; those of the present addon count against its window.
Uncredited(l) ==
    (UNION {{f \in ToSet(sock[a]) : f.lane = l} : a \in Addons})
      \cup ToSet(queue[l]) \cup {task[l][k].f : k \in 1..Len(task[l])}
      \cup {f \in stale : f.lane = l}
      \cup (UNION {prio[k].of : k \in {k \in 1..Len(prio) : prio[k].t = "ack" /\ prio[k].lane = l}})
Mine(l) == {f \in Uncredited(l) : f.own = addon}

\* What counts against the window is under way and will come back, except
\* the frame that a lane task held when its session was torn down and the
\* drained frames whose ack still waited when the target changed (`lost`): no
\* discard or reconnect leaks credit, nor a drain that is let finish.  And the
\* window holds: as long as one addon has the link, the bytes between it and
\* the wire stay within it, or are one frame that alone exceeds it.
CreditAccounted ==
    /\ live /\ sink = addon => \A l \in Lanes : out[l] <= CostOf(Mine(l)) + lost[l]
    /\ addon = 1 /\ live =>
          \A l \in Lanes : CostOf(Mine(l)) <= Window \/ Cardinality(Mine(l)) = 1

\* The frames of lane l from addon a that can still arrive.
UnderWay(l, a) ==
    LET unsent == {k \in 1..Len(task[l]) : l = "cold" \/ task[l][k].st = "send"}
        fs == ToSet(sock[a]) \cup ToSet(queue[l]) \cup {task[l][k].f : k \in unsent}
                \cup ToSet(wire[l]) \cup ToSet(rqueue[l])
    IN  {f.n : f \in {f \in fs : f.lane = l /\ f.own = a}}

\* Across sessions and addons, frames of one addon arrive on a lane in the
\* order it sent them, each at most once: the lanes implement OrderedLane.
Lane == INSTANCE OrderedLane WITH
    Chan <- Lanes \X Addons, MaxNum <- MaxFrames,
    pend <- [c \in Lanes \X Addons |-> UnderWay(c[1], c[2])],
    seen <- [c \in Lanes \X Addons |-> seen[c[1]][c[2]]]
Ordered == Lane!Spec

\* When the addon has sent its last frame, its credit comes back, but for
\* what a teardown or a drain cut short took (`lost`), as long as it stays attached.
CreditsReturn == \A l \in Lanes : <>[](~live \/ sink # addon \/ out[l] <= lost[l])

-----------------------------------------------------------------------------
(* What the code says of itself and does not keep (README, section 3).     *)

\* "One addon at a time (it owns the lanes)" (serve_local): an addon that was
\* accepted and still runs is the one the agent writes to.
OwnsLanes == live => sink = addon

\* "A frame larger than the window still goes when nothing is in flight"
\* (send_cold): with nothing under way the window is open.
IdleIsOpen == \A l \in Lanes : live /\ sink = addon /\ Mine(l) = {} => out[l] = 0
=============================================================================
