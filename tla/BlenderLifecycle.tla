-------------------------- MODULE BlenderLifecycle --------------------------
(***************************************************************************)
(* The replica agent's supervision of Blender (agent/src/blender.rs): the  *)
(* QUIC session, the tray and one waiter thread per launch put events on a *)
(* queue, one task handles them; a thread per close kills what lingers.    *)
(* The task reads the session flag as it is when it looks, not as it was   *)
(* when the event was queued.                                              *)
(*                                                                         *)
(* Time is left out: a grace period, the ten seconds before a kill and the *)
(* three before a relaunch may end at any moment.  The events that only    *)
(* set the status line (PeerUp, AddonDetached) are left out of the queue.  *)
(***************************************************************************)
EXTENDS Naturals, Sequences, FiniteSets

CONSTANTS
    MaxOutside,  \* bound: connects, disconnects, session messages, tray clicks
    MaxCrashes,  \* bound: Blenders that end by themselves
    MaxFailed    \* bound: launches that fail

ASSUME LifecycleAssumption == MaxOutside \in Nat /\ MaxCrashes \in Nat /\ MaxFailed \in Nat

VARIABLES
    peerUp, sessionOn,  \* the flags, set by the QUIC session
    queue,              \* events on their way to the task
    \* the task
    loop,      \* "select", "relaunch" (asleep before a relaunch), "done"
    deadline,  \* is close_deadline set?
    wanted,
    \* Blender
    child,     \* the launch in the slot: its number, or 0
    alive,     \* launches whose process lives
    asked,     \* launches that were asked to quit
    launches,  \* number of launches
    leaving,   \* waiter threads that emptied the slot and have not said so
    killers,   \* threads asleep before a kill
    \* what the properties speak of
    byHand,    \* what the tray last asked for since a session began
    failed,    \* did the last launch fail?
    crossed,   \* has an exit been handled after a later launch?
    outside, crashes, fails   \* counters for the bounds

flags == <<peerUp, sessionOn>>
task == <<loop, deadline, wanted>>
blender == <<child, alive, asked, launches, leaving, killers>>
notes == <<byHand, failed, crossed>>
bounds == <<outside, crashes, fails>>
vars == <<flags, queue, task, blender, notes, bounds>>

Event == {"SessionOn", "SessionOff", "PeerDown", "Goodbye", "ChildExited",
          "ManualStart", "ManualStop", "Shutdown"}

Init ==
    /\ peerUp = FALSE /\ sessionOn = FALSE /\ queue = <<>>
    /\ loop = "select" /\ deadline = FALSE /\ wanted = FALSE
    /\ child = 0 /\ alive = {} /\ asked = {} /\ launches = 0 /\ leaving = 0 /\ killers = 0
    /\ byHand = "no" /\ failed = FALSE /\ crossed = FALSE
    /\ outside = 0 /\ crashes = 0 /\ fails = 0

Running == child # 0   \* blender_running

-----------------------------------------------------------------------------
(* PeerObserver and the tray: the flag, then the event.                    *)

Outside ==
    /\ outside < MaxOutside
    /\ outside' = outside + 1
    /\ UNCHANGED <<task, blender, notes, crashes, fails>>

PeerUp ==
    /\ Outside /\ ~peerUp
    /\ peerUp' = TRUE
    /\ UNCHANGED <<sessionOn, queue>>

\* A lost link ends the session.
PeerDown ==
    /\ Outside /\ peerUp
    /\ peerUp' = FALSE /\ sessionOn' = FALSE
    /\ queue' = Append(queue, "PeerDown")

Session(on) ==
    /\ Outside /\ peerUp
    /\ sessionOn' = on
    /\ queue' = Append(queue, IF on THEN "SessionOn" ELSE "SessionOff")
    /\ UNCHANGED peerUp

Goodbye ==
    /\ Outside /\ peerUp
    /\ queue' = Append(queue, "Goodbye")
    /\ UNCHANGED flags

\* The tray's start, stop and quit; stop_role.
Tray(e) ==
    /\ Outside
    /\ queue' = Append(queue, e)
    /\ UNCHANGED flags

-----------------------------------------------------------------------------
(* Launch and close                                                        *)

\* (A wrong launch: it does not look whether one is running.)
SpawnAlways ==
    \/ /\ child' = launches + 1 /\ launches' = launches + 1
       /\ alive' = alive \cup {launches + 1}
       /\ failed' = FALSE
       /\ UNCHANGED <<asked, leaving, killers, fails>>
    \/ /\ fails < MaxFailed
       /\ fails' = fails + 1 /\ failed' = TRUE
       /\ UNCHANGED blender

\* spawn_blender: nothing if one is in the slot.  A launch that fails, and
\* supervision switched off, leave the slot empty.
Spawn ==
    \/ /\ Running
       /\ UNCHANGED <<blender, failed, fails>>
    \/ /\ ~Running
       /\ child' = launches + 1 /\ launches' = launches + 1
       /\ alive' = alive \cup {launches + 1}
       /\ failed' = FALSE
       /\ UNCHANGED <<asked, leaving, killers, fails>>
    \/ /\ ~Running /\ fails < MaxFailed
       /\ fails' = fails + 1 /\ failed' = TRUE
       /\ UNCHANGED blender

\* (A wrong close: it asks and never kills.)
CloseAsks ==
    /\ asked' = IF Running THEN asked \cup {child} ELSE asked
    /\ UNCHANGED <<child, alive, launches, leaving, killers>>

\* close_blender: ask the addon to quit, and start the thread that kills.
Close ==
    /\ IF Running THEN asked' = asked \cup {child} /\ killers' = killers + 1
                  ELSE UNCHANGED <<asked, killers>>
    /\ UNCHANGED <<child, alive, launches, leaving>>

-----------------------------------------------------------------------------
(* Lifecycle.run                                                           *)

Take(e) ==
    /\ loop = "select" /\ queue # <<>> /\ Head(queue) = e
    /\ queue' = Tail(queue)
    /\ UNCHANGED <<flags, outside, crashes>>

OnSessionOn ==
    /\ Take("SessionOn")
    /\ deadline' = FALSE /\ wanted' = TRUE
    /\ Spawn
    /\ byHand' = "no"
    /\ UNCHANGED <<loop, crossed>>

\* SessionOff, PeerDown, Goodbye: end_session starts the grace.
EndSession ==
    /\ \E e \in {"SessionOff", "PeerDown", "Goodbye"} : Take(e)
    /\ deadline' = (deadline \/ Running)
    /\ UNCHANGED <<loop, wanted, blender, notes, fails>>

\* The grace is over: close, unless a session is on again.
Deadline ==
    /\ loop = "select" /\ deadline
    /\ deadline' = FALSE
    /\ IF sessionOn THEN UNCHANGED <<wanted, blender>> ELSE wanted' = FALSE /\ Close
    /\ UNCHANGED <<flags, queue, loop, notes, bounds>>

\* (A wrong exit handler: an exit is never followed by a relaunch.)
OnChildExitedRests ==
    /\ Take("ChildExited")
    /\ deadline' = FALSE
    /\ crossed' = (crossed \/ Running)
    /\ UNCHANGED <<loop, wanted, blender, byHand, failed, fails>>

\* Relaunch what a session still wants; otherwise nothing is left to close.
OnChildExited ==
    /\ Take("ChildExited")
    /\ \/ /\ wanted /\ sessionOn /\ peerUp
          /\ loop' = "relaunch"
          /\ UNCHANGED deadline
       \/ /\ ~(wanted /\ sessionOn /\ peerUp)
          /\ deadline' = FALSE
          /\ UNCHANGED loop
    /\ crossed' = (crossed \/ Running)
    /\ UNCHANGED <<wanted, blender, byHand, failed, fails>>

\* Three seconds later, whatever has been queued meanwhile.
Relaunch ==
    /\ loop = "relaunch"
    /\ loop' = "select"
    /\ Spawn
    /\ UNCHANGED <<flags, queue, deadline, wanted, byHand, crossed, outside, crashes>>

OnManualStart ==
    /\ Take("ManualStart")
    /\ wanted' = TRUE
    /\ Spawn
    /\ byHand' = "start"
    /\ UNCHANGED <<loop, deadline, crossed>>

\* (A wrong stop: the session's wish survives it.)
OnManualStopKeeps ==
    /\ Take("ManualStop")
    /\ deadline' = FALSE
    /\ Close
    /\ byHand' = "stop"
    /\ UNCHANGED <<loop, wanted, failed, crossed, fails>>

OnManualStop ==
    /\ Take("ManualStop")
    /\ wanted' = FALSE /\ deadline' = FALSE
    /\ Close
    /\ byHand' = "stop"
    /\ UNCHANGED <<loop, failed, crossed, fails>>

OnShutdown ==
    /\ Take("Shutdown")
    /\ Close
    /\ loop' = "done"
    /\ UNCHANGED <<deadline, wanted, notes, fails>>

\* stop_role aborts the task a moment after it sent Shutdown: a task that
\* is asleep before a relaunch never sees it.
Aborted ==
    /\ loop = "relaunch"
    /\ \E k \in 1..Len(queue) : queue[k] = "Shutdown"
    /\ loop' = "done"
    /\ UNCHANGED <<flags, queue, deadline, wanted, blender, notes, bounds>>

-----------------------------------------------------------------------------
(* The threads and the process                                             *)

\* Blender ends: it was asked to, or by itself.
BlenderEnds(c) ==
    /\ c \in alive
    /\ c \in asked \/ crashes < MaxCrashes
    /\ crashes' = IF c \in asked THEN crashes ELSE crashes + 1
    /\ alive' = alive \ {c}
    /\ UNCHANGED <<flags, queue, task, child, asked, launches, leaving, killers, notes, outside, fails>>

\* The waiter finds the process gone and empties the slot.
Reap ==
    /\ Running /\ child \notin alive
    /\ child' = 0
    /\ leaving' = leaving + 1
    /\ UNCHANGED <<flags, queue, task, alive, asked, launches, killers, notes, bounds>>

\* Outside the lock it says so.
SendChildExited ==
    /\ leaving > 0
    /\ leaving' = leaving - 1
    /\ queue' = Append(queue, "ChildExited")
    /\ UNCHANGED <<flags, task, child, alive, asked, launches, killers, notes, bounds>>

\* A closing thread wakes up: it kills what is in the slot, if anything is.
Kill ==
    /\ killers > 0
    /\ killers' = killers - 1
    /\ alive' = alive \ {child}
    /\ UNCHANGED <<flags, queue, task, child, asked, launches, leaving, notes, bounds>>

-----------------------------------------------------------------------------
Handle ==
    \/ OnSessionOn \/ EndSession \/ OnChildExited \/ OnManualStart \/ OnManualStop \/ OnShutdown

Observed ==
    \/ PeerUp \/ PeerDown \/ Goodbye
    \/ \E on \in BOOLEAN : Session(on)
    \/ \E e \in {"ManualStart", "ManualStop", "Shutdown"} : Tray(e)

Next ==
    \/ Observed
    \/ Handle \/ Deadline \/ Relaunch \/ Aborted
    \/ \E c \in alive : BlenderEnds(c)
    \/ Reap \/ SendChildExited \/ Kill

Spec == Init /\ [][Next]_vars

\* The task runs, its timers end and the threads go on.  Blender itself may
\* ignore that it was asked to quit.
FairSpec ==
    /\ Spec
    /\ WF_vars(Handle) /\ WF_vars(Deadline) /\ WF_vars(Relaunch)
    /\ WF_vars(Reap) /\ WF_vars(SendChildExited) /\ WF_vars(Kill)

-----------------------------------------------------------------------------
(* Properties                                                              *)

\* Every variable keeps its type.
TypeOK ==
    /\ peerUp \in BOOLEAN /\ sessionOn \in BOOLEAN /\ queue \in Seq(Event)
    /\ loop \in {"select", "relaunch", "done"} /\ deadline \in BOOLEAN /\ wanted \in BOOLEAN
    /\ child \in Nat /\ launches \in Nat /\ leaving \in Nat /\ killers \in Nat
    /\ alive \in SUBSET Nat /\ asked \in SUBSET Nat
    /\ byHand \in {"no", "start", "stop"} /\ failed \in BOOLEAN /\ crossed \in BOOLEAN
    /\ outside \in Nat /\ crashes \in Nat /\ fails \in Nat

\* However exits, kills, relaunches and new sessions cross, there are never
\* two Blenders on the replica (spawn_blender, the waiter's slot).
OneBlender == Cardinality(alive) <= 1

\* Blender follows the session: while a session is on, Blender ends up
\* running, whatever closes, kills and exits of earlier Blenders are still
\* under way (SessionOn, ChildExited).  Not after a stop by hand or a launch
\* that failed, which nothing retries.
FollowsSession ==
    <>[](sessionOn => Running \/ byHand = "stop" \/ failed \/ loop = "done")

\* When the session is over, or the role, Blender ends up closed
\* (end_session, the deadline, Shutdown).  The exceptions: it was started
\* by hand, or the exit of an earlier Blender was handled after the launch
\* of this one and took its deadline with it.
Closes ==
    <>[](Running => crossed \/ (loop # "done" /\ (sessionOn \/ byHand = "start")))

\* What the user stops stays stopped, also with the session on and a
\* relaunch under way (ManualStop).
StopSticks == <>[](byHand = "stop" => ~Running)

-----------------------------------------------------------------------------
(* What the code says of itself and does not keep (README, section 3).     *)

\* A kill hits only a Blender that was asked to quit (close_blender's
\* thread: "force-kill if it lingers").
KillsOwn == [][killers' < killers => alive \ alive' \subseteq asked]_vars
=============================================================================
