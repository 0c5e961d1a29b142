------------------------------ MODULE PixelPath ------------------------------
(***************************************************************************)
(* The replica's picture on its way out: the viewport is read back into a  *)
(* frame ring (ring0/engine_qcb.py), an encode helper reads the ring and a *)
(* mux sends what it makes to a viewer (ring0/pixel_path.py), and the      *)
(* session asks for that pair, stops it and re-aims it (ring0/session.py). *)
(*                                                                         *)
(* Three kinds of threads share the globals of pixel_path: Blender's main  *)
(* thread, the workers of _start_pixel_path, which look for ffmpeg off the *)
(* main thread, and the supervisor, which respawns helper and mux.  The    *)
(* helper and the mux are processes outside src/qcbridge, modelled by what *)
(* the supervisor expects of them.  What a ring holds is its newest        *)
(* picture: FrameRing has the rest.                                        *)
(***************************************************************************)
EXTENDS Integers, FiniteSets

CONSTANTS
    Pics,        \* pictures the viewport may show
    MaxSessions, \* bound: replica sessions
    MaxAims,     \* bound: changes of working space or viewer
    MaxLoads,    \* bound: project files and goodbyes
    MaxViews,    \* bound: changes of the picture or its size
    MaxFaults    \* bound: helpers that crash, viewers that leave, children that cannot be
                 \* spawned, rings that cannot be made, an ffmpeg that is not there

ASSUME PixelAssumption == {MaxSessions, MaxAims, MaxLoads, MaxViews, MaxFaults} \subseteq Nat

VARIABLES
    main,    \* session.state and engine_qcb._st: the main thread
    view,    \* what the viewport shows: a picture and its size
    pp,      \* the globals of pixel_path
    workers, \* the _resolve_and_start threads that run
    sups,    \* the _supervise_native threads that run, with their children
    count    \* the bounds used up so far

vars == <<main, view, pp, workers, sups, count>>

Limit == [session |-> MaxSessions, aim |-> MaxAims, load |-> MaxLoads, view |-> MaxViews, fault |-> MaxFaults]
May(c) == count[c] < Limit[c]
Use(c) == count' = [count EXCEPT ![c] = @ + 1]

None == "none"
NoView == [pic |-> None, big |-> FALSE]
Black == "black"   \* what Cycles draws until its kernels and textures are there

\* pixel_path's globals before the first session.  `owner` is whose _proc and _cap_proc are.  Two
\* are history: `crossed`, a start() met a stop() or another start() half-way; `older`, what
\* the noted one was started with, or kept, that was no longer what the main thread asks for.
PathOff == [stop |-> FALSE, thread |-> 0, ring |-> 0, owner |-> 0, threads |-> 0,
            crossed |-> FALSE, older |-> {}]

\* engine_qcb._st before the first session.  `ring` numbers rings, 0 for none; `big` is its size;
\* `shown` its newest picture; `hash` the digest last published; `seen` is seen_signal.
MainOff == [on |-> FALSE, ended |-> FALSE, aim |-> 0, resolving |-> FALSE, note |-> FALSE,
            pc |-> "idle", then |-> None,
            ring |-> 0, rings |-> 0, big |-> FALSE, shown |-> None, hash |-> NoView, seen |-> FALSE,
            missed |-> FALSE]

Init ==
    /\ main = MainOff
    /\ view = [pic |-> Black, big |-> FALSE]
    /\ pp = PathOff
    /\ workers = {} /\ sups = {}
    /\ count = [c \in DOMAIN Limit |-> 0]

\* The main thread is not inside pixel_path.stop().  What the workers do holds it up nowhere.
Free == main.pc = "idle"

-----------------------------------------------------------------------------
(* session: requests.                                                      *)

\* _start_pixel_path: nothing while one resolves; the arguments are read now, by the main thread.
StartPixelPath(m, restart) ==
    IF m.resolving THEN main' = m /\ UNCHANGED workers
    ELSE /\ main' = [m EXCEPT !.resolving = TRUE]
         /\ workers' = workers \cup {[id |-> count["session"] + count["aim"] + count["load"],
                                      pc |-> IF restart THEN "kill" ELSE "resolve",
                                      aim |-> m.aim, ring |-> m.ring, joins |-> 0]}

\* adopt_scene
Adopt(m) == [m EXCEPT !.seen = FALSE, !.hash = NoView]

\* engine_qcb.start, or _regrow: a ring with nothing in it.
NewRing(m, big) == [m EXCEPT !.ring = m.rings + 1, !.rings = @ + 1, !.big = big, !.shown = None]

\* start, _start_replica
StartSession ==
    /\ ~main.on /\ Free /\ May("session") /\ Use("session")
    /\ StartPixelPath(Adopt(NewRing([main EXCEPT !.on = TRUE, !.ended = FALSE], FALSE)), FALSE)
    /\ UNCHANGED <<view, pp, sups>>

\* session.stop and _handle_goodbye: both go through pixel_path.stop, on the main thread.
StopSession ==
    /\ main.on /\ Free
    /\ main' = [main EXCEPT !.pc = "kill", !.then = "engine"]
    /\ UNCHANGED <<view, pp, workers, sups, count>>

Goodbye ==
    /\ main.on /\ Free /\ ~main.ended /\ May("load") /\ Use("load")
    /\ main' = [Adopt(main) EXCEPT !.pc = "kill", !.then = "goodbye"]
    /\ UNCHANGED <<view, pp, workers, sups>>

\* on_project_loaded, after a file: the working space may be another one (_follow_working).
ProjectLoaded ==
    /\ main.on /\ Free /\ May("load") /\ Use("load")
    /\ StartPixelPath([Adopt(main) EXCEPT !.ended = FALSE], FALSE)
    /\ UNCHANGED <<view, pp, sups>>

\* _cm_watch and _follow_working, or _viewer_watch: another matrix, or another viewer to call.
\* While one resolves the request is dropped, and nobody makes it again.
ReAim ==
    /\ main.on /\ Free /\ May("aim") /\ Use("aim")
    /\ StartPixelPath([main EXCEPT !.aim = @ + 1], TRUE)
    /\ pp' = IF main.resolving THEN [pp EXCEPT !.older = @ \cup {"aim"}] ELSE pp
    /\ UNCHANGED <<view, sups>>

-----------------------------------------------------------------------------
(* engine_qcb: the picture and the ring.                                   *)

\* The scene, the camera or the region has changed.
ViewChanges ==
    /\ main.on /\ May("view") /\ Use("view")
    /\ view' \in [pic : Pics, big : BOOLEAN] \ {view}
    /\ main' = [main EXCEPT !.missed = FALSE]
    /\ UNCHANGED <<pp, workers, sups>>

\* Mutant.  The helper is told to quit and the name is not kept.
RestartRingQuitOnly(name) ==
    /\ UNCHANGED pp
    /\ sups' = {IF s.id = pp.owner /\ s.cap = "run" THEN [s EXCEPT !.told = TRUE] ELSE s : s \in sups}

\* pixel_path.restart_ring: the next helper reads the new name, this one is told to quit.
RestartRing(name) ==
    /\ pp' = [pp EXCEPT !.ring = name, !.older = @ \ {"ring"}]
    /\ sups' = {IF s.id = pp.owner /\ s.cap = "run" THEN [s EXCEPT !.told = TRUE] ELSE s : s \in sups}

\* _publish, the part before the ring: black goes out until something is seen, and a picture
\* that is the one last published is skipped.
WarmUp == view.pic = Black /\ ~main.seen
Worth == IF WarmUp THEN main.shown # Black ELSE view # main.hash
Noted == IF WarmUp THEN main ELSE [main EXCEPT !.seen = TRUE, !.hash = view]

Draw ==
    /\ main.on /\ main.pc = "idle" /\ main.ring # 0 /\ Worth
    /\ view.big => main.big
    /\ main' = [Noted EXCEPT !.shown = view.pic]
    /\ UNCHANGED <<view, pp, workers, sups, count>>

\* _publish and _regrow: a picture the ring has no room for.
DrawRegrow ==
    /\ main.on /\ Free /\ main.ring # 0 /\ Worth /\ view.big /\ ~main.big
    /\ main' = [NewRing(Noted, TRUE) EXCEPT !.shown = view.pic]
    /\ RestartRing(main.rings + 1)
    /\ UNCHANGED <<view, workers, count>>

\* _regrow fails: the old ring stays, the picture is noted as published and is not.
DrawNoRing ==
    /\ main.on /\ Free /\ main.ring # 0 /\ Worth /\ view.big /\ ~main.big
    /\ May("fault") /\ Use("fault")
    /\ main' = [Noted EXCEPT !.missed = TRUE]
    /\ UNCHANGED <<view, pp, workers, sups>>

-----------------------------------------------------------------------------
(* pixel_path.stop, by the main thread or by a worker.                     *)

\* Somebody is inside start(), past its look at _thread.
Starting == \E w \in workers : w.pc = "start"

\* Mutant.  stop() terminates the children and does not tell the supervisor.
KillChildrenOnly ==
    /\ UNCHANGED pp
    /\ sups' = {IF s.id = pp.owner THEN [s EXCEPT !.cap = IF @ = "run" THEN "out" ELSE @,
                                                  !.mux = IF @ \in {"listen", "view"} THEN "out" ELSE @]
                ELSE s : s \in sups}

\* _stop is set; the children of whichever supervisor spawned last are terminated.
Kill ==
    /\ pp' = [pp EXCEPT !.stop = TRUE, !.crossed = Starting]
    /\ sups' = {IF s.id = pp.owner THEN [s EXCEPT !.cap = IF @ = "run" THEN "out" ELSE @,
                                                  !.mux = IF @ \in {"listen", "view"} THEN "out" ELSE @]
                ELSE s : s \in sups}

\* join(timeout): over when the thread is, or after five seconds, which only a thread that has
\* not been told to stop outlasts.
Joined(id) == (\A s \in sups : s.id # id \/ s.pc = "dead") \/ ~pp.stop

Forget == pp' = [pp EXCEPT !.thread = 0, !.owner = 0] /\ sups' = {s \in sups : s.id # pp.thread \/ s.pc # "dead"}

MainKill ==
    /\ main.pc = "kill" /\ Kill
    /\ main' = [main EXCEPT !.pc = "join"]
    /\ UNCHANGED <<view, workers, count>>

\* After the join the handler goes on.  session.stop closes the ring and calls stop() again.
MainJoin ==
    /\ main.pc = "join" /\ Joined(pp.thread) /\ Forget
    /\ main' = CASE main.then = "goodbye" -> [main EXCEPT !.pc = "idle", !.then = None, !.ended = TRUE]
                 [] main.then = "engine" -> [main EXCEPT !.pc = "kill", !.then = "last", !.ring = 0, !.shown = None]
                 [] main.then = "last" -> [main EXCEPT !.pc = "idle", !.then = None, !.on = FALSE, !.resolving = FALSE,
                                                               !.note = FALSE]
    /\ UNCHANGED <<view, workers, count>>

WorkerKill ==
    \E w \in workers :
    /\ w.pc = "kill" /\ Kill
    /\ workers' = (workers \ {w}) \cup {[w EXCEPT !.pc = "join", !.joins = pp.thread]}
    /\ UNCHANGED <<main, view, count>>

WorkerJoin ==
    \E w \in workers :
    /\ w.pc = "join" /\ Joined(w.joins) /\ Forget
    /\ workers' = (workers \ {w}) \cup {[w EXCEPT !.pc = "resolve"]}
    /\ UNCHANGED <<main, view, count>>

\* _resolve_and_start: ffmpeg is found, or was, and start() has done what it does.
Done(w) == main' = [main EXCEPT !.resolving = FALSE, !.note = FALSE] /\ workers' = workers \ {w}

\* Mutant.  start() does not look whether a thread is there.
LookAway == TRUE

\* start() does nothing when a thread is noted ...
NoThread == pp.thread = 0

WorkerLooks ==
    \E w \in workers :
    /\ w.pc = "resolve"
    /\ \/ ~NoThread /\ Done(w) /\ UNCHANGED pp
       \/ /\ NoThread /\ pp' = [pp EXCEPT !.crossed = Starting]
          /\ workers' = (workers \ {w}) \cup {[w EXCEPT !.pc = "start"]} /\ UNCHANGED main
    /\ UNCHANGED <<view, sups, count>>

\* ... and otherwise starts a supervisor under the worker's arguments, whatever the main thread has
\* asked for since: `after` is the session that is over when it starts, 0 while one is up.
Supervising(w) ==
    [id |-> pp.threads + 1, pc |-> "top", aim |-> w.aim, ring |-> 0, cap |-> None, mux |-> None, told |-> FALSE,
     after |-> IF main.on THEN 0 ELSE count["session"]]

WorkerStart ==
    \E w \in workers :
    /\ w.pc = "start" /\ Done(w) /\ sups' = sups \cup {Supervising(w)}
    /\ pp' = [pp EXCEPT !.stop = FALSE, !.ring = w.ring, !.thread = pp.threads + 1, !.threads = @ + 1,
                        !.crossed = main.pc = "join" \/ \E v \in workers : v.pc = "join",
                        !.older = {x \in {"ring", "aim"} : w[x] # main[x]}]
    /\ UNCHANGED <<view, count>>

\* ... or it is not: "stream OFF".
WorkerGivesUp ==
    \E w \in workers :
    /\ w.pc = "resolve" /\ May("fault") /\ Use("fault")
    /\ main' = [main EXCEPT !.resolving = FALSE, !.note = TRUE]
    /\ workers' = workers \ {w}
    /\ UNCHANGED <<view, pp, sups>>

-----------------------------------------------------------------------------
(* _supervise_native: one thread, two children, one pipe.                  *)

Becomes(s, t) == sups' = (sups \ {s}) \cup {t}

\* No ring yet: wait.  Otherwise the helper on the ring's name as it is now, and the mux.
Spawn ==
    \E s \in sups :
    /\ s.pc = "top" /\ ~pp.stop /\ pp.ring # 0
    /\ Becomes(s, [s EXCEPT !.pc = "run", !.ring = pp.ring, !.cap = "run", !.mux = "listen", !.told = FALSE])
    /\ pp' = [pp EXCEPT !.owner = s.id]
    /\ UNCHANGED <<main, view, workers, count>>

\* OSError: the thread ends, and stays noted in _thread.
SpawnFails ==
    \E s \in sups :
    /\ s.pc = "top" /\ ~pp.stop /\ pp.ring # 0 /\ May("fault") /\ Use("fault")
    /\ Becomes(s, [s EXCEPT !.pc = "dead"])
    /\ UNCHANGED <<main, view, pp, workers>>

\* Either child has left, or stop() was called: the other one is terminated.
Reap ==
    \E s \in sups :
    /\ s.pc = "run" /\ (pp.stop \/ s.cap = "out" \/ s.mux = "out")
    /\ Becomes(s, [s EXCEPT !.pc = "top", !.cap = None, !.mux = None])
    /\ UNCHANGED <<main, view, pp, workers, count>>

\* The thread returns: gone at once unless somebody still has to join it.
SupEnds ==
    \E s \in sups :
    /\ s.pc = "top" /\ pp.stop
    /\ sups' = sups \ {s}
    /\ UNCHANGED <<main, view, pp, workers, count>>

-----------------------------------------------------------------------------
(* The children.  A helper nobody reads from blocks on the pipe: it        *)
(* notices nothing until the mux is served or gives up listening.          *)

HelperLeaves ==
    \E s \in sups :
    /\ s.cap = "run" /\ s.mux # "listen" /\ (s.ring # main.ring \/ s.told)
    /\ Becomes(s, [s EXCEPT !.cap = "out"])
    /\ UNCHANGED <<main, view, pp, workers, count>>

HelperCrashes ==
    \E s \in sups :
    /\ s.cap = "run" /\ May("fault") /\ Use("fault")
    /\ Becomes(s, [s EXCEPT !.cap = "out"])
    /\ UNCHANGED <<main, view, pp, workers>>

ViewerJoins ==
    \E s \in sups :
    /\ s.mux = "listen" /\ Becomes(s, [s EXCEPT !.mux = "view"])
    /\ UNCHANGED <<main, view, pp, workers, count>>

\* listen_timeout
ListenEnds ==
    \E s \in sups :
    /\ s.mux = "listen" /\ Becomes(s, [s EXCEPT !.mux = "out"])
    /\ UNCHANGED <<main, view, pp, workers, count>>

ViewerLeaves ==
    \E s \in sups :
    /\ s.mux = "view" /\ May("fault") /\ Use("fault")
    /\ Becomes(s, [s EXCEPT !.mux = "out"])
    /\ UNCHANGED <<main, view, pp, workers>>

Step ==
    \/ StartSession \/ StopSession \/ Goodbye \/ ProjectLoaded \/ ReAim
    \/ ViewChanges \/ Draw \/ DrawRegrow \/ DrawNoRing
    \/ MainKill \/ MainJoin \/ WorkerKill \/ WorkerJoin
    \/ WorkerLooks \/ WorkerStart \/ WorkerGivesUp
    \/ Spawn \/ SpawnFails \/ Reap \/ SupEnds
    \/ HelperLeaves \/ HelperCrashes \/ ViewerJoins \/ ListenEnds \/ ViewerLeaves

\* Once a start() has met another thread's stop(), which may forget what it started or be undone,
\* or another start(), two supervisors may use the same _proc and _cap_proc, or one is noted that
\* has ended: what comes of that is left out.
Next == ~pp.crossed /\ Step

Spec == Init /\ [][Next]_vars

Fairness ==
    /\ WF_vars(Draw \/ DrawRegrow) /\ WF_vars(MainKill) /\ WF_vars(MainJoin)
    /\ WF_vars(WorkerKill) /\ WF_vars(WorkerJoin)
    /\ WF_vars(WorkerLooks) /\ WF_vars(WorkerStart)
    /\ WF_vars(Spawn) /\ WF_vars(Reap) /\ WF_vars(SupEnds)
    /\ WF_vars(HelperLeaves) /\ WF_vars(ListenEnds)
FairSpec == Spec /\ Fairness

-----------------------------------------------------------------------------
Running == {s \in sups : s.cap = "run"}

Pictures == Pics \cup {Black}
Views == [pic : Pictures, big : BOOLEAN]
Ids == 0..count["session"] + count["aim"] + count["load"]

\* Types, and: a supervisor between two rounds has no children, and one that runs has spawned both.
TypeOK ==
    /\ main \in [on : BOOLEAN, ended : BOOLEAN, aim : 0..MaxAims, resolving : BOOLEAN, note : BOOLEAN,
                 pc : {"idle", "kill", "join"}, then : {None, "goodbye", "engine", "last"},
                 ring : Nat, rings : Nat, big : BOOLEAN, shown : Pictures \cup {None},
                 hash : Views \cup {NoView}, seen : BOOLEAN, missed : BOOLEAN]
    /\ view \in Views
    /\ pp \in [stop : BOOLEAN, thread : Nat, ring : 0..main.rings, owner : Nat, threads : Nat,
               crossed : BOOLEAN, older : SUBSET {"ring", "aim"}]
    /\ \A w \in workers : w.id \in Ids /\ w.pc \in {"kill", "join", "resolve", "start"}
    /\ \A s \in sups :
       /\ s.pc \in {"top", "run", "dead"} /\ s.id \in 1..pp.threads /\ s.after \in 0..count["session"]
       /\ s.cap \in {None, "run", "out"} /\ s.mux \in {None, "listen", "view", "out"}
       /\ s.pc = "run" <=> s.cap # None /\ s.mux # None
       /\ s.pc # "run" <=> s.cap = None /\ s.mux = None

\* Never two supervisors, never two helpers on the ring: each stop() is followed by the end of
\* what it stops before anything new starts, also where sessions, files, goodbyes, re-aims and
\* regrows come while workers of this session or of the one before still resolve.  Except after
\* a start() inside another thread's stop(), or a stop() or start() inside a start() (`crossed`).
OneEncoder == pp.crossed \/ (Cardinality({s \in sups : s.pc # "dead"}) <= 1 /\ Cardinality(Running) <= 1)

\* A session that has been stopped leaves no helper behind that was started in it, or in the gap
\* before it: session.stop goes through pixel_path.stop twice, and supervisors do not respawn
\* after it.  What may run is one that a worker started which was still resolving at the stop.
NoneAfterStop == ~main.on => pp.crossed \/ \A s \in sups : s.pc = "dead" \/ s.after = count["session"]

Stalled == \E s \in sups : s.pc = "dead"
Live == \E s \in Running : s.ring = main.ring /\ s.aim = main.aim /\ main.shown = view.pic

\* Whatever is re-aimed, regrown, crashed or left by its viewer: as long as a project is up, a
\* helper always comes back that reads the ring in use, under the parameters last asked for, and
\* the ring holds what the viewport shows.  Excused: no ffmpeg (note), a spawn that failed
\* (Stalled), a ring that could not be made (missed), a start() that met a stop() or another start() (crossed);
\* and a request that came while a worker resolved: a re-aim that was dropped, or a ring or an aim
\* that was new when the worker's start() put the one it had read before in its place (older),
\* until a regrow or a re-aim puts that right.
StreamComesBack ==
    []<>(\/ ~main.on \/ main.ended \/ main.note \/ main.missed \/ Stalled
         \/ pp.crossed \/ pp.older # {} \/ Live)
=============================================================================
