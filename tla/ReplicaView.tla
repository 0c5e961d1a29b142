----------------------------- MODULE ReplicaView -----------------------------
(***************************************************************************)
(* What the replica's viewport shows: the host's camera, frame and local   *)
(* view over the keyed hot lane (ring0/host_hot.py, ring1/visview.py), the *)
(* shot mode that overrides them, the project files that throw the screen  *)
(* away, and the kiosk that rebuilds it (ring0/replica_apply.py, kiosk.py).*)
(*                                                                         *)
(* Two threads of the replica share state.  The transport's IO thread sets *)
(* flags (SetShotMode, NudgeZoom, HandleGoodbye); the timer runs _tick,    *)
(* here in two steps because between the comparison with _last_hot and its *)
(* assignment (TickHead, TickRest) the IO thread may clear it.  A tick's   *)
(* timers are its inputs: `due` names those that have run out.  Messages   *)
(* arrive in order and once (LaneMerge and AgentLink have the rest);       *)
(* pictures, matrices and zooms are members of small sets.                 *)
(***************************************************************************)
EXTENDS Integers, Sequences, FiniteSets

CONSTANTS
    Objs, Colls, \* objects and collections of the project
    Places,      \* where the host's free view may look from
    Frames,      \* frames of the timeline
    Late,        \* objects the host makes after the session starts
    None,        \* no value
    MaxViews,    \* bound: changes of the host's view, or of the replica's zoom
    MaxFiles,    \* bound: files and blobs besides a pairing's, and goodbyes
    MaxShots,    \* bound: toggles of shot mode
    MaxFaults,   \* bound: views disturbed and screens laid out again behind the addon's back
    MaxEvents,   \* bound: all of these together
    MaxSessions, \* bound: host sessions
    MaxQueue     \* bound: blobs waiting

ASSUME ViewAssumption ==
    /\ {MaxViews, MaxFiles, MaxShots, MaxFaults, MaxEvents, MaxSessions, MaxQueue} \subseteq Nat
    /\ Late \subseteq Objs

VARIABLES
    host, \* the host's view, its shot_mode, its objects and its camera's passepartout
    hot,  \* the replica transport's _hot: the last value received per key
    rep,  \* the replica's main thread, and the flags the IO thread sets
    used  \* the bounds used up

vars == <<host, hot, rep, used>>

Lost == "lost"      \* a place no host view looks from: where Blender puts a view it has reset
Opaque == 0         \* shot mode's passepartout; a camera's own values are 1, 2, ...
MaxRetries == 3     \* kiosk._MAX_RETRIES

NoSig == [local |-> {}, colls |-> FALSE, hidden |-> {}]
Signatures == [local : SUBSET Objs, colls : BOOLEAN, hidden : SUBSET Colls]

Limit == [view |-> MaxViews, file |-> MaxFiles, shot |-> MaxShots, fault |-> MaxFaults, session |-> MaxSessions]
May(c) == used[c] < Limit[c] /\ used.view + used.file + used.shot + used.fault < MaxEvents + (IF c = "session" THEN 1 ELSE 0)
Use(c) == used' = [used EXCEPT ![c] = @ + 1]

\* replica_apply's globals and _shot, the viewport, and kiosk's globals (`at` is the next of the
\* queued steps, 0 for none).  `put` is the packet a tick has applied and not yet noted.
RepFresh ==
    [pc |-> "idle", put |-> None, lastHot |-> None, lastVis |-> None, bye |-> FALSE, paired |-> FALSE,
     ended |-> FALSE, off |-> 0, settle |-> FALSE, pend |-> <<>>,
     objs |-> {}, hasCam |-> FALSE, pp |-> 1,
     view |-> [cam |-> FALSE, bound |-> TRUE, place |-> Lost, frame |-> None, zoom |-> <<None, 0>>, vis |-> NoSig],
     shot |-> [on |-> FALSE, fit |-> FALSE, zoom |-> None, saved |-> None, restore |-> FALSE, region |-> None],
     kiosk |-> [want |-> TRUE, at |-> 1, full |-> FALSE, os |-> FALSE, header |-> TRUE, retries |-> 0]]

NoHot == [cam |-> None, vis |-> None]

-----------------------------------------------------------------------------
(* The kiosk.                                                              *)

Steps == <<"os_fullscreen", "area_fullscreen", "strip_chrome", "verify">>

Enter(k) == [k EXCEPT !.want = TRUE, !.retries = 0, !.at = 1]
Reassert(k) == IF k.want THEN [k EXCEPT !.retries = 0, !.at = 1] ELSE k
ExitNow(k) == [k EXCEPT !.want = FALSE, !.at = 0, !.full = FALSE, !.header = TRUE, !.os = FALSE]
Settled(k) == k.full /\ ~k.header

RunStep(k, name) ==
    CASE name = "os_fullscreen"   -> [k EXCEPT !.os = TRUE]
      [] name = "area_fullscreen" -> [k EXCEPT !.full = TRUE]
      [] name = "strip_chrome"    -> [k EXCEPT !.header = FALSE]
      [] name = "verify" /\ ~Settled(k) /\ k.retries < MaxRetries -> [k EXCEPT !.retries = @ + 1, !.at = 1]
      [] OTHER -> k

\* kiosk.service: one due step; the queue is four steps long.
Service(k) ==
    IF ~k.want \/ k.at = 0 THEN k
    ELSE RunStep([k EXCEPT !.at = IF @ = Len(Steps) THEN 0 ELSE @ + 1], Steps[k.at])

\* The first step comes half a second after a load, the others once the file has settled.
StepDue(r) == r.kiosk.want /\ r.kiosk.at > 0 /\ (r.kiosk.at > 1 => ~r.settle)

-----------------------------------------------------------------------------
Init ==
    /\ host = [on |-> FALSE, cam |-> FALSE, place |-> CHOOSE p \in Places : TRUE,
               frame |-> CHOOSE f \in Frames : TRUE, sig |-> NoSig, shot |-> FALSE, pp |-> 1, objs |-> Objs \ Late]
    /\ hot = NoHot
    /\ rep = [RepFresh EXCEPT !.kiosk = ExitNow(@)]   \* _session_watch has given the UI back since
    /\ used = [c \in DOMAIN Limit |-> 0]

-----------------------------------------------------------------------------
(* The replica's IO thread: flags only.                                    *)

\* Mutant.  Leaving shot mode asks for no restore.
SetShotForgets(r, on) == [r EXCEPT !.shot.on = on, !.shot.fit = on \/ @]
SetShotMode(r, on) ==
    IF r.shot.on = on THEN r
    ELSE IF on THEN [r EXCEPT !.shot.on = TRUE, !.shot.fit = TRUE, !.shot.zoom = None, !.lastHot = None]
    ELSE [r EXCEPT !.shot.on = FALSE, !.shot.restore = TRUE, !.lastHot = None]

NudgeZoom(r) == [r EXCEPT !.off = 1 - @, !.lastHot = None]

Received(r, item) == [r EXCEPT !.pend = Append(@, item)]

-----------------------------------------------------------------------------
(* The host.  A change and the sample that first shows it are one step, a  *)
(* message and its arrival another: between the two the replica would see  *)
(* nothing of either.                                                      *)

Blob(kind) == [kind |-> kind, pp |-> host.pp, objs |-> host.objs]
Room == Len(rep.pend) < MaxQueue
Live == host.on /\ rep.paired

\* host_hot._tick, and _sample_view_visibility of the sweep: latest wins, per key.
SampleHot(h) == [cam |-> [cam |-> h.cam, place |-> h.place, frame |-> h.frame], vis |-> h.sig]

StartSession ==
    /\ ~host.on /\ May("session")
    /\ host' = [host EXCEPT !.on = TRUE]
    /\ Use("session") /\ UNCHANGED <<hot, rep>>

\* A pairing: a bootstrap, and shot mode asserted again.
Handshaken(r) == [SetShotMode(Received(r, Blob("boot")), host.shot) EXCEPT !.paired = TRUE]
Handshake ==
    /\ host.on /\ ~rep.paired /\ Room
    /\ rep' = Handshaken(rep) /\ UNCHANGED <<host, hot, used>>

FirstSample ==
    /\ Live /\ hot # SampleHot(host)
    /\ hot' = SampleHot(host) /\ UNCHANGED <<host, rep, used>>

\* session.stop: the goodbye goes out, shot_mode is the next session's.
StopSession ==
    /\ host.on /\ May("file")
    /\ host' = [host EXCEPT !.on = FALSE, !.shot = FALSE]
    /\ rep' = [rep EXCEPT !.bye = @ \/ rep.paired, !.paired = FALSE]
    /\ Use("file") /\ UNCHANGED hot

ArtistsView(h) ==
    /\ Live /\ May("view") /\ h # host
    /\ host' = h /\ hot' = SampleHot(h)
    /\ Use("view") /\ UNCHANGED rep

Navigate ==
    \/ ArtistsView([host EXCEPT !.cam = ~@])
    \/ \E p \in Places : ArtistsView([host EXCEPT !.place = p])
    \/ \E f \in Frames : ArtistsView([host EXCEPT !.frame = f])

\* Local view, or a collection isolated in this viewport.
ShowOnly ==
    \E s \in Signatures :
        /\ s.local \in {{}, host.objs} /\ (s.hidden # {} => s.colls) /\ (s.local = {} \/ ~s.colls)
        /\ ArtistsView([host EXCEPT !.sig = s])

ShotModeToggle ==
    /\ Live /\ May("shot")
    /\ host' = [host EXCEPT !.shot = ~@]
    /\ rep' = SetShotMode(rep, ~host.shot)
    /\ Use("shot") /\ UNCHANGED hot

ReplicaZoom ==
    /\ Live /\ May("view")
    /\ rep' = NudgeZoom(rep)
    /\ Use("view") /\ UNCHANGED <<host, hot>>

\* What the cold lane brings: a file, the camera's blob, an object's.
SendCold ==
    /\ Live /\ May("file") /\ Room
    /\ \/ rep' = Received(rep, Blob("boot")) /\ UNCHANGED host
       \/ /\ host' = [host EXCEPT !.pp = @ + 1]
          /\ rep' = Received(rep, [Blob("cam") EXCEPT !.pp = @ + 1])
       \/ \E o \in Late \ host.objs :
            /\ host' = [host EXCEPT !.objs = @ \union {o}]
            /\ rep' = Received(rep, [Blob("obj") EXCEPT !.objs = {o}])
    /\ Use("file") /\ UNCHANGED hot

-----------------------------------------------------------------------------
(* One tick of the apply timer.                                            *)

HandleGoodbye(r) ==
    IF r.bye THEN [r EXCEPT !.bye = FALSE, !.lastHot = None, !.kiosk = ExitNow(@), !.ended = TRUE] ELSE r

\* The camera's frame follows; in shot mode nothing else does.
ApplyHot(r, p, again, frameOk) ==
    LET v == r.view
        frame == IF frameOk THEN p.frame ELSE v.frame
        through == [v EXCEPT !.cam = @ \/ r.hasCam,
                             !.bound = @ \/ (r.hasCam /\ (again \/ ~v.cam)),
                             !.zoom = <<None, r.off>>]
        free == [v EXCEPT !.cam = FALSE, !.bound = TRUE, !.place = p.place]
    IN  IF r.shot.on THEN [r EXCEPT !.view.frame = frame]
        ELSE [r EXCEPT !.view = [IF p.cam THEN through ELSE free EXCEPT !.frame = frame]]

\* visview.plan, and the operator calls _apply_vis makes of it.
Plan(have, want) ==
    [exit   |-> have.local # {} /\ want.local = {},
     enter  |-> IF have.local = {} THEN want.local ELSE {},
     add    |-> IF have.local # {} THEN want.local \ have.local ELSE {},
     remove |-> IF want.local # {} THEN have.local \ want.local ELSE {},
     set    |-> have.colls # want.colls,
     hide   |-> IF want.colls THEN want.hidden \ have.hidden ELSE {},
     show   |-> IF want.colls THEN have.hidden \ want.hidden
                ELSE IF have.colls THEN have.hidden ELSE {}]

Have(vis) == [vis EXCEPT !.hidden = IF vis.colls THEN @ ELSE {}]

ApplyVis(r, want) ==
    LET p == Plan(Have(r.view.vis), want)
        old == r.view.vis
        local == IF p.exit THEN {} ELSE IF p.enter # {} THEN p.enter \cap r.objs
                 ELSE (old.local \union (p.add \cap r.objs)) \ p.remove
        colls == IF p.set THEN want.colls ELSE old.colls
        hidden == IF colls THEN (old.hidden \union p.hide) \ p.show ELSE old.hidden
        moved == p.exit \/ p.enter # {}
    IN  [r EXCEPT !.view.vis = [local |-> local, colls |-> colls, hidden |-> hidden],
                  !.view.place = IF moved THEN Lost ELSE @,
                  !.lastHot = IF moved THEN None ELSE @]

ServiceVis(r, due) ==
    IF r.pend # <<>> \/ hot.vis = None \/ (hot.vis = r.lastVis /\ "vis" \notin due) THEN r
    ELSE [ApplyVis(r, hot.vis) EXCEPT !.lastVis = hot.vis]

\* A project file: Blender resets the screen, the kiosk starts over, on_project_loaded asks for it again.
LoadedProject(r, b) ==
    [r EXCEPT !.view = [@ EXCEPT !.cam = FALSE, !.bound = TRUE, !.place = Lost, !.vis = NoSig],
              !.hasCam = TRUE, !.pp = b.pp, !.objs = b.objs, !.ended = FALSE, !.settle = TRUE,
              !.kiosk = Enter(Reassert([@ EXCEPT !.full = FALSE, !.header = TRUE]))]

ApplyOne(r, b) ==
    CASE b.kind = "boot" -> LoadedProject(r, b)
      [] b.kind = "cam"  -> [r EXCEPT !.view.cam = FALSE, !.view.place = Lost, !.pp = b.pp]
      [] b.kind = "obj"  -> [r EXCEPT !.objs = @ \union b.objs]

\* The end of a batch: a blob may have replaced the camera the view looks through.
BatchEnds(r) == [r EXCEPT !.lastHot = None, !.shot.fit = @ \/ r.shot.on]

ApplyPendingBatch(r, due) ==
    IF r.pend = <<>> \/ "hold" \notin due THEN r
    ELSE BatchEnds(ApplyOne([r EXCEPT !.pend = Tail(@)], Head(r.pend)))

Region(r) == IF r.kiosk.full THEN "full" ELSE "area"

\* _service_shot: leave shot mode, or hold the camera, make it opaque and fit it to the region.
Restored(r) ==
    [r EXCEPT !.shot.restore = FALSE, !.shot.saved = None, !.shot.zoom = None,
              !.pp = IF r.hasCam /\ r.shot.saved # None THEN r.shot.saved ELSE @]

Shaded(r) ==
    IF ~r.hasCam THEN r
    ELSE [r EXCEPT !.shot.saved = IF @ = None THEN r.pp ELSE @, !.pp = Opaque]

\* Mutant.  The region is looked at once.
WatchedOnce(r) == [r EXCEPT !.shot.region = IF @ = None THEN Region(r) ELSE @]
Watched(r) ==
    [r EXCEPT !.shot.fit = @ \/ (r.shot.region # None /\ r.shot.region # Region(r)), !.shot.region = Region(r)]

Measured(r, due) ==
    IF r.shot.fit /\ r.hasCam /\ "measure" \in due
    THEN [r EXCEPT !.shot.zoom = Region(r), !.shot.fit = FALSE] ELSE r

Zoomed(r) == IF r.shot.zoom # None THEN [r EXCEPT !.view.zoom = <<r.shot.zoom, r.off>>] ELSE r

ServiceShot(r, due) ==
    IF r.shot.restore THEN Restored(r)
    ELSE IF ~r.shot.on THEN r
    ELSE IF ~r.view.cam THEN [r EXCEPT !.view.cam = TRUE, !.view.bound = r.hasCam]
    ELSE Zoomed(Measured(Watched(Shaded(r)), due))

ServiceKiosk(r, due) == IF StepDue(r) /\ "kiosk" \in due THEN [r EXCEPT !.kiosk = Service(@)] ELSE r

\* Mutant.  A packet is applied once and never again.
TickHeadOnce(due, seen, frameOk) ==
    /\ rep.pc = "idle"
    /\ \E r \in {HandleGoodbye(rep)} :
        LET fresh == hot.cam # None /\ hot.cam # r.lastHot
            again == FALSE
            p == IF fresh THEN hot.cam ELSE r.lastHot
        IN  \E q \in {IF seen /\ (fresh \/ again) THEN ApplyHot(r, p, again, frameOk \/ again) ELSE r} :
                rep' = [q EXCEPT !.pc = "rest", !.put = IF fresh THEN p ELSE None]
    /\ UNCHANGED <<host, hot, used>>

\* The first half of a tick: a packet that is new, or the last one again after a second.
TickHead(due, seen, frameOk) ==
    /\ rep.pc = "idle"
    /\ \E r \in {HandleGoodbye(rep)} :
        LET fresh == hot.cam # None /\ hot.cam # r.lastHot
            again == ~fresh /\ r.lastHot # None /\ due
            p == IF fresh THEN hot.cam ELSE r.lastHot
        IN  \E q \in {IF seen /\ (fresh \/ again) THEN ApplyHot(r, p, again, frameOk \/ again) ELSE r} :
                rep' = [q EXCEPT !.pc = "rest", !.put = IF fresh THEN p ELSE None]
    /\ UNCHANGED <<host, hot, used>>

\* The packet is noted; then visibility, the waiting blobs, shot mode, the kiosk.  Shot mode on a
\* viewport whose region is being rebuilt (not "seen") raises: one exception costs one tick.
Noted(r) == [r EXCEPT !.pc = "idle", !.put = None, !.lastHot = IF r.put = None THEN @ ELSE r.put]
TickRest(due) ==
    /\ rep.pc = "rest"
    /\ \E r1 \in {ServiceVis(Noted(rep), due)} : \E r2 \in {ApplyPendingBatch(r1, due)} :
       \E r3 \in {IF "seen" \in due \/ r2.shot.restore THEN ServiceShot(r2, due) ELSE r2} :
            rep' = IF r2.shot.on /\ ~r2.shot.restore /\ "seen" \notin due THEN r2 ELSE ServiceKiosk(r3, due)
    /\ UNCHANGED <<host, hot, used>>

\* _BOOT_SETTLE_S have passed since a file was applied.
SettleEnds ==
    /\ rep.settle /\ rep.kiosk.at # 1
    /\ rep' = [rep EXCEPT !.settle = FALSE] /\ UNCHANGED <<host, hot, used>>

Applying(r) == r.pend # <<>> \/ r.settle

\* Mutant.  Only a goodbye gives the UI back.
SessionWatchGoodbye ==
    /\ rep.pc = "idle" /\ ~host.on /\ rep.ended /\ rep.kiosk.want /\ ~Applying(rep)
    /\ rep' = [rep EXCEPT !.kiosk = ExitNow(@)] /\ UNCHANGED <<host, hot, used>>

\* _session_watch: the agent has reported the host's session off for a while, nothing is being applied.
SessionWatch ==
    /\ rep.pc = "idle" /\ ~host.on /\ rep.kiosk.want /\ ~Applying(rep)
    /\ rep' = [rep EXCEPT !.kiosk = ExitNow(@)] /\ UNCHANGED <<host, hot, used>>

-----------------------------------------------------------------------------
(* What happens to the screen behind the addon's back.                     *)

\* Someone moves the view on this machine, or a relayout leaves it looking through no camera.
Disturbed ==
    /\ rep.pc = "idle" /\ May("fault")
    /\ \/ rep' = [rep EXCEPT !.view.cam = FALSE, !.view.place = Lost]
       \/ rep.view.cam /\ rep' = [rep EXCEPT !.view.bound = FALSE]
    /\ Use("fault") /\ UNCHANGED <<host, hot>>

\* The end of an animation undoes a maximised area, before the kiosk has verified it.
LaidOutAgain ==
    /\ rep.pc = "idle" /\ May("fault") /\ rep.kiosk.full /\ rep.kiosk.at > 0
    /\ rep' = [rep EXCEPT !.kiosk.full = FALSE]
    /\ Use("fault") /\ UNCHANGED <<host, hot>>

\* The replica's Blender is started again: it knows nothing, and pairs again.
ReplicaRestarts ==
    /\ rep # RepFresh /\ May("fault")
    /\ rep' = RepFresh /\ hot' = NoHot
    /\ Use("fault") /\ UNCHANGED host

-----------------------------------------------------------------------------
\* The timers a tick's second half looks at, where they make a difference.
Timers ==
    {t \in {"seen", "vis", "hold", "measure", "kiosk"} :
        CASE t = "seen"    -> rep.shot.on
          [] t = "vis"     -> hot.vis # None /\ hot.vis = rep.lastVis /\ rep.pend = <<>>
          [] t = "hold"    -> rep.pend # <<>>
          [] t = "measure" -> rep.shot.on
          [] t = "kiosk"   -> rep.kiosk.want /\ rep.kiosk.at > 0}

Host == StartSession \/ Handshake \/ FirstSample \/ StopSession \/ Navigate \/ ShowOnly \/ ShotModeToggle \/ ReplicaZoom \/ SendCold
FirstHalf == \E due, seen, frameOk \in BOOLEAN : TickHead(due, seen, frameOk)
SecondHalf == \E due \in SUBSET Timers : TickRest(due)

Next ==
    \/ Host
    \/ FirstHalf \/ SecondHalf \/ SettleEnds \/ SessionWatch
    \/ Disturbed \/ LaidOutAgain \/ ReplicaRestarts

Spec == Init /\ [][Next]_vars

(* Threads and timers run, and again and again a tick finds the viewport   *)
(* there and its timers run out.  Each runs out by itself and stays so     *)
(* until it is served, and none undoes what another does: that a tick      *)
(* finds all of them so stands for ticks that find one after the other.    *)
Fairness ==
    /\ WF_vars(Handshake) /\ WF_vars(FirstSample)
    /\ SF_vars(TickHead(TRUE, TRUE, TRUE)) /\ SF_vars(TickRest(Timers))
    /\ WF_vars(SettleEnds) /\ SF_vars(SessionWatch)

FairSpec == Spec /\ Fairness

-----------------------------------------------------------------------------
(* Every variable holds what its Python counterpart may hold.              *)
Packets == [cam : BOOLEAN, place : Places, frame : Frames]
TypeOK ==
    /\ host.pp \in 1..MaxFiles + 1 /\ host.sig \in Signatures /\ Len(rep.pend) <= MaxQueue
    /\ hot.cam \in Packets \union {None} /\ hot.vis \in Signatures \union {None}
    /\ rep.lastHot \in Packets \union {None} /\ rep.put \in Packets \union {None}
    /\ rep.view.vis \in Signatures /\ rep.view.place \in Places \union {Lost}
    /\ rep.pp \in {Opaque} \union 1..MaxFiles + 1
    /\ rep.shot.saved \in {None} \union 1..MaxFiles + 1   \* never shot mode's own passepartout
    /\ rep.kiosk.at \in 0..Len(Steps) /\ rep.kiosk.retries \in 0..MaxRetries

(* Outside shot mode the camera is never left with shot mode's opaque      *)
(* passepartout, whatever order toggles, files, camera blobs and ticks     *)
(* come in (set_shot_mode on the IO thread, _service_shot on the tick).    *)
NeverLeftOpaque == ~rep.shot.on /\ ~rep.shot.restore => rep.pp # Opaque

Looks(r) ==
    /\ r.view.cam = host.cam /\ r.view.frame = host.frame
    /\ IF host.cam THEN r.view.bound /\ r.view.zoom = <<None, r.off>> ELSE r.view.place = host.place
    /\ Have(r.view.vis) = host.sig

(* Once the artist's hands are still, the replica shows what the host      *)
(* shows: camera or free view, frame, nudged zoom, local view and isolated *)
(* collections, though packets repeat byte for byte and are skipped, some  *)
(* land on a viewport being rebuilt, files and blobs reset the view, and   *)
(* the IO thread's clearing of _last_hot may be lost to a tick under way.  *)
FollowsHost == <>[](host.on /\ ~host.shot => Looks(rep) /\ ~rep.shot.on)

(* In shot mode the replica ends up in the camera's view, passepartout     *)
(* opaque, fitted to the region it has now, though the kiosk, a file or a  *)
(* camera blob changed region or camera since it was measured.             *)
ShotFits ==
    <>[](host.on /\ host.shot =>
           /\ rep.view.cam /\ rep.pp = Opaque /\ rep.view.frame = host.frame
           /\ rep.view.zoom = <<Region(rep), rep.off>>)

(* A wanted kiosk is reached, area maximised and header stripped, though   *)
(* files reset the screen and relayouts undo steps; and when the host's    *)
(* session is over this machine gets its UI back, also when the goodbye    *)
(* overtakes a file that engages the kiosk again (kiosk verify,            *)
(* _handle_goodbye, _session_watch).                                       *)
KioskRight == <>[](rep.kiosk.want => host.on /\ Settled(rep.kiosk))
=============================================================================
