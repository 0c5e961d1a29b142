------------------------------ MODULE HostFlush ------------------------------
(***************************************************************************)
(* How an artist's edit becomes a message: the depsgraph handler and the   *)
(* sweep that notice it, the dirty set and the debouncer that hold it, the *)
(* shadow that tells what changed, the blob hashes that tell what need not *)
(* go, and flush_tick, which sends (ring0/host_handlers.HostSync,          *)
(* ring1/dirtyset.py, shadow.py, registry.py, classifier.py).              *)
(*                                                                         *)
(* HostLanes and LaneMerge have the two lanes' order and losses; here a    *)
(* message that is sent arrives, and the question is whether everything    *)
(* that changed is sent.  A datablock's data is four attributes, one per   *)
(* way of noticing a change: `light` is a tracked path with a depsgraph    *)
(* event, `swept` a tracked path without one, `heavy` is what only a blob  *)
(* or the file carries (a "~" path of the snapshot), `ptr` a pointer that  *)
(* rides as a name.  A refused send is a choice of the action's.           *)
(***************************************************************************)
EXTENDS Integers, FiniteSets

CONSTANTS
    Meshes,    \* datablocks of types that are only ever sent as blobs
    Objects,   \* datablocks with tracked paths and blobs
    Scenes,    \* datablocks with tracked paths and no blob: the file carries them
    Worlds,    \* the one a scene's pointer names; without users until it does
    None,      \* no value
    Chunks,    \* chunks of a blob or a file
    PerTick,   \* _T2_PER_TICK
    MaxEdits,  \* bound: edits, in all
    MaxBoots,  \* bound: files sent on request
    Allowed    \* what else may happen: see Unusual

D == Meshes \union Objects \union Scenes \union Worlds
Tracked == D \ Meshes      \* TRACKED has a row for the type (_type_key)
Sendable == D \ Scenes     \* tier2_io.serialize has bytes for it

(* Circumstances in which the code does not do what it promises (README).  *)
Unusual == {"covered",    \* the scene's structure changes within ten seconds of a bootstrap
            "revert",     \* a value goes back to one it had before
            "paused",     \* the artist pauses while a file's hashes are still to be taken
            "fallback",   \* what a scene's escalation sends beside its file gets no credit
            "ghost",      \* a file is opened while a blob is half sent
            "undo",       \* a deletion is undone after the datablock's blob was hashed
            "unswept",    \* a deletion is undone, or an undo deleted, before the sweep saw it
            "withheld",   \* the same after a sweep while paused: neither tombstone nor blob has left
            "unsampled"}  \* a silent change is hashed before the sweep sees it: HashedFirst

ASSUME FlushAssumption ==
    /\ {Chunks, PerTick} \subseteq Nat \ {0} /\ {MaxEdits, MaxBoots} \subseteq Nat
    /\ Allowed \subseteq Unusual
    /\ Scenes \cap (Meshes \union Objects \union Worlds) = {} /\ Worlds \cap (Meshes \union Objects) = {}
    /\ \A v, w \in Worlds : v = w

VARIABLES
    scene, \* the host's datablocks
    x,     \* HostSync, and `rep`: what has been sent of each datablock
    used   \* the bounds used up

vars == <<scene, x, used>>

Values == 0..MaxEdits
Tomb == -1

Snapshot == [light : Values, heavy : Values, swept : Values, ptr : BOOLEAN]
File == [D -> Snapshot \union {None}]
Box == [left : 1..Chunks, val : Snapshot]
Boot == [left : 1..Chunks, file : File]

ASSUME NoneAssumption == None \notin Values /\ None \notin Snapshot /\ None \notin Box /\ None \notin Boot

\* build_snapshot, and what tier2_io.serialize writes: everything but the users.
BuildSnapshot(s, u) == [light |-> s[u].light, heavy |-> s[u].heavy, swept |-> s[u].swept, ptr |-> s[u].ptr]
Now(u) == BuildSnapshot(scene, u)
BlobDigest(u) == Now(u)
Structure(snapshot) == snapshot.heavy   \* the "~" paths
SweepVector(s, u) == s[u].swept

InFile(s, u) == s[u].alive /\ s[u].used   \* a full save writes no orphans

\* _initial_scan: everything is stamped and known; what the file will carry has a shadow.
InitialScan(y, s) ==
    LET live == {u \in D : s[u].alive}
    IN  [y EXCEPT !.reg = live, !.known = live, !.dirty = [u \in D |-> 0], !.touch = [u \in D |-> "no"],
                  !.stuck = {},
                  !.shadow = [u \in D |-> IF u \in Tracked /\ InFile(s, u) THEN BuildSnapshot(s, u) ELSE None],
                  !.vis = [u \in D |-> IF u \in Objects /\ InFile(s, u) THEN SweepVector(s, u) ELSE @[u]]]

NewBlock(u) == [alive |-> TRUE, used |-> u \notin Worlds, light |-> 0, heavy |-> 0, swept |-> 0, ptr |-> FALSE]
NewScene == [u \in D |-> NewBlock(u)]

\* HostSync.__init__.
HostSync ==
    [pc |-> "idle", todo |-> [u \in D |-> 0], budget |-> 0,
     reg |-> {}, known |-> {}, shadow |-> [u \in D |-> None], vis |-> [u \in D |-> None],
     dirty |-> [u \in D |-> 0], touch |-> [u \in D |-> "no"], stuck |-> {},
     hash |-> [u \in D |-> None], shipped |-> {}, prime |-> {},
     box |-> [u \in D |-> None], boot |-> None, suppress |-> TRUE, drop |-> FALSE,
     auto |-> FALSE, recent |-> FALSE, paused |-> FALSE,
     rep |-> [u \in D |-> None]]

Init ==
    /\ scene = NewScene
    /\ x = InitialScan(HostSync, NewScene)
    /\ used = [edit |-> 0, boot |-> 0]

Use(c) == used' = [used EXCEPT ![c] = @ + 1]

-----------------------------------------------------------------------------
(* DirtySet, Debouncer.                                                    *)

\* DirtySet.mark and requeue: the tier only rises, and deleted stays deleted.
Ratchet(d, tier) == IF d = Tomb THEN Tomb ELSE IF d > tier THEN d ELSE tier
Mark(y, u, tier) == [y EXCEPT !.dirty[u] = Ratchet(@, tier)]

\* DirtySet.mark_deleted: a tombstone only for what the peer may know.
MarkDeleted(y, u) == IF u \in y.known THEN Tomb ELSE 0

\* Debouncer.touch; _touch_ready backdates it.  (`stuck`, which the code does not
\* have: a delta of it was refused, and nothing has touched it since.)
Touch(y, u) == [y EXCEPT !.touch[u] = "fresh", !.stuck = @ \ {u}]
TouchReady(y, u) == [y EXCEPT !.touch[u] = "ripe", !.stuck = @ \ {u}]

\* DEBOUNCE_S have passed since the datablock was last touched.
Ripens(u) ==
    /\ x.pc = "idle" /\ x.touch[u] = "fresh"
    /\ x' = [x EXCEPT !.touch[u] = "ripe"] /\ UNCHANGED <<scene, used>>

-----------------------------------------------------------------------------
(* Edits, and on_depsgraph where Blender reports them.                     *)

EnsureUuid(y, us) == [y EXCEPT !.reg = @ \union us]

\* classify_update: tier 2 for types without tracked paths; a bake of an object's
\* nodes changes nothing a snapshot shows and is a resend too.
Tier(u, bake) == IF u \in Tracked /\ ~bake THEN 1 ELSE 2

OnDepsgraph(y, u, bake) ==
    IF y.suppress THEN y ELSE Touch(Mark(EnsureUuid(y, {u}), u, Tier(u, bake)), u)

HasBakeNodes(u) == u \in Objects

MayEdit == x.pc = "idle" /\ ~x.drop /\ used.edit < MaxEdits
NewValues(u, f) == IF "revert" \in Allowed THEN Values \ {scene[u][f]} ELSE {used.edit + 1}

Edit(u, f, bake) ==
    /\ MayEdit /\ scene[u].alive
    /\ f = "light" => u \in Tracked
    /\ bake => HasBakeNodes(u) /\ f = "heavy"
    /\ (u \in Scenes /\ f = "heavy" /\ x.recent) => "covered" \in Allowed
    /\ \E v \in NewValues(u, f) : scene' = [scene EXCEPT ![u][f] = v]
    /\ x' = OnDepsgraph(x, u, bake) /\ Use("edit")

\* A custom property, an eye toggle, a rename: no event.  The hash of a datablock
\* only a blob will carry may be taken before the sweep that would mark it.
HashedFirst(u) ==
    \/ u \in Meshes /\ (x.vis[u] = None \/ x.box[u] # None)
    \/ u \in x.prime /\ (u \in Tracked => x.shadow[u] = None \/ Structure(x.shadow[u]) # Structure(Now(u)))
EditSilently(u) ==
    /\ MayEdit /\ scene[u].alive
    /\ (~x.suppress /\ HashedFirst(u)) => "unsampled" \in Allowed
    /\ \E v \in NewValues(u, "swept") : scene' = [scene EXCEPT ![u].swept = v]
    /\ Use("edit") /\ UNCHANGED x

\* A scene is given a world: the event is the scene's.
Point(u) ==
    /\ MayEdit /\ u \in Scenes /\ scene[u].alive /\ ~scene[u].ptr
    /\ scene' = [d \in D |-> IF d = u THEN [scene[d] EXCEPT !.ptr = TRUE]
                             ELSE IF d \in Worlds THEN [scene[d] EXCEPT !.used = TRUE] ELSE scene[d]]
    /\ x' = OnDepsgraph(x, u, FALSE) /\ Use("edit")

\* The replica has the datablock, or the file under way has.
OnReplica(u) == x.rep[u] # None \/ (x.boot # None /\ x.boot.file[u] # None)
Delete(u) ==
    /\ MayEdit /\ u \in Meshes \union Objects /\ scene[u].alive
    /\ u \notin x.reg => "unswept" \in Allowed
    /\ (u \notin x.known /\ OnReplica(u)) => "withheld" \in Allowed
    /\ scene' = [scene EXCEPT ![u].alive = FALSE]
    /\ Use("edit") /\ UNCHANGED x

Undo(u) ==
    /\ MayEdit /\ ~scene[u].alive
    /\ x.hash[u] # None => "undo" \in Allowed
    /\ (u \in x.reg /\ ~x.suppress) => "unswept" \in Allowed
    /\ x.dirty[u] = Tomb => "withheld" \in Allowed
    /\ scene' = [scene EXCEPT ![u].alive = TRUE]
    /\ Use("edit") /\ UNCHANGED x

Pause ==
    /\ MayEdit /\ ~x.paused
    /\ (x.prime # {} \/ x.auto \/ x.suppress) => "paused" \in Allowed
    /\ x' = [x EXCEPT !.paused = TRUE]
    /\ Use("edit") /\ UNCHANGED scene

Resume ==
    /\ x.pc = "idle" /\ x.paused
    /\ x' = [x EXCEPT !.paused = FALSE] /\ UNCHANGED <<scene, used>>

-----------------------------------------------------------------------------
(* The file.                                                               *)

\* send_bootstrap: serialized now; what the replica will hold is known, its hashes are not.
SendBootstrap(y, s) ==
    LET in == {u \in y.reg : InFile(s, u)}
    IN  [y EXCEPT !.boot = [left |-> Chunks, file |-> [u \in D |-> IF InFile(s, u) THEN BuildSnapshot(s, u) ELSE None]],
                  !.shipped = in, !.hash = [u \in D |-> None], !.prime = in \cap Sendable,
                  !.suppress = FALSE, !.recent = TRUE]

\* The handshake's file, or a resync's.
Bootstrap ==
    /\ x.pc = "idle" /\ used.boot < MaxBoots /\ (x.paused => "paused" \in Allowed)
    /\ x' = SendBootstrap(x, scene)
    /\ Use("boot") /\ UNCHANGED scene

\* reset_for_new_file: here the version of the project the session started with.
NewFile ==
    /\ MayEdit /\ used.boot < MaxBoots /\ (x.paused => "paused" \in Allowed)
    /\ (\E u \in D : x.box[u] # None) => "ghost" \in Allowed
    /\ scene' = NewScene
    /\ x' = [SendBootstrap(InitialScan(x, scene'), scene') EXCEPT !.drop = TRUE]
    /\ used' = [used EXCEPT !.boot = @ + 1, !.edit = @ + 1]

\* The whole-scene batch that follows a load, which the file covers.
DropBatch ==
    /\ x.pc = "idle" /\ x.drop
    /\ x' = [x EXCEPT !.drop = FALSE] /\ UNCHANGED <<scene, used>>

\* One chunk of the file; the last one makes the replica the file.
SendBootChunk ==
    /\ x.pc = "idle" /\ x.boot # None
    /\ x' = IF x.boot.left > 1 THEN [x EXCEPT !.boot.left = @ - 1]
            ELSE [x EXCEPT !.boot = None, !.rep = x.boot.file]
    /\ UNCHANGED <<scene, used>>

\* _AUTO_BOOT_COVERED_S have passed since a file was serialized.
GrowsOld ==
    /\ x.pc = "idle" /\ x.recent
    /\ x' = [x EXCEPT !.recent = FALSE] /\ UNCHANGED <<scene, used>>

-----------------------------------------------------------------------------
(* flush_tick.  The boxes go first; a tick ends where one is refused.      *)

BoxesEmpty == \A u \in D : x.box[u] = None
Flushing == x.pc = "idle" /\ x.boot = None /\ ~x.suppress

Delivered(y, u, val) == [y EXCEPT !.box[u] = None, !.shipped = @ \union {u}, !.rep[u] = val]

\* _drain_t2_outbox.
SendT2Chunk(u) ==
    /\ Flushing /\ x.box[u] # None
    /\ x' = IF x.box[u].left > 1 THEN [x EXCEPT !.box[u].left = @ - 1] ELSE Delivered(x, u, x.box[u].val)
    /\ UNCHANGED <<scene, used>>

\* The bootstrap a change of the scene's structure asked for, unless one "just went out".
AutoBoot ==
    /\ Flushing /\ BoxesEmpty /\ x.auto
    /\ x' = IF x.recent THEN [x EXCEPT !.auto = FALSE] ELSE SendBootstrap([x EXCEPT !.auto = FALSE], scene)
    /\ UNCHANGED <<scene, used>>

\* _sweep_visibility: what no event reports.  A mesh's first sample primes only.
Seen(y, u) == scene[u].alive /\ u \in y.reg
SweepVisibility(y) ==
    LET changed == {u \in D : Seen(y, u) /\ y.vis[u] # SweepVector(scene, u)}
        marked == {u \in changed : u \in Tracked \/ y.vis[u] # None}
    IN  [y EXCEPT !.vis = [u \in D |-> IF u \in changed THEN SweepVector(scene, u) ELSE @[u]],
                  !.dirty = [u \in D |-> IF u \in marked THEN Ratchet(@[u], Tier(u, FALSE)) ELSE @[u]],
                  !.touch = [u \in D |-> IF u \in marked THEN "ripe" ELSE @[u]],
                  !.stuck = @ \ marked]

\* Mutant.  What is gone, or back, changes the registry and is not marked.
SweepDeletionsQuietly(y) ==
    LET dead == {u \in y.reg : ~scene[u].alive}
    IN  [y EXCEPT !.reg = @ \ dead,
                  !.shadow = [u \in D |-> IF u \in dead THEN None ELSE @[u]],
                  !.touch = [u \in D |-> IF u \in dead THEN "no" ELSE @[u]],
                  !.dirty = [u \in D |-> IF u \in dead THEN 0 ELSE @[u]]]

\* _sweep_deletions: what undo has brought back, and what is gone.
SweepDeletions(y) ==
    LET back == {u \in D : scene[u].alive /\ u \notin y.reg}
        dead == {u \in y.reg : ~scene[u].alive}
    IN  [y EXCEPT !.reg = (@ \union back) \ dead,
                  !.shadow = [u \in D |-> IF u \in dead THEN None ELSE @[u]],
                  !.touch = [u \in D |-> IF u \in dead THEN "no" ELSE IF u \in back THEN "fresh" ELSE @[u]],
                  !.stuck = (@ \ dead) \ back,
                  !.dirty = [u \in D |-> IF u \in back THEN Ratchet(@[u], 2)
                                          ELSE IF u \in dead THEN MarkDeleted(y, u) ELSE @[u]]]

\* _prime_hashes: idle, or paused.
PrimeHashes(y, u) ==
    [y EXCEPT !.prime = @ \ {u}, !.hash[u] = IF @ = None /\ Seen(y, u) THEN BlobDigest(u) ELSE @]

\* Mutant.  What is put back loses its touch.
DrainForgetsTouch(y, refused) ==
    LET tombs == {u \in D : y.dirty[u] = Tomb}
        go == {u \in D : y.dirty[u] > 0 /\ y.touch[u] = "ripe"}
    IN  [y EXCEPT !.known = (@ \union {u \in D : y.dirty[u] > 0}) \ (tombs \ refused),
                  !.rep = [u \in D |-> IF u \in tombs \ refused THEN None ELSE @[u]],
                  !.dirty = [u \in D |-> IF u \in go \union (tombs \ refused) THEN 0 ELSE @[u]],
                  !.todo = [u \in D |-> IF u \in go THEN y.dirty[u] ELSE 0],
                  !.touch = [u \in D |-> "no"],
                  !.budget = PerTick, !.pc = "flush"]

\* DirtySet.drain, the tombstones, and what is still being edited put back.
Drain(y, refused) ==
    LET tombs == {u \in D : y.dirty[u] = Tomb}
        go == {u \in D : y.dirty[u] > 0 /\ y.touch[u] = "ripe"}
    IN  [y EXCEPT !.known = (@ \union {u \in D : y.dirty[u] > 0}) \ (tombs \ refused),
                  !.rep = [u \in D |-> IF u \in tombs \ refused THEN None ELSE @[u]],
                  !.dirty = [u \in D |-> IF u \in go \union (tombs \ refused) THEN 0 ELSE @[u]],
                  !.todo = [u \in D |-> IF u \in go THEN y.dirty[u] ELSE 0],
                  !.touch = [u \in D |-> IF y.touch[u] = "ripe" THEN "no" ELSE y.touch[u]],
                  !.budget = PerTick, !.pc = "flush"]

\* The turn of flush_tick itself, sweeping or not: nothing to do, or paused, or a
\* drain, in which tombstones may be refused.
Tick(sweep, mayRefuse) ==
    /\ Flushing /\ BoxesEmpty
    /\ \E v \in {SweepVisibility(x)} : \E y \in {IF sweep THEN SweepDeletions(v) ELSE x} :
         IF y.paused \/ \A u \in D : y.dirty[u] = 0
         THEN x' \in IF y.prime = {} THEN {y} ELSE {PrimeHashes(y, u) : u \in y.prime}
         ELSE \E refused \in SUBSET {u \in D : y.dirty[u] = Tomb} :
                /\ refused # {} => mayRefuse
                /\ x' = Drain(y, refused)
    /\ UNCHANGED <<scene, used>>

\* _flush_t2: the blob, unless the replica holds exactly this; `left` chunks of it are refused.
FlushT2(y, u, left) ==
    LET z == [y EXCEPT !.shadow[u] = IF u \in Tracked THEN Now(u) ELSE @]
    IN  IF ~Seen(y, u) THEN y
        ELSE IF u \in Scenes THEN [y EXCEPT !.auto = TRUE]
        ELSE IF u \in y.shipped /\ y.hash[u] = BlobDigest(u) THEN z
        ELSE IF left = 0 THEN Delivered([z EXCEPT !.hash[u] = BlobDigest(u)], u, Now(u))
        ELSE [z EXCEPT !.hash[u] = BlobDigest(u), !.box[u] = [left |-> left, val |-> Now(u)]]

\* _send_t1: a target the replica may lack goes first; a refused delta is put
\* back with the shadow it had.  A delta writes the tracked paths that differ.
Refused(y, u, old) ==
    [Mark(y, u, 1) EXCEPT !.shadow[u] = IF old = None THEN @ ELSE old, !.stuck = @ \union {u}]
Applied(y, u, was) ==
    IF y.rep[u] = None THEN y
    ELSE [y EXCEPT !.rep[u] = [f \in DOMAIN @ |-> IF f # "heavy" /\ was[f] # Now(u)[f] THEN Now(u)[f] ELSE @[f]]]

\* Mutant.  A target is taken to have been sent.
TargetsAssumed(y, u, was) == {}
Targets(y, u, was) == IF scene[u].ptr /\ ~was.ptr THEN {w \in Worlds : scene[w].alive} \ y.shipped ELSE {}

SendT1(y, u, was, old, ok, left) ==
    LET ws == Targets(y, u, was)
        z == IF ws = {} THEN y
             ELSE FlushT2(EnsureUuid(y, ws), CHOOSE w \in ws : TRUE, left)
    IN  IF ~ok \/ \E w \in ws : z.box[w] # None THEN Refused(z, u, old) ELSE Applied(z, u, was)

\* _flush_t1: first contact goes whole, a structural change escalates (a scene's
\* asks for a bootstrap and sends what it can), the rest is a delta.
FlushT1(y, u, ok, left) ==
    LET was == y.shadow[u]
        z == [y EXCEPT !.shadow[u] = Now(u)]
    IN  IF ~Seen(y, u) THEN y
        ELSE IF was = None THEN IF scene[u].used THEN FlushT2(z, u, left) ELSE z
        ELSE IF Structure(was) # Structure(Now(u))
             THEN IF u \in Scenes THEN [SendT1(z, u, was, None, ok, left) EXCEPT !.auto = TRUE]
                  ELSE FlushT2(z, u, left)
        ELSE IF was = Now(u) THEN z
        ELSE SendT1(z, u, was, was, ok, left)

\* A scene whose structure has changed: its delta goes with no shadow to put back.
Escalates(u) ==
    u \in Scenes /\ x.todo[u] = 1 /\ x.shadow[u] # None /\ Structure(x.shadow[u]) # Structure(Now(u))

\* One entry of the loop of flush_tick; blobs beyond the tick's budget wait for the next.
FlushOne(u) ==
    /\ x.pc = "flush" /\ x.todo[u] # 0
    /\ \E ok \in BOOLEAN, left \in 0..Chunks, y \in {[x EXCEPT !.todo[u] = 0]} :
         /\ (Escalates(u) /\ (~ok \/ left > 0)) => "fallback" \in Allowed
         /\ x' = IF x.todo[u] = 1 THEN FlushT1(y, u, ok, left)
                 ELSE IF x.budget = 0 THEN TouchReady(Mark(y, u, 2), u)
                 ELSE FlushT2([y EXCEPT !.budget = @ - 1], u, left)
    /\ UNCHANGED <<scene, used>>

TickEnds ==
    /\ x.pc = "flush" /\ \A u \in D : x.todo[u] = 0
    /\ x' = [x EXCEPT !.pc = "idle", !.budget = 0] /\ UNCHANGED <<scene, used>>

-----------------------------------------------------------------------------
Edits ==
    \/ \E u \in D, f \in {"light", "heavy"}, bake \in BOOLEAN : Edit(u, f, bake)
    \/ \E u \in D : EditSilently(u) \/ Point(u) \/ Delete(u) \/ Undo(u)
    \/ NewFile \/ Pause \/ Resume

Ticks ==
    \/ \E u \in D : Ripens(u) \/ SendT2Chunk(u) \/ FlushOne(u)
    \/ SendBootChunk \/ AutoBoot \/ GrowsOld \/ DropBatch \/ TickEnds
    \/ \E sweep \in BOOLEAN : Tick(sweep, TRUE)

Next == Edits \/ Bootstrap \/ Ticks

Spec == Init /\ [][Next]_vars

\* The flush timer is persistent and runs every 25 ms, sweeping every ten ticks;
\* a session that is up has had its handshake's file; lanes get their credit back.
TimerRuns ==
    \/ SendBootChunk \/ DropBatch \/ TickEnds \/ (x.suppress /\ Bootstrap)
    \/ \E u \in D : SendT2Chunk(u) \/ FlushOne(u)
Fairness ==
    /\ WF_vars(TimerRuns) /\ SF_vars(Tick(TRUE, FALSE)) /\ SF_vars(AutoBoot)
    /\ SF_vars(\E u \in D : Ripens(u))

FairSpec == Spec /\ Fairness

-----------------------------------------------------------------------------
(* Properties.                                                             *)

Maybe(v) == v \in Snapshot \union {None}

(* Types: in particular a dirty entry is a tier or a tombstone, a blob's   *)
(* digest is one of a state that was serialized, and what is in the boxes  *)
(* has chunks left.                                                        *)
TypeOK ==
    /\ x.pc \in {"idle", "flush"} /\ x.budget \in 0..PerTick
    /\ x.dirty \in [D -> {Tomb, 0, 1, 2}] /\ x.todo \in [D -> 0..2]
    /\ x.touch \in [D -> {"no", "fresh", "ripe"}]
    /\ x.reg \subseteq D /\ x.known \subseteq D /\ x.shipped \subseteq D /\ x.prime \subseteq Sendable
    /\ \A u \in D : /\ Maybe(x.shadow[u]) /\ Maybe(x.hash[u]) /\ Maybe(x.rep[u])
                    /\ x.box[u] \in Box \union {None}
                    /\ x.vis[u] = None \/ x.vis[u] \in Values
                    /\ Now(u) \in Snapshot
    /\ x.boot \in Boot \union {None}
    /\ x.stuck \subseteq D
    /\ {x.suppress, x.drop, x.auto, x.recent, x.paused} \subseteq BOOLEAN

Agrees(u) == IF InFile(scene, u) THEN x.rep[u] = Now(u) ELSE scene[u].alive \/ x.rep[u] = None

\* Something the code holds says that there is still work to do for the datablock.
Pending(u) ==
    \/ x.suppress \/ x.boot # None \/ x.box[u] # None
    \/ x.dirty[u] # 0 \/ x.todo[u] # 0 \/ scene[u].alive # (u \in x.reg)
    \/ (scene[u].alive /\ x.vis[u] # SweepVector(scene, u))
    \/ (u \in Scenes /\ x.auto)

\* Nothing is forgotten: a datablock no queue, flag, sweep or file under way still
\* holds is on the replica as it is on the host, whatever order it was edited,
\* deleted, brought back, hashed, skipped or superseded by a file in.  (A world is
\* sent with the scene that names it.)
NothingForgotten ==
    \A u \in D : Pending(u) \/ Agrees(u) \/ (u \in Worlds /\ \E s \in Scenes : Pending(s))

\* A pointer is only sent once its target has fully left: no delta makes the
\* replica's scene name a world that was never sent (_send_t1).
TargetsKnown ==
    \A s \in Scenes : x.rep[s] # None /\ x.rep[s].ptr => \A w \in Worlds : x.rep[w] # None

\* When the artist stops, and has not paused, the replica ends up as the host: nothing waits
\* for ever behind a budget, a debounce window, a refused chunk or tombstone, or an automatic
\* bootstrap.  The exception: a datablock whose delta was refused and which nothing has touched
\* since (_send_t1 requeues it and does not touch it back as ready) waits for its next event.
EditsArrive == <>[](x.paused \/ \A u \in D : Agrees(u) \/ u \in x.stuck)
=============================================================================
