# QCBridge: a TLA+ verification project

QCBridge mirrors a Blender session: a *host* Blender is edited, a *replica*
Blender on another machine shows the same scene full-screen, and its rendered
frames are encoded into a video stream. The addon (`qcbridge/`, Python) runs in
both Blenders; an *agent* per machine (`agent/`, Rust) carries the addon's
messages over QUIC and starts and stops the replica's Blender; *encode helpers*
(`agent/encode-win`, `agent/encode-mac`) read frames out of shared memory.

This directory models what those processes do to each other's state, checks it
with TLC on small instances and proves the central invariants with TLAPS.

## 1. Inventory

| Part (source) | State | Operations | Interacts through | What makes it correct |
|---|---|---|---|---|
| Host lanes (`ring0/host_handlers.py`, `ring1/fastlog.py`) | cold and fast seq counters, blob and bootstrap outboxes, seq of each datablock's newest chunk, fast log, re-assert queue | flush tick, tier-1 diff, tier-2 blob, tombstone, bootstrap, fast re-assert, library message | transport (cold and fast lanes), depsgraph callbacks, watch timer | every fast message names the cold seq it must follow; a repair says again all that was lost |
| Lane merger (`ring1/merge.py`, `SeqTracker` in `ring1/protocol.py`) | two trackers (last, first missing), cold/fast applied, parked messages | observe, admit, cold_done, fast_done, clear gaps | called by the replica's apply loop | nothing is applied before the blob it follows; no hole is forgotten; nothing is stranded |
| Replica apply (`ring0/replica_apply.py`) | reassembly, pending blobs, the scene, want_resync and its lane, bootstrap and resync counts | take a fast or cold message, complete a blob, apply a batch or a file, release, end a resync | lanes, pong stats, Blender | behind, never silently wrong; never goes back |
| Resync policy and watch (`ring1/liveness.py`, `ring0/session.py`) | the replica state last answered, rate limits | decide, answer with a re-assert, a delta or a file | pongs in, host lanes out | every repair asked for ends |
| Dirty set, classifier, shadow (`ring1/dirtyset.py`, `classifier.py`, `shadow.py`) | dirty entries, tombstones, uuids sent; light values last sent | mark, mark_deleted, drain; classify; diff | host handlers | a deletion reaches the peer exactly when the peer may know the datablock |
| Delta resync (`ring1/resync.py`, manifests in both `ring0` halves) | digests the host would send, digests the replica holds, manifest batches, the repair's list | merge manifests, plan the difference, send it, cold `resync_end` | control and cold lane, pong | the inventory is true; after the repair the scenes are equal; no wish for a repair is written off |
| Handshake, epochs (`ring0/session.py`, `ring1/protocol.py`) | armed handshake, pending request, peer epoch, lane counters in the hello | hello, welcome, deny, time-out, re-arm, goodbye, restart | control lane, liveness flags of the IO loop | both sides start from the same counters; an answer is taken for its own hello; the host pairs again |
| Transport, credits (`ring1/transport_agent.py`) | bytes outstanding per lane, link up, status, last pong | attach, leave, send_cold, send_fast, ping, poll | local socket to the agent | a refused message is kept by its sender; the window never leaks |
| Agent link, QUIC session (`agent/src/link.rs`, `session.rs`) | per-lane queues, priority queue of acks and events, sink, connection | attach, read, queue or discard, forward, acknowledge, tear down, retarget | addon socket, QUIC | order within a lane across sessions and addons; every credit comes back |
| Blender lifecycle (`agent/src/blender.rs`, `main.rs`) | child slot, close deadline, wanted flag, waiter and kill threads | launch, close, kill, relaunch | session events | one Blender; it follows the session |
| Frame ring (`ring1/ring_layout.py`, `ring0/frame_ring.py`, `ring0/engine_qcb.py`) | per-slot seqlock and descriptor, `latest`, `reader_claim`, state | publish, retire, regrow | shared memory | the newest picture stays readable |
| Encode helpers (`encode-win/src/main.rs`, `encode-mac/*.swift`) | cursor, claimed slot, frames in the encoder, last texture | poll, claim, copy, verify, submit, re-send | shared memory, video pipe | no torn frame; a still scene's last picture is shown |
| Pixel path (`ring0/pixel_path.py`, `session.py`, `engine_qcb.py`) | `_stop`, `_thread`, the ring in use, helper and mux, the worker that looks for ffmpeg | start, stop, re-aim, swap ring, supervise, respawn | three kinds of threads over module globals; exit codes | one encoder; none after a stop; the stream comes back |
| Hot lane, visibility, shot mode (`ring0/host_hot.py`, `ring1/visview.py`, `replica_apply.py`) | newest view and visibility values, the packet last applied, saved passepartout, zoom | sample, send on change and each second, apply, toggle, nudge | keyed datagrams, control messages on the IO thread | the replica ends up looking as the host does |
| Kiosk (`ring0/kiosk.py`) | step, deadline, retries, wanted | engage, step, verify, retry, leave | Blender's screens; files and goodbyes | reached when wanted, given back when the session is over |
| Files and libraries, colour state, settings, discovery, secrets, ZMQ transport | UI, files, preferences | - | - | not protocol state |

**What is hard here.** Two ordered lanes that are not ordered against each
other; frames that the agent discards after it accepted them; blobs that leave
and arrive chunk by chunk and are applied in batches on a later tick; a repair
that races new edits and is decided from a pong that is already old; handshakes
that time out while their answer is on the way; agents that outlive the addons
they serve; threads that share module globals without a lock; two processes
that share memory without one; helpers that die holding a claim; project files
that throw away the screen the view was set up on.
The list with lines is `hazards` in `PROJECT.json`.

## 2. Modules and the code they model

| Module | Models | Notes |
|---|---|---|
| `Wire` | datablocks, messages, the two lanes, the discard of an accepted frame | no actions of its own |
| `LaneMerge` | `SeqTracker`, `LaneMerger` as operators on records | pure; the names are the methods' |
| `HostLanes` | `HostSync`: outboxes, counters, the `after` rule, bootstrap, fast log, re-assert | one action per message a flush tick can put on a lane, because backpressure can end a tick after any of them |
| `ReplicaApply` | `_process_cold`, `_dispatch`, `_apply_pending_batch`, `_release`, `_end_resync` | one action per message, per batch, per file |
| `SyncSession` | composes `HostLanes` and `ReplicaApply` with the pong and the watch timer; all session properties | |
| `MCSync` | `SyncSession` for TLC | the instances are in the `MCSync_*.cfg` |
| `HostFlush` | how an edit becomes a message: depsgraph handler, sweep, dirty set, debouncer, shadow, blob hashes, `flush_tick`, deletion and undo, files sent and files opened | here lanes lose nothing: the question is whether everything is sent |
| `DeltaResync` | inventory and manifests of both sides, `plan_delta`, the repair, its end, the policy's verdict | extends `LaneMerge`; cold frames may be lost, blobs and files may fail, the automatic file may be skipped |
| `OrderedLane` | the abstract lane: frames may be lost, never reordered or repeated | what `LaneMerge`'s trackers rest on |
| `AgentLink`, `MCLink` | a frame's way from addon to addon and its credit's way back, through sockets, queues, lane tasks, acks, teardown, discard, a second addon | implements `OrderedLane` for each lane and sending addon |
| `Pairing` | handshake, watcher, liveness, epochs, goodbye, the file after every handshake, on both ends, each with a main and an IO thread | of the lanes only what pairing needs |
| `PixelPath` | main thread, workers and supervisors of the pixel path over the same globals; rings retired and swapped | `FrameRing` is the inside of one ring |
| `ReplicaView` | view packets, visibility, shot mode, kiosk, project files and camera blobs that reset the screen | a tick is two steps, because the IO thread can clear `_last_hot` in between |
| `FrameRing` | one ring, its writer store by store, its reader load by load, the encoder's in-flight limit, helper deaths, retirement | `ordered` tells whether the machine shows stores in order |
| `BlenderLifecycle` | the replica agent's supervision of Blender: the event task, the waiter thread of a launch, the kill thread of a close, the tray and session events | time is left out, so every sleep may end at any moment |
| `SyncSession_proofs` (with the lemmas about `LaneMerge`), `DeltaResync_proofs`, `HostFlush_proofs`, `Pairing_proofs`, `AgentLink_proofs`, `PixelPath_proofs`, `FrameRing_proofs`, `BlenderLifecycle_proofs` | theorems and proofs | section 4 |

**How the modules share the system.** `SyncSession` is the composition of
host, lanes, replica and watch over the seq numbers. The other modules each
open one thing that `SyncSession` takes for granted, and close what it opens:
`HostFlush` what is sent at all, `DeltaResync` the repair of the cold lane,
`Pairing` how a session begins and begins again, `AgentLink` why a lane is
ordered and why a refused send succeeds later, `ReplicaView` and `PixelPath`
what becomes of the applied scene.

**Data abstraction of the session.** A datablock is a pair of version numbers:
`h` for what only a blob carries (mesh, node tree) and `l` for what a delta
carries (tracked properties); `h = 0` is "not there". An edit raises one of
them. A blob carries both, a delta only `l`, a file the whole scene. Equality
of versions is equality of content, and a smaller version is an older content,
which is all that the properties tell apart.

**Time in the session.** Debounce, tick budgets, burst holds and the policy's
two rate limits decide only *when* a step happens; here it may happen at any
time. A send that is refused for lack of credit leaves the message with its
sender, so it is a send that has not happened.

**The network between the lanes.** The code orders each lane, and nothing
orders one against the other. With `Prompt = FALSE` a cold frame may reach the
replica before an older fast frame. With `Prompt = TRUE` it does not (the fast
lane is small and the replica drains it first); the runs say which they use.

**State correspondence.** `mg` is `_merger`; `part` the reassembler; `pending`
`_pending_blobs`; `want`, `boots`, `resyncs` the stats of the same names;
`unknown` is `_unknown_gap`; `coldOf`, `bootSeq`, `linkSeq` are
`_uuid_cold_seq`, `_boot_last_seq`, `_link_seq`; `bootBox` and `t2Box` the two
outboxes; `rq`, `rend` the re-assert queue and its owed end; `known` is
`DirtySet._sent`; `served` is `_served_for`. In `FrameRing`, `wpc` and `rpc`
are the positions of the writer inside `publish` and of the helper inside its
loop, `buffered` holds pixel stores that other processors do not see yet
(only where `ordered` is false); the control words are single aligned stores
and are visible at once.

In `HostFlush`, the fields of `x` are `DirtySet._entries` (`dirty`; `todo` is
the part drained in this tick) and `_sent` (`known`), `Debouncer` (`touch`),
`Registry` (`reg`), `_shipped`, `Shadow` (`shadow`), `_blob_hash` (`hash`),
`_prime_queue` (`prime`), the two outboxes (`box`, `boot`) and the flags of the
same meaning; `rep` is the replica. In `DeltaResync`, `h` and `r` are
the two ends, `r.held` is `_held`, `r.mg` the merger, `h.served` is
`_served_for`; `h.shipped` (the structure in the last file sent) and `r.failed`, `r.lost`,
`r.missed` are there for the properties only. In `AgentLink`, `out` is `_cold_outstanding` and
`_fast_outstanding`, `prio`, `queue` the channels of `link.rs`, `task` what a
lane task of `run_lanes` holds, `stale` what `run_lanes` has drained from the queue of
the lane `phase` names and not credited yet, `sink` the addon that is written to. In
`Pairing`, `host`, `io`, `rep` gather the variables of one thread each. In
`PixelPath`, `pp` are the globals of `pixel_path`, `workers` the
`_resolve_and_start` threads, `sups` the `_supervise_native` threads with their
children. In `ReplicaView`, `rep.lastHot` is `_last_hot`, `rep.shot` the shot
state, `rep.kiosk` the state of `kiosk.py`; `hot` is the transport's `_hot`.

## 3. Runs

Deadlock is checked in `link`, `view` and `flush`, whose loops never stop. The
other runs use `CHECK_DEADLOCK FALSE`: a session in which the user stops editing
and everything has landed, a ring whose producer has stopped, or a system whose
bounds are used up, is at rest.

| Run | Asks | Answer |
|---|---|---|
| `session_fast` | four edits of two datablocks, one of them not yet created, and one fast frame discarded, blobs applied one at a time: is the replica ever silently wrong, does it go back, does the repair end, do the scenes become equal? | holds |
| `session_clean` | no loss, lanes that overtake each other, batches of two, a forced file in the middle: is the structure right and finally equal? | holds |
| `session_rough` | from the handshake on, two-chunk blobs and files, a library message, blobs and files that fail to apply, losses on both lanes: does the gap bookkeeping stay consistent? | holds |
| `flush` | a mesh, an object, a scene and the world it may name, edited with and without events, deleted, brought back, around files sent and files opened, with chunks, deltas and tombstones refused at any point: is anything forgotten, is a pointer sent before its target, does everything arrive? | holds |
| `delta` | edits, creations, deletions, a changed scene structure whose file may be skipped, one lost cold frame (also of the repair), one failed blob or file, one forced file: is the inventory true, is the difference the whole difference, can a wish for a repair be written off? | holds, up to `missed`, `Skipped` and `Ahead` |
| `link` | two addons in turn, two frames on either lane, a session that ends or is retargeted and comes back, also while it still drains the queues, a replica addon that leaves: are the lanes ordered, is credit accounted for, does it return? | holds |
| `pairing` | hellos that time out with their answer under way, a connection or a replica's Blender lost, a file sent again halfway, a second session with the blob ids of the first: does the host pair again, under the epoch it told, and does the file arrive whole? | holds |
| `pixel` | rings retired under a helper, helpers that crash, viewers that leave, sessions stopped and started, re-aimed and regrown while workers look for ffmpeg: two encoders, one left over from a session, a stream that stays away? | holds, up to `crossed`, `after` and `older` |
| `view` | views, visibility, shot mode and kiosk while files and camera blobs reset the screen, someone moves the view, Blender restarts, the goodbye overtakes a file | holds |
| `ring` | two sizes, four pictures, publishes that raise, a helper that dies or a conversion that fails, stores in order and not: is a torn frame taken, does the writer keep off the newest and the claimed slot, is the newest picture finally shown? | holds |
| `lifecycle` | six connects, session messages and tray clicks in any order, a crash and a failed launch: two Blenders, none while a session is on, one left over, one back after a stop by hand? | holds |
| `batch_release` | "behind, never wrong" with two blobs in a batch and no loss | violated |

### Properties

* `NeverSilentlyWrong`: when nothing is queued, in flight or waiting, and no
  repair is asked for, the replica's scene *is* the host's. `TailLost` is
  excepted: the loss of the newest frame of a lane shows only when the next one
  arrives, and the code has nothing that would show it earlier.
* `StructureRight`, `StructureConverges`: the part of that which blobs, files
  and tombstones answer for; it holds even when lanes overtake each other.
* `NeverRegresses`: no datablock of the replica goes back to an older version.
* `RepairEnds`, `Converges`: what must eventually happen.
* `HoleFlagged`, `HoleRecorded`, `ParkedWaits`: the bookkeeping that the ones
  above rest on.
* `NothingForgotten`: a datablock that no queue, flag, sweep or file holds any
  more is on the replica as on the host. `TargetsKnown`: no delta names a
  datablock that was never sent. `EditsArrive`: everything gets there,
  but for a datablock whose delta was refused and which nothing has touched since
  (the variable `stuck`).
* `InventoryTrue`, `RepairComplete`, `WishStands`: the digests the replica
  reports are those of what it has; the planned difference is all of it; an
  open wish is one the policy has not marked as answered. The last two except, by
  name, what a failed file or a lost part of a repair leaves until the next file
  (`missed`), and the second a structure that only a file brings (`Skipped`, `Ahead`).
* `CreditAccounted`, `CreditsReturn`: what counts against a window is under
  way, but for the one frame a lane task held when its session was torn down
  and the frames a new session had drained whose ack still waited when the
  target changed (the variable `lost`), and comes back. `Ordered`: `AgentLink` implements
  `OrderedLane`; the mapping takes the frames anywhere between the two addons
  as `pend` and the last one delivered as `seen`.
* `AnswersItsHello`: a host that believes itself paired with the process there
  is has told it the epoch it numbers under. `FileWhole`: what is loaded is one
  file, also where a session starts while the replica holds half a file of the
  one before, whose blob ids it uses again. `PairsAgain`, `FileArrives`: both end as they should.
* `OneEncoder`, `NoneAfterStop`, `StreamComesBack`: the supervisors.
* `FollowsHost`, `ShotFits`, `NeverLeftOpaque`, `KioskRight`: the screen.
* `NoTornFrame`, `NewestIntact`, `ClaimShields`, `NewestShown`: the ring. The
  first is claimed of a machine that shows stores in order.
* `OneBlender`, `FollowsSession`, `Closes`, `StopSticks`: the supervision.
  `Closes` names its one exception: `crossed`, the exit of an earlier Blender
  handled after the launch of this one. Without it TLC shows a Blender that
  stays open after its session.

Every module also states its types (`TypeOK`), in the newer ones with the
shape facts that are not types (a supervisor between two rounds has no children;
a saved passepartout is never shot mode's own). They hold in the
same instances; the runs list them where a theorem states them.

### Where the code does not do what it says

`batch_release` is the run of a disagreement: `_apply_pending_batch`
(`replica_apply.py:733`) collects what each blob frees and releases it once,
after the last blob. A delta sent between two blobs of one datablock is applied
after both and takes the property back.

The others below are facts the same modules show when a constant is changed, a
stated property is checked or an exception is taken out of one. Constants named
`Allowed`, `Overlap`, `Timely`, `Landed`, `Leftover` and `Orders` are there for
circumstances the passing run leaves out; where a list says so, the run has the
circumstance and the property excepts by name the states it leads to.

*Session* (`MCSync`)
* `T2Chunks = 2`: `AppliedExact` fails. A middle chunk calls `cold_done` at once
  (`replica_apply.py:991`) while an earlier blob that is complete waits in
  `_pending_blobs`; `cold_applied` then lies above it, against `merge.py:8`
  ("exact"). A library message does the same.
* `Landed = FALSE`, one lost fast frame: `NeverSilentlyWrong` fails. Any file
  that applies clears both gaps (`replica_apply.py:679`), also a hole that
  opened after the file was serialized.
* `Landed = FALSE`, one lost cold frame: `RepairEnds` fails. `decide` waits
  while the replica's counts are the ones it served (`liveness.py:68`); when the
  repair itself is discarded they never move.

*Flush* (`HostFlush`, one member of `Allowed` at a time; `NothingForgotten` or
`EditsArrive` fails)
* `"undo"`: a deletion does not clear the datablock's hash or its place in
  `_shipped` (`host_handlers.py:851`, `1207`); brought back unchanged, its blob
  is skipped. Whether the bytes then really are equal depends on
  `libraries.write` (`host_handlers.py:185`).
* `"paused"`: hashes are taken while paused (`host_handlers.py:898`), of states
  edited after the file was serialized.
* `"covered"`: a structural change within ten seconds of a bootstrap is taken
  as covered by it (`host_handlers.py:38`, `572`).
* A delta refused for lack of credit is requeued without being touched
  (`host_handlers.py:692`, `712`), so it waits for the next event. Every run has it;
  `EditsArrive` excepts that datablock, and only that.
* `"fallback"`: the delta that goes beside a scene's file is refused, and the file is
  then skipped as covered (`host_handlers.py:572`): the light part of the edit is lost.
* `"revert"`, `"ghost"`, `"unswept"`, `"unsampled"`: a value that goes back, a
  half-sent blob that survives an opened file (`_t2_outbox`), a deletion and
  its undo between two sweeps, a silent change hashed before the sweep.
* `"withheld"`: `mark` ignores a datablock with a queued tombstone, because "a
  recreated datablock has a fresh uuid" (`dirtyset.py:34`), but one that undo
  brings back has the same uuid and is marked under it (`host_handlers.py:1203`,
  "Re-adopt and resend"). While paused, sweeps run and `drain` does not
  (`host_handlers.py:586`, `590`): delete, pause, undo, resume, and the next
  tick ignores the mark and sends the tombstone of a datablock that is there.
  One object, three edits and one file are enough for TLC to show it. Its mirror
  image: a datablock brought back and swept while paused, in a file after that, and
  deleted before a tick drains its mark is not in the peer-may-know set, so
  that its deletion collapses to nothing.

*Delta resync* (`DeltaResync`). The model has all of the following but `Leftover`, and the
properties except the states they lead to by name:
* `missed`, the file: a file whose open or apply raises counts an error and is done
  like any other message (`replica_apply.py:728-733`). `bootstraps`, `want_resync` and
  the inventory stay as they are, so `decide` takes the wish for answered and
  waits for counts that never move (`liveness.py:68`).
* `missed`, the repair: when a part of the repair itself is lost the same happens, or
  its end comes and takes the wish down although a blob did not. A file that is
  forced while a repair is under way throws the repair's list away and stands in for
  it (`host_handlers.py:466`), so its loss counts as one of the repair's.
* `Skipped`: "it carries whatever the unsupported type changed"
  (`host_handlers.py:573-574`), but the file that was queued up to ten seconds
  before may have been serialized before the change (572); the flag is taken back and the
  structure goes nowhere. Nothing asks for a repair.
* `Ahead`: a scene's delta carries the digest of a structure that only its file
  brings (`host_handlers.py:702`). When the file is lost or skipped, the digests are
  equal and the plan leaves the structure out. A repair's own delta of the scene does the
  same: while a repair goes out the watch still calls `delta_state`, which takes
  the structure's digest anew (`scene_digest_now`, `host_handlers.py:980`,
  `session.py:512`), so a structure changed meanwhile is announced ahead of its file.
* `Leftover = TRUE`: manifest batches are merged into whatever scene is there
  (`replica_apply.py:871`), also that of an earlier session.

*Link* (`AgentLink`)
* `OwnsLanes`: "One addon at a time (it owns the lanes)" (`link.rs:328`); the
  reader thread of an earlier addon that ends late clears the sink of the next
  one (`link.rs:390`).
* `IdleIsOpen`: a frame that a lane task held at a teardown is never credited
  (`session.rs:723`, `817`), nor are the frames a new session has drained if the
  target changes while their ack waits on a full priority queue (`session.rs:603-617`,
  `582-587`), so the window of a lane with nothing under way need not be open
  (`transport_agent.py:728`).

*Pairing* (`Pairing`)
* `BlipsResend`: "Transport blips re-handshake too" (`session.py:398`), but a
  connection lost while pongs are late, or before the first one, is not
  noticed; with `Timely = FALSE` neither is one lost and back between two turns
  of the IO loop.
* `Overlap = TRUE`: seqs start again with each session, so chunks of two
  sessions' files that are still in the agents can meet in one reassembly
  (`protocol.py:263`), and a late reply to the earlier session pairs the later one.

*Pixel path* (`PixelPath`). The model lets every request come at any time, and the
properties except these cases by name:
* `after`: a session stopped while a worker resolves (`session.py:942`) leaves a
  supervisor that the worker starts after the stop; the next session finds
  `_thread` noted, starts nothing and has an encoder on the old ring.
* `older`, the aim: a re-aim while a worker resolves is dropped at `session.py:928`
  and made by nobody again.
* `older`, the ring: `session.py:938` reads the ring's name before the resolve. A
  draw that regrows meanwhile passes the new name to `restart_ring`
  (`engine_qcb.py:268`, whose docstring says that "the pixel path restarts the
  helper on the new name"), and `start()` then puts the old one in its place
  (`pixel_path.py:375`).
* `crossed`: `start()` and `stop()` share `_thread` and `_stop` without a lock. A
  `start()` inside another thread's `stop()` is forgotten with the one that was
  stopped (`pixel_path.py:427`); a `stop()` inside a `start()` can be undone by
  `_stop.clear()` (372); of two threads past the look at `_thread` (369) both
  start. The model ends a behaviour there.
* A spawn that raises leaves `_thread` set, so that nothing starts again
  (`Stalled`); a `_regrow` that fails has already noted the picture as published
  (`missed`).

Not in the model: the digest that skips an unchanged picture samples only its centre.

*View* (`ReplicaView`), met and modelled: the goodbye leaves the kiosk without
asking whether a file is being applied (`replica_apply.py:1324`, against
`applying()`, line 998: "no screen surgery now"); the hot channel
returns its last value after a goodbye, so the view is still re-asserted; the
saved passepartout is that of the camera before a file or blob that lands during
shot mode; a camera view that loses its camera in shot mode is not bound again
until the mode ends.

*Ring* (`FrameRing`): without `ordered =>` the run refutes `NoTornFrame`. There
is no barrier between the pixel stores and the seqlock store, against
`frame_ring.py:8` and `ring_layout.py:15`; on x86 stores are ordered.

*Lifecycle* (`BlenderLifecycle`): `KillsOwn` fails. The thread that
`close_blender` starts (`blender.rs:198`) kills whichever Blender is in the slot
ten seconds later, also one launched for a new session after the first quit as
asked.

Other behaviours met while modelling: a datablock that is created, goes out in
a forced file and is deleted, all before one `drain()`, gets no tombstone
(`dirtyset.py:37`); blobs still in the outbox when a forced file is queued
leave after it with older content, until the next flush; a `resync_end` clears
holes that opened after the re-assert began (`merge.py:94`); the order of shown
pictures can step back by one when the helper copies a slot that is already
rewritten and not yet announced; a failed conversion moves the cursor, so that
a still scene's only frame is not shown.

### Bounds and why they are enough

| Bound | Values | Why |
|---|---|---|
| datablocks `U` | 1 or 2 | the protocol orders messages per datablock, and against files, which touch all; two give "another datablock's blob" |
| `T2Chunks`, `BootChunks` | 1, 2 | one: a blob is its last chunk; two: there is a middle chunk and an incomplete blob |
| `BatchMax` | 1, 2 | 16 in the code; two is the first batch with an inside |
| `LogCap` | 2 | 4096 in the code; two edits later the oldest entry is forgotten, so both answers of `covers` occur |
| `MaxEdits` | 2 to 4 | create, change, change again, delete |
| `MaxForced`, `MaxLinks` | 0, 1 | one file or library message in the middle |
| `MaxLostCold`, `MaxLostFast` | 0 to 2 | two: a second hole while the first is being repaired |
| `Slots` | 3 | the code's default and the least that `next_slot` allows |
| `InFlight` | 1 | 3 in the code; the first refusal comes sooner |
| `MaxPics` | 4 | once round the ring and one more |
| `MaxLate`, `Orders` | 2, both | at most two stores waiting at once; the run starts on either kind of machine |
| `MaxFaults` (ring) | 1 | one stale claim or one lost conversion |
| `MaxOutside` | 6 | connect, session on, off, on again, and two tray clicks |
| `MaxCrashes`, `MaxFailed` (lifecycle) | 1 | one exit nobody asked for, one launch that fails |
| `HostFlush`: a datablock of each kind | 1 each | each kind is noticed and sent in its own way; they meet in the scene's pointer |
| `Chunks`, `PerTick` | 2, 1 | a blob half sent; a tick whose budget ends |
| `MaxEdits`, `MaxBoots` (flush) | 2, 2 | edit and delete, or delete and undo, around two files. The invariants, and the inductive one of section 4, were also checked with three edits (10.4 million states), and with four or five of one kind, or of scene and world (5.6 million) |
| `MaxLost`, `MaxFails`, `MaxBoots`, `MaxEvents` (delta) | 1, 1, 1, 4 | a hole, a failed blob, a file, and edits before, during and after the repair. The invariants were also checked with one datablock, four edits, two losses, a failure, a file and five events (37.8 million states) |
| `MaxFrames`, `Window`, `QCap`, `WCap`, `RCap`, `PCap` (link) | 2, 2, 1, 1, 1, 2 | the second frame meets a full window, a full queue, a full wire; acks and events meet a full priority queue |
| `MaxAddons`, `MaxDrops`, `MaxCuts` | 2, 1, 1 | an addon replaced by another, which stays; one teardown, and one more change of target, which comes while drained frames wait for their ack. The invariants were also checked with `MaxDrops` 2 (1.1 million states) |
| `MaxDowns` (link) | 1 | a dial fails any number of times, but not while a "down" is still queued for the addon: a second one changes nothing at the addon, and the queue also fills up with acks. |
| `MaxSessions`, `MaxArms`, `MaxBoots`, `MaxFaults`, `LaneCap` (pairing) | 2, 1, 1, 1, 2 | a hello, its late answer, the next hello; a file superseded halfway; a session after another, with the same blob ids. The liveness properties excuse only states in which a handshake or a file is due that the bound forbids (`Spent`) |
| `MaxSessions`, `MaxAims`, `MaxLoads`, `MaxViews`, `MaxFaults` (pixel) | 2, 1, 1, 1, 1 | a worker of a stopped session beside one of the next; a re-aim or a regrow during the resolve; a ring that grows while the helper is down. Also run once, without error: 2, 2, 1, 1, 1 and 2, 1, 1, 2, 1 (invariants; 7 and 6 million states) and 1, 2, 2, 2, 1 (all) |
| `MaxEvents` and its parts (view) | 3 | a toggle, a file and a disturbance in every order, which is what the screen's state can remember |

`Landed = TRUE` starts a session after the handshake's file has applied, which
is where most of a session is spent; `Landed = FALSE` starts at the handshake.
No symmetry is used: liveness is checked in most runs and the instances are small.

### Fairness

`FairSpec` of the session assumes weak fairness of each queue of the flush
timer, of the replica's tick, of the pong and of the watch timer. They are
Blender timers and a ping loop that re-arm themselves and, per tick, serve each
queue in turn; credits come back, also for discarded frames. Nothing is assumed
of the user, of losses, or of the order of the queues. `FairSpec` of the ring
assumes that a publish that has begun goes on, that the helper's loop spins and
that the encoder returns what it took. `FairSpec` of the lifecycle assumes that
the task runs, that its timers end and that the threads go on; a Blender that
was asked to quit may ignore it, and only the kill is sure.

| Module | Assumed | Because |
|---|---|---|
| `HostFlush` | WF of the timer; SF of a tick whose sends are accepted, of the automatic bootstrap and of the debounce running out | timers re-arm themselves; credit comes back (`CreditsReturn`), so a send is not refused for ever |
| `AgentLink` | WF of reader, writer and lane tasks, and of each step of a session's start; SF of the delivery | threads and tasks run, a start waits only for room in the priority queue; a connection that is up carries frames, though it may go down in between |
| `Pairing` | WF of timers, of both IO threads and of the reconnect; SF of the ping | the ping loop turns as long as there is a connection, which may come and go |
| `PixelPath` | WF of the draw, of kill and join, of workers and supervisors, of a helper's exit on a retired ring, of the end of a listen | the draw handler re-queues itself; joins and listens have time-outs |
| `ReplicaView` | WF of handshake, first sample and end of a settle; SF of both halves of a tick with its timers run out, and of the session watch | each is a Blender timer; a due timer stays due until the tick sees it |
| `AgentLink`, `Pairing` | a replica's Blender or addon that was lost is started again (`ReplicaAttaches`, `ReplicaStarts`) | that is `FollowsSession` of `BlenderLifecycle` |

`DeltaResync` has safety properties only. Its graph with fairness is too large
for TLC at bounds where a repair can be lost; `WishStands` is the safety
statement of what liveness needs: a wish is never left without an answer due.
Nothing is assumed of artists, losses, crashes or viewers in any module.

## 4. Proofs

Every theorem holds for all values of the constants that satisfy the named
assumption of its module (`WireAssumption`, `RingAssumption`,
`LifecycleAssumption`, `LinkAssumption`, `PairingAssumption`, `PixelAssumption`,
`FlushAssumption`, `DeltaAssumption`): bounds are numbers, capacities and chunk
counts at least one, slots at least three, kinds of datablocks apart, one world.
`NoneAssumption` of `HostFlush` and `DeltaResync` says that "no value" is none
of the values and none of the records made of them. So a bound that a run sets to one or two is any number here.

Some theorems have a hypothesis. Each names the circumstance, described in
section 3, in which the code does not keep the property, and each run of the
property sets the same constant the same way:

| Hypothesis | Theorems | Without it |
|---|---|---|
| `~Leftover` | `InventoryHolds`, `RepairIsComplete` | batches are merged into an earlier session's scene |
| `~Overlap` | `RepliesMatch`, `OneFileLoaded` | two sessions' replies and chunks meet |
| `Allowed = {}` | `EditsAccounted` | the members of `Unusual`, each a way to forget an edit |

**Session** (`SyncSession_proofs`). First what `observe`, `cold_done`,
`fast_done` and the clears of `LaneMerge` preserve; `fast_done`'s `while` is
stated as the end of the run of done seqs, so that no induction over data is
needed. `TypeCorrect`, `HolesFlagged`, `NoneStranded`, `HolesRecorded` follow from
`IInv == TypeOK /\ Seen(mg) /\ FastLane /\ Recorded(mg, lostF) /\ HoleFlagged /\ ParkedWaits`.
The properties alone are not inductive. A lost fast frame stays recorded only
because frames on the lane are in seq order and beyond the newest one seen
(`FastLane`), and because everything done or parked was seen (`Seen`), so
that `fastApplied` cannot run over a seq that was lost. One lemma per action
says what it does to each conjunct; `SpecIInv` combines them.

**Delta resync** (`DeltaResync_proofs`). Three invariants over one another.
`Shape` (`SpecShape`): types, and numbers of files: no frame, batch or replica is of a
later file than the host's `gen`, and the served wish is not ahead of the
replica's counts. `OneFile`, for `InventoryHolds`: five parties speak of what file number n
brought, namely the file on the lane, the replica where no blob has come since,
the batches under way, the digests the host owes and those it will still take
(`Says`); they agree. A batch can then be merged where the inventory is empty. `Pledge`, for
`NoWishWrittenOff`, which has no hypothesis: the wish that counts as answered has its file or its end of
repair on the cold lane or owed, unless that has been `missed`. Host steps are of two sorts only (`TameStep`: nothing
new is said; `BootStep`: a new number), and each action is shown to be one of
them; the replica's steps take away (`TakeStep`, `PledgeStep`). The attempt to
prove `Pledge` showed that a forced file superseding a repair must count as part
of it; the run's single loss had hidden that.

`RepairIsComplete` (`RepairComplete`) rests on a fourth, `Mended`, for any number
of losses, of parts of repairs too, of failed blobs and files and of skipped files. `RepairComplete` speaks of a state in which nothing is
under way; the invariant has to say the same of every state before it. For the
scene and each datablock that has not been deleted:

* `Climbs`: versions go up from the replica along the cold lane to the host, so
  that whatever is applied, or lost and followed by something newer, is an
  approach. `Lined` gives the order of the seqs it needs.
* `Behind`, `Covers`, `Hashed`: no claim is ahead of the fact, be it the
  replica's inventory, the one the host was sent and plans from, a batch of
  digests under way or waiting for its file, or the host's own digest of what it has
  sent. The plan leaves out a datablock when two digests are equal; by these, the
  versions are then equal too.
* `Posts`: the structure is different, because a delta of the scene does carry its digest
  ahead of the file. What the replica has got of it (`Got`) is therefore what its
  digest says where that is ahead, and `Posts` is what makes that climb: the
  digests of these deltas go up along the fast lane and with the files they
  wait for, and no file on its way is behind the replica's digest.
* `Whole`: the host's version is still to be sent, there, refused by Blender, or
  in a frame (`There`, `Brings`). It says so four times, because a loss cancels
  the first: now, unless a hole shows or will (`Now`); from any file on the lane
  on (`AtFile`), since a file takes the wish back; from any end of a repair on
  (`AtEnd`), counting before it only the repair's own frames; and while a repair is
  being sent, counting the list still to go (`Listed`). The last two do not hold where
  something was missed and no file comes in between (`Barred`), and a repair's frame counts
  only up to the next file (`NoFile`): the file may fail or be lost as well.
* `Graves`: a deleted datablock has a tombstone owed or coming that no frame
  with the datablock in it comes after, or is gone from the replica too.

A host step is a `Move` (one frame at most, which brings what the host has, and
some fast messages), a replica step is `Taken(o)` (the first frame gone or not):
`HostKeeps` and `ReplicaKeeps` prove once that these keep `Mended`, and one lemma
per action that it is such a step. `IsFiniteSet(D)`, in `DeltaAssumption`, is
for `send_delta`'s tombstones, which are put in a sequence. Writing `Mended`
down, and having TLC check it, is what showed the second way to `Ahead`.

**Flush** (`HostFlush_proofs`). `PointersResolve` (`TargetsKnown`), with no hypothesis: it
holds in every circumstance of `Unusual`. The invariant says that the replica's scene and
the file under way are closed under pointers, and that a world counts as shipped
only when it is in the one or on the other; the last holds because a file goes
out between ticks and a pointed-at world has a user and is therefore in it.

`EditsAccounted` (`NothingForgotten`), for `Allowed = {}`. The property speaks only of moments
when nothing is held for a datablock, so the invariant `Whole` has to say what
each place that holds one promises. `Coming(u)` is what the replica will have
when the outboxes are empty: the blob under way, or the file's copy, or the
replica's own. Of a live datablock, either `Coming` is what the host has (`Arrives`), or
it is marked or the next sweep will find it (`Marked`, unless `Blind`: a silent change hashed first).
The hard part is the delta: it carries only the paths that differ from the
shadow, so a path that is *unchanged* since the shadow was taken must already be right in
`Coming` (`Baseline`). A hash that makes a blob be skipped is that of what is `Coming`, or
what is left to send goes as a delta (`Live`).
A datablock that is gone is out of `Coming`, or has a tombstone, or is registered
and known, so that the sweep will give it one (`Gone`). A world without users is
in no file; a scene that names it brings it along (`Named`). `Silent`
is the time before the first file, when events are ignored and the file is still
to come; `Calm` is what a pause leaves alone. Each action has its lemma,
and those about the operators (`FlushT1`, `SendT1`, `FlushT2`, `Drain`, the two
sweeps) say pointwise which fields change, so that an action's proof looks at one datablock
that changed and at all others that did not. The attempt
showed `"withheld"`, which the runs' two edits had been too few for.

**Pairing** (`Pairing_proofs`). `RepliesMatch` (`AnswersItsHello`) from `Hellos` and `Answers`: a
request waits only while a handshake is armed, the epoch does not change in that
time, and a reply with its id that is under way or in the slot was given by a
process that had been told that epoch. `OneFileLoaded` (`FileWhole`) from `Pieces` and `OneFile`: a chunk's blob id
names its file within one session; what the replica keeps of an earlier session's file is
there only while the replica has not been told of this one, when no chunk of it
can come (`Untold`), or while the reset is still to be done. That rests on the epochs
being all different (`Numbered`).

**Link** (`AgentLink_proofs`). `LanesOrdered` is the refinement itself, `Spec => Ordered`:
the first state maps to `OrderedLane`'s, and every action to a send, a delivery,
a loss or nothing of one channel. It rests on `SpecInv`, that a lane's places (socket,
queue, task, wire, the replica's queue, what was seen) hold a frame order each and among
each other. `NothingOlder` and `OnlyForward` are what the replica's trackers rely on.

`CreditKept` (`CreditAccounted`), with no hypothesis, from `Places` and `Counters`. `Places`: a frame that
is not credited is in exactly one of socket, queue, task or drain, and queued acks, the acks
of a lane are of frames of that lane, no frame is in two of them, and none is newer than `sent` or of an addon
still to come. Without it a frame could be credited twice and the window would be
exceeded. `Counters`: what the attached addon counts is at most the cost of its frames
in these places and of what teardowns took; a first addon's count is at least the
cost of its frames, which is why checking the count (`HasCredit`) bounds the frames
(`Draining`: a drain and the lane tasks exclude each other, so a frame is not in both). (A
second addon's count is not: acks of its predecessor's frames lower it.) Both speak of
sums over sets of frames. What is needed of `CostOf`, that it is additive
over disjoint sets, monotone and zero of the empty set only, is proved of the
fold itself: of the sets that would refute it one would have no smaller one in it
(`Smallest`, from `FS_StrictSubsetOrderingWellFounded`), and one frame less refutes it
already. That stands in for induction, which the provers cannot instantiate.

**Pixel path** (`PixelPath_proofs`). `EncoderAlone` and `StopLeavesNone`, without
hypothesis, from: whoever joins has told the supervisor to stop and nobody has taken that
back (`StopHeld`); one `start()` at a time is past its look at `_thread`, and what it saw
is so still (`StartHeld`), both until `crossed`; a supervisor that has not ended is the
one `_thread` names (`TheNotedOne`); with no session up, one that has not ended was
started after the last (`OnlyLate`).

**Frame ring** (`FrameRing_proofs`). `RingTypes`, `NewestStaysIntact` and `ClaimsShield` from
`Inv1` (types and *places*: `last` is the slot `latest` names and
`wslot` is `NextSlot` of it for the whole of a publish). They do not depend
on the order of stores. `FramesWhole`: `Spec => []NoTornFrame`, from `Inv1`
and `ordered => Pixels`, where `Pixels` says: a slot with an even seqlock holds one whole picture
at its described size, and the part copied so far belongs to it as long as
the seqlock is the one read before the copy, because seqlocks never decrease.

**Lifecycle** (`BlenderLifecycle_proofs`). `LifecycleTypes` and `NeverTwo`, from `InSlot`: a
process lives only while it is the one in the slot, because the waiter
empties the slot after the process has ended and a launch needs it empty.

**Only model-checked**, and why:

* The liveness properties: out of the prover's reach.
* `NeverSilentlyWrong`, `StructureRight`, `NeverRegresses`: they hold at the bounds
  their runs name (one chunk, one batch, one loss) and not in general, as
  section 3 shows.
* `NeverLeftOpaque` of `ReplicaView`: not proved; TLC explores shot mode's small
  state in full at its bounds.

## 5. Not modelled, and limits of the model

* Library files served on request, point caches, shape keys, path rewriting,
  the count of local edits: Blender file I/O, or one more kind of blob.
* In the link: TLS, compression, datagrams, starting an agent process,
  configuration messages; a control message is the pairing's, not the link's.
* In the pixel path: the command lines, the older path in which ffmpeg captures
  the screen, what the encoders produce, and what follows a `start()` that meets
  another thread's `stop()` or `start()`. `stop()` is two steps, the signals and
  the end of the join; `start()` is two, the look at `_thread` and the rest.
* In the view: matrices, lens and clipping are one place; there is one camera, so a
  switch of the scene's camera is not covered; the viewer's own colour state is
  left out.
* Each module assumes of its neighbours what their own runs check: `HostFlush`
  and `ReplicaView` ordered lanes that lose nothing, `DeltaResync` a fast lane
  that loses nothing, `SyncSession` one session.
* In the ring: the descriptor is one word; a producer that is gone and a bad
  descriptor make the helper exit; a ring is replaced, not reused.
* In the lifecycle: an error of `try_wait` (the waiter then forgets a process
  that may live), and the second `Lifecycle` that a role switch makes while
  the first one's Blender is still quitting.
* A blob or file that fails to apply is done and its content stays missing;
  the code reports it as an error count and nothing repairs it, so the session runs
  about equality use `Fallible = FALSE`; `DeltaResync` has the failures and excepts them.
* Preferences, settings window, tray, discovery, secrets, colour comparison,
  the older ZMQ transport (same interface), the smoke tests, installers: user
  interface, storage, or no state of the protocol.

## 6. Plan

1. *Done:* the session's lanes, merge and repair; the frame ring; the
   supervision of Blender; flush, delta resync, link, pairing, pixel path and
   view, with the refinement of the abstract lane.
2. *Done:* theorems about every module but `ReplicaView`, each from an inductive
   invariant of its own; the refinement `Ordered` proved.
   `NothingForgotten` for an ordinary session (`Allowed = {}`); `RepairComplete` and
   `WishStands` up to the states they name; the credit of the link, with what it needs of sums.
3. `NeverLeftOpaque` of `ReplicaView`.
4. The role switch around `BlenderLifecycle`: two supervisors at once.
5. Library files: the request, the blob, the link message that waits for it.
