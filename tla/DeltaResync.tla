----------------------------- MODULE DeltaResync -----------------------------
(***************************************************************************)
(* A hole on the cold lane repaired without the file: the replica keeps an *)
(* inventory of digests, the host asks for it, plans the difference and    *)
(* sends that (ring1/resync.py; HostSync.plan_from_manifest, send_delta,   *)
(* _drain_delta; replica_apply's _held and _merge_manifests;               *)
(* ResyncPolicy.decide).                                                   *)
(*                                                                         *)
(* Three channels race: blobs and files on the cold lane, deltas and       *)
(* tombstones on the fast lane, manifests and pongs on the control lane.   *)
(* A blob or a file is one frame here (SyncSession and Pairing have the    *)
(* chunks), the fast lane loses nothing (SyncSession), and a datablock is  *)
(* the version a blob carries.  0 is "none": no such datablock, no digest, *)
(* no scene.                                                               *)
(***************************************************************************)
EXTENDS LaneMerge, Integers, Sequences, SequencesExt

CONSTANTS
    D,        \* datablocks
    D0,       \* those of the project as it is opened
    Scene,    \* the scene: its structure crosses only in the file
    None,     \* no value
    MaxEdits, \* bound: changes by the artist, in all
    MaxBoots, \* bound: files sent on request
    MaxLost,  \* bound: cold frames discarded by the agent
    MaxFails, \* bound: blobs and files Blender fails to apply
    MaxEvents, \* bound: all of these together
    Leftover  \* the replica still runs the file of an earlier session

ASSUME DeltaAssumption ==
    /\ {MaxEdits, MaxBoots, MaxLost, MaxFails, MaxEvents} \subseteq Nat
    /\ IsFiniteSet(D) /\ D0 \subseteq D /\ Scene \notin D
    /\ Leftover \in BOOLEAN
ASSUME NoneAssumption == None \notin Nat \X Nat   \* no count of files and repairs

VARIABLES
    h,     \* the host: its scene, and HostSync
    r,     \* the replica: its scene, inventory, gaps and counts
    cold, fast, \* the lanes
    ctl,   \* manifest batches on their way, or waiting for the file they are of
    pong,  \* the replica's status as the host last heard it
    used   \* the bounds used up

vars == <<h, r, cold, fast, ctl, pong, used>>

Limit == [edit |-> MaxEdits, boot |-> MaxBoots, lost |-> MaxLost, fail |-> MaxFails]
May(c) == used[c] < Limit[c] /\ used.edit + used.boot + used.lost + used.fail < MaxEvents
Use(c) == used' = [used EXCEPT ![c] = @ + 1]

Empty == [u \in D |-> 0]
Live(g) == {u \in D : g.ver[u] # 0}

-----------------------------------------------------------------------------
(* What the host sends.                                                    *)

Cold(g, m) == [g EXCEPT !.seq = @ + 1, !.out = Append(@, [m EXCEPT !.seq = g.seq + 1])]
Blob(kind, u, ver, fix) == [kind |-> kind, u |-> u, ver |-> ver, fix |-> fix, seq |-> 0, sd |-> 0, gen |-> 0]

\* _after_for: what a fast message about the datablock must follow.
After(g, u) == IF u # Scene /\ g.at[u] > g.bootSeq THEN g.at[u] ELSE g.bootSeq

FastMsg(g, kind, u, seq) == [kind |-> kind, u |-> u, dig |-> g.dig, after |-> After(g, u), seq |-> seq]
Fast(g, kind, u) == [g EXCEPT !.fseq = @ + 1, !.fout = Append(@, FastMsg(g, kind, u, g.fseq + 1))]
SendTombstone(g, u) == Fast(g, "tomb", u)

\* send_bootstrap: whatever was planned, hashed or owed of an inventory is void.
SendBootstrap(g, fix) ==
    LET b == [kind |-> "boot", u |-> Scene, ver |-> g.ver, fix |-> fix, seq |-> 0, sd |-> g.sd, gen |-> g.gen + 1]
    IN  [Cold(g, b) EXCEPT !.gen = @ + 1, !.dig = g.sd, !.shipped = g.sd, !.mpend = Empty, !.manifest = None,
                           !.queue = {}, !.tail = {}, !.end = FALSE,
                           !.hash = Empty, !.prime = Live(g), !.bootSeq = g.seq + 1, !.at = Empty]

SendT2(g, u, fix) == [Cold(g, Blob("t2", u, g.ver[u], fix)) EXCEPT !.at[u] = g.seq + 1]

NoRequest == [at |-> "none"]
HostSync ==
    [ver |-> [u \in D |-> IF u \in D0 THEN IF Leftover THEN 2 ELSE 1 ELSE 0], sd |-> 1, born |-> D0,
     dirty |-> {}, tombs |-> {}, known |-> D0, scene |-> "same", auto |-> FALSE,
     hash |-> Empty, prime |-> {}, mpend |-> Empty, gen |-> -1, dig |-> 0,
     manifest |-> None, req |-> NoRequest, queue |-> {}, tail |-> {}, end |-> FALSE,
     seq |-> 0, fseq |-> 0, bootSeq |-> 0, at |-> Empty, served |-> None,
     shipped |-> 0,                 \* for the properties: the structure in the last file sent
     out |-> <<>>, fout |-> <<>>]   \* out, fout: what a step has put on the lanes

\* replica_apply's globals: a fresh process, or one that has run version 1 of
\* the same project as another session's file number 0, its hashes never told.
Replica ==
    [ver |-> [u \in D |-> IF Leftover /\ u \in D0 THEN 1 ELSE 0], sd |-> IF Leftover THEN 1 ELSE 0,
     dig |-> IF Leftover THEN 1 ELSE 0, held |-> Empty, gen |-> IF Leftover THEN 0 ELSE None,
     mg |-> Primed(0, 0), unknown |-> FALSE, want |-> FALSE, boots |-> 0, resyncs |-> 0,
     \* for the properties: blobs that failed since the last file, the newest frame lost, and
     \* whether a file has failed or a part of a repair been lost, with no file applied since
     failed |-> {}, lost |-> 0, missed |-> FALSE]

\* The status provider's part of a pong; the host looks at it only where it wants a resync.
Lane(p) == IF p.unknown /\ GapLane(p.mg) = "" THEN "unknown" ELSE GapLane(p.mg)
NoWish == [want |-> FALSE, lane |-> "", state |-> None, dig |-> 0, held |-> Empty]
Status(p) ==
    IF ~p.want THEN NoWish
    ELSE [want |-> TRUE, lane |-> Lane(p), state |-> <<p.boots, p.resyncs>>, dig |-> p.dig, held |-> p.held]

\* The host's step: what it has sent goes onto the lanes.
Host(g) ==
    /\ h' = [g EXCEPT !.out = <<>>, !.fout = <<>>]
    /\ cold' = cold \o g.out /\ fast' = fast \o g.fout

\* The handshake has just sent its file; no pong has come yet.
Init ==
    \E g \in {SendBootstrap(HostSync, FALSE)} :
        /\ h = [g EXCEPT !.out = <<>>] /\ cold = g.out /\ fast = <<>> /\ ctl = {}
        /\ r = Replica /\ pong = Status(Replica)
        /\ used = [c \in DOMAIN Limit |-> 0]

-----------------------------------------------------------------------------
(* The artist.                                                             *)

Change(g) == /\ May("edit") /\ Use("edit") /\ Host(g) /\ UNCHANGED <<r, ctl, pong>>

Edit(u) == u \in Live(h) /\ Change([h EXCEPT !.ver[u] = @ + 1, !.dirty = @ \union {u}])
Create(u) == u \notin h.born /\ Change([h EXCEPT !.ver[u] = 1, !.born = @ \union {u}, !.dirty = @ \union {u}])
\* (A datablock deleted before it was ever drained is HostFlush's.)
Delete(u) ==
    /\ u \in Live(h) \cap h.known
    /\ Change([h EXCEPT !.ver[u] = 0, !.dirty = @ \ {u}, !.tombs = @ \union {u}])
\* The scene's structure changes, alone or with something a delta carries.
Restructure(how) ==
    /\ h.scene = "same" /\ Change([h EXCEPT !.sd = @ + 1, !.scene = how])

-----------------------------------------------------------------------------
(* flush_tick: the repair first; edits queue behind it.                    *)

Repairing == h.queue # {} \/ h.tail # {} \/ h.end
Timer(g) == Host(g) /\ UNCHANGED <<r, ctl, pong, used>>

FlushT2(u) ==
    /\ ~Repairing /\ u \in h.dirty
    /\ \E g \in {[h EXCEPT !.dirty = @ \ {u}, !.known = @ \union {u}]} :
         Timer(IF g.hash[u] = g.ver[u] THEN g
               ELSE SendT2([g EXCEPT !.hash[u] = g.ver[u], !.mpend[u] = 0], u, FALSE))

FlushTomb(u) ==
    /\ ~Repairing /\ u \in h.tombs
    /\ Timer(SendTombstone([h EXCEPT !.tombs = @ \ {u}, !.known = @ \ {u}], u))

\* A changed structure asks for the file; what else changed goes as a delta, with the new digest.
FlushScene ==
    /\ ~Repairing /\ h.scene # "same"
    /\ \E g \in {[h EXCEPT !.scene = "same", !.auto = TRUE, !.dig = h.sd]} :
         Timer(IF h.scene = "rides" THEN Fast(g, "t1", Scene) ELSE g)

AutoBoot == ~Repairing /\ h.auto /\ Timer(SendBootstrap([h EXCEPT !.auto = FALSE], FALSE))

\* ... or no file, when the last was sent less than ten seconds ago: at any time, here.
AutoCovered == ~Repairing /\ h.auto /\ Timer([h EXCEPT !.auto = FALSE])

\* A file that supersedes a repair stands in for it (fix).
ForceResync ==
    /\ May("boot") /\ Use("boot")
    /\ Host(SendBootstrap(h, Repairing)) /\ UNCHANGED <<r, ctl, pong>>

\* _prime_hashes, when nothing is dirty: one tick's budget is enough for all.
PrimeHashes ==
    /\ ~Repairing /\ h.dirty = {} /\ h.tombs = {} /\ h.scene = "same" /\ h.prime # {}
    /\ \E new \in {[u \in D |-> IF u \in h.prime /\ h.hash[u] = 0 THEN h.ver[u] ELSE 0]} :
         Timer([h EXCEPT !.prime = {},
                         !.hash = [u \in D |-> IF new[u] # 0 THEN new[u] ELSE @[u]],
                         !.mpend = [u \in D |-> IF new[u] # 0 THEN new[u] ELSE @[u]]])

SendManifestBatch ==
    /\ ~Repairing /\ h.mpend # Empty
    /\ h' = [h EXCEPT !.mpend = Empty]
    /\ ctl' = ctl \union {[gen |-> h.gen, held |-> h.mpend]}
    /\ UNCHANGED <<r, cold, fast, pong, used>>

-----------------------------------------------------------------------------
(* The host's watch: delta_state, decide, plan_delta.                      *)

\* The new host and "ready", "pending" or "mismatch".
DeltaState(g, s, late) ==
    LET n == [g EXCEPT !.dig = g.sd]
    IN  CASE s.dig = 0 \/ s.dig # g.sd -> <<n, "mismatch">>
          [] s.dig = g.sd /\ g.manifest # None /\ g.manifest.tag = s.held -> <<n, "ready">>
          [] OTHER ->
               IF g.req.at = "none" THEN <<[n EXCEPT !.req = [at |-> "asked"]], "pending">>
               ELSE IF g.req.at = "answered"
                    THEN <<[n EXCEPT !.req = NoRequest, !.manifest = [held |-> g.req.held, dig |-> g.req.dig, tag |-> s.held]],
                           IF g.req.dig = g.sd THEN "ready" ELSE "mismatch">>
               ELSE IF late THEN <<[n EXCEPT !.req = NoRequest], "mismatch">>
               ELSE <<n, "pending">>

\* Mutant.  Only what the replica holds is compared.
PlanDeltaHeld(g, lane) ==
    LET held == g.manifest.held
        alive == Live(g)
        resend == {u \in alive : held[u] # 0 /\ g.hash[u] # 0 /\ g.hash[u] # held[u]}
        verify == {u \in alive : held[u] # 0 /\ g.hash[u] = 0}
    IN  IF g.manifest.dig # g.dig THEN None
        ELSE [tombs |-> {u \in D : held[u] # 0} \ alive, resend |-> resend, verify |-> verify,
              at |-> IF lane = "cold" THEN resend \union verify ELSE alive]

\* resync.plan_delta.
PlanDelta(g, lane) ==
    LET held == g.manifest.held
        alive == Live(g)
        resend == {u \in alive : held[u] = 0 \/ (g.hash[u] # 0 /\ g.hash[u] # held[u])}
        verify == {u \in alive : held[u] # 0 /\ g.hash[u] = 0}
    IN  IF g.manifest.dig # g.dig THEN None
        ELSE [tombs |-> {u \in D : held[u] # 0} \ alive, resend |-> resend, verify |-> verify,
              at |-> IF lane = "cold" THEN resend \union verify ELSE alive]

\* send_delta: tombstones at once, the rest over the next ticks.
SendDelta(g, plan) ==
    LET gone == SetToSeq(plan.tombs)
    IN  [g EXCEPT !.fseq = @ + Len(gone),
                  !.fout = @ \o [i \in 1..Len(gone) |-> FastMsg(g, "tomb", gone[i], g.fseq + i)],
                  !.queue = {[u |-> u, expect |-> g.manifest.held[u]] : u \in plan.resend \union plan.verify},
                  !.tail = {Scene} \union plan.at, !.end = TRUE, !.manifest = None]

\* The state a repair answers (ResyncPolicy._served_for).
Served(g, s) == [g EXCEPT !.served = s.state]

\* Mutant.  A wish counts as answered while its inventory is still awaited.
AnswerPendingServed(g, s, verdict, limited) ==
    LET n == Served(g, s)
    IN  IF g.served = s.state THEN g
        ELSE IF verdict = "pending" THEN n
        ELSE IF verdict = "mismatch" THEN SendBootstrap(n, TRUE)
        ELSE IF PlanDelta(g, s.lane) # None THEN SendDelta(n, PlanDelta(g, s.lane))
        ELSE IF limited THEN [g EXCEPT !.served = None] ELSE SendBootstrap(n, TRUE)

\* ResyncPolicy.decide and what _watch makes of it; `limited` is the file's rate limit.
Answer(g, s, verdict, limited) ==
    LET n == Served(g, s)
    IN  IF g.served = s.state \/ verdict = "pending" THEN g
        ELSE IF verdict = "mismatch" THEN SendBootstrap(n, TRUE)
        ELSE IF PlanDelta(g, s.lane) # None THEN SendDelta(n, PlanDelta(g, s.lane))
        ELSE IF limited THEN [g EXCEPT !.served = None] ELSE SendBootstrap(n, TRUE)

Watch(late, limited) ==
    /\ pong.want
    /\ \E d \in {DeltaState(h, pong, late)} : Timer(Answer(d[1], pong, d[2], limited))

\* _drain_delta, entry by entry: _resend_t2, _send_t1_full, resync_end.
ResendT2(e) ==
    /\ e \in h.queue
    /\ \E g \in {[h EXCEPT !.queue = @ \ {e}, !.hash[e.u] = IF h.ver[e.u] = 0 THEN @ ELSE h.ver[e.u]]} :
         Timer(IF h.ver[e.u] = 0 THEN SendTombstone(g, e.u)
               ELSE IF e.expect = h.ver[e.u] THEN g ELSE SendT2(g, e.u, TRUE))

SendT1Full(u) ==
    /\ h.queue = {} /\ u \in h.tail
    /\ \E g \in {[h EXCEPT !.tail = @ \ {u}]} :
         Timer(IF u = Scene \/ u \in Live(h) THEN Fast(g, "t1", u) ELSE SendTombstone(g, u))

EndDelta ==
    /\ h.queue = {} /\ h.tail = {} /\ h.end
    /\ Timer(Cold([h EXCEPT !.end = FALSE], Blob("end", Scene, 0, TRUE)))

-----------------------------------------------------------------------------
(* The replica.                                                            *)

(* Fast messages applied in seq order, one or several that cold_done frees. *)

\* _apply_tombstone: a datablock that is not there is left alone, its digest too.
Buried(p, msgs) == {u \in D : p.ver[u] # 0 /\ \E m \in msgs : m.kind = "tomb" /\ m.u = u}

\* _apply_t1 meets a scene or a datablock that is not there, or not any more.
MeetsUnknown(p, msgs) ==
    \E m \in msgs :
        /\ m.kind = "t1"
        /\ IF m.u = Scene THEN p.sd = 0
           ELSE p.ver[m.u] = 0 \/ \E t \in msgs : t.kind = "tomb" /\ t.u = m.u /\ t.seq < m.seq

\* The digest the newest of the scene's deltas carries.
Digest(p, msgs) ==
    LET news == {m \in msgs : m.kind = "t1" /\ m.u = Scene}
    IN  IF p.sd = 0 \/ news = {} THEN p.dig
        ELSE (CHOOSE m \in news : \A o \in news : o.seq <= m.seq).dig

ApplyFast(p, msgs) ==
    [p EXCEPT !.ver = [u \in D |-> IF u \in Buried(p, msgs) THEN 0 ELSE @[u]],
              !.held = [u \in D |-> IF u \in Buried(p, msgs) THEN 0 ELSE @[u]],
              !.dig = Digest(p, msgs),
              !.unknown = @ \/ MeetsUnknown(p, msgs), !.want = @ \/ MeetsUnknown(p, msgs)]

\* cold_done, and the fast messages it lets through.
Done(p, seq) == ApplyFast([p EXCEPT !.mg = ColdDone(@, seq)], Due(p.mg, seq))

\* The full file is the answer; its inventory starts empty.
ApplyBoot(p, m) ==
    [p EXCEPT !.ver = m.ver, !.sd = m.sd, !.dig = m.sd, !.held = Empty, !.gen = m.gen, !.failed = {}, !.missed = FALSE,
              !.want = FALSE, !.unknown = FALSE, !.boots = @ + 1, !.mg = ClearColdGap(@)]

ApplyT2(p, m) == [p EXCEPT !.ver[m.u] = m.ver, !.held[m.u] = m.ver, !.failed = @ \ {m.u}]

EndResync(p) == [p EXCEPT !.mg = ClearColdGap(@), !.unknown = FALSE, !.want = FALSE, !.resyncs = @ + 1]

\* observe: a frame that is not the next shows the hole.
Observed(p, seq) ==
    [p EXCEPT !.want = @ \/ ~Contiguous(p.mg.cold, seq), !.mg.cold = Observe(@, seq)]

\* _apply_one raises: the error is counted, and the message is done like any other.
Raised(p, m) ==
    IF m.kind = "boot" THEN [p EXCEPT !.missed = TRUE] ELSE [p EXCEPT !.failed = @ \union {m.u}]

TakeCold(fails) ==
    /\ cold # <<>>
    /\ \E m \in {Head(cold)} : \E p \in {Observed(r, m.seq)} :
         /\ fails => May("fail") /\ m.kind # "end"
         /\ r' = Done(CASE fails -> Raised(p, m)
                        [] ~fails /\ m.kind = "boot" -> ApplyBoot(p, m)
                        [] ~fails /\ m.kind = "end" -> EndResync(p)
                        [] ~fails /\ m.kind = "t2" -> ApplyT2(p, m), m.seq)
    /\ IF fails THEN Use("fail") ELSE UNCHANGED used
    /\ cold' = Tail(cold) /\ UNCHANGED <<h, fast, ctl, pong>>

TakeFast ==
    /\ fast # <<>>
    /\ r' = IF Admissible(r.mg, Head(fast)) THEN ApplyFast(r, {Head(fast)}) ELSE [r EXCEPT !.mg = Park(@, Head(fast))]
    /\ fast' = Tail(fast) /\ UNCHANGED <<h, cold, ctl, pong, used>>

\* Mutant.  A batch of a newer file is merged at once.
MergeableAhead(p, b) == p.gen # None /\ b.gen >= p.gen

\* _merge_manifests: a batch of the file that runs is merged, of an older one dropped, of a newer one kept.
Mergeable(p, b) == p.gen # None /\ b.gen = p.gen
MergeManifest(b) ==
    /\ b \in ctl /\ r.gen # None /\ (b.gen > r.gen => Mergeable(r, b))
    /\ r' = IF Mergeable(r, b) THEN [r EXCEPT !.held = [u \in D |-> IF @[u] = 0 THEN b.held[u] ELSE @[u]]] ELSE r
    /\ ctl' = ctl \ {b} /\ UNCHANGED <<h, cold, fast, pong, used>>

\* held_snapshot answers a manifest_req, on the IO thread.
ServeManifest ==
    /\ h.req.at = "asked"
    /\ h' = [h EXCEPT !.req = [at |-> "answered", held |-> r.held, dig |-> r.dig]]
    /\ UNCHANGED <<r, cold, fast, ctl, pong, used>>

Pong ==
    /\ pong' = Status(r) /\ pong' # pong
    /\ UNCHANGED <<h, r, cold, fast, ctl, used>>

\* The agent accepts a frame and discards it.
LoseCold ==
    /\ cold # <<>> /\ May("lost")
    /\ cold' = Tail(cold) /\ r' = [r EXCEPT !.lost = Head(cold).seq, !.missed = @ \/ Head(cold).fix]
    /\ Use("lost") /\ UNCHANGED <<h, fast, ctl, pong>>

-----------------------------------------------------------------------------
Edits ==
    \/ \E u \in D : Edit(u) \/ Create(u) \/ Delete(u)
    \/ \E how \in {"alone", "rides"} : Restructure(how)
    \/ ForceResync

Flush ==
    \/ \E u \in D : FlushT2(u) \/ FlushTomb(u)
    \/ PrimeHashes \/ FlushScene \/ AutoBoot \/ AutoCovered \/ SendManifestBatch
    \/ \E e \in h.queue : ResendT2(e)
    \/ \E u \in h.tail : SendT1Full(u)
    \/ EndDelta

Take == TakeCold(FALSE) \/ TakeFast \/ \E b \in ctl : MergeManifest(b)

Next ==
    \/ Edits \/ Flush \/ Take \/ TakeCold(TRUE) \/ LoseCold
    \/ ServeManifest \/ Pong
    \/ \E late, limited \in BOOLEAN : Watch(late, limited)

Spec == Init /\ [][Next]_vars

-----------------------------------------------------------------------------
(* Properties.                                                             *)

Quiet ==
    /\ cold = <<>> /\ fast = <<>> /\ r.mg.parked = {}
    /\ h.dirty = {} /\ h.tombs = {} /\ h.scene = "same" /\ ~h.auto /\ ~Repairing

\* No later frame has shown the loss yet.
TailLost == r.lost > r.mg.cold.last

\* What the replica's inventory says it holds, it holds: blobs, files, tombstones
\* and manifest batches of several files may come in any order, and a plan made
\* from it leaves out only what need not go.  (A tombstone may leave a digest
\* behind; the datablock is gone and its uuid does not come back.)
InventoryTrue == \A u \in D : r.held[u] # 0 /\ r.ver[u] # 0 => r.held[u] = r.ver[u]

\* The structure is on its way to nowhere: the file that should have brought it was skipped as
\* covered (AutoCovered) ...
Skipped == h.sd # h.shipped
\* ... or the replica's digest is ahead of its scene: a delta of the scene has brought that of a
\* structure which only a file brings, and which no file has brought yet.
Ahead == r.dig > r.sd

\* The difference is the whole difference: when everything has landed and no repair is asked for,
\* every datablock of the replica is the host's, but for a blob that Blender failed to apply and
\* reported, and its structure is the host's too, unless Skipped or Ahead.  Not after a file that
\* failed or a repair of which a part was lost, until the next file (missed).
RepairComplete ==
    Quiet /\ ~r.want /\ ~TailLost /\ ~r.missed =>
        /\ r.sd = h.sd \/ Skipped \/ Ahead
        /\ \A u \in D \ r.failed : r.ver[u] = h.ver[u]

\* No wish is written off: when nothing is under way any more and the replica
\* still wants a resync, the policy has not marked this wish as answered, so the
\* next watch answers it, however manifests were late, stale or refused and
\* whatever was edited meanwhile (ResyncPolicy._served_for).  Except again after a file that failed
\* or a repair of which a part was lost: neither moves the counts that name the wish.
WishStands == Quiet /\ r.want /\ ~r.missed => h.served # <<r.boots, r.resyncs>>
=============================================================================
