----------------------------- MODULE HostLanes ------------------------------
(***************************************************************************)
(* The host's side of the lanes (ring0/host_handlers.HostSync): what it    *)
(* queues, the lane counters it stamps, the `after` rule, the bootstrap,   *)
(* and the fast re-assert.  Time is left out: a dirty datablock may be     *)
(* flushed at any moment (its debounce ran out), and a send that gets no   *)
(* credit is a send that has not happened yet.                             *)
(***************************************************************************)
EXTENDS Wire

VARIABLES
    host,     \* the host's scene
    shadow,   \* light part of each datablock as last sent
    dirty,    \* datablocks waiting for a blob (tier 2)
    tombs,    \* deleted datablocks waiting for a tombstone
    known,    \* uuids the peer may know (DirtySet._sent)
    born,     \* uuids ever given to a datablock: a uuid is never used again
    seqC,     \* last cold seq used
    seqF,     \* last fast seq used
    coldOf,   \* _uuid_cold_seq: seq of the newest chunk sent per datablock
    bootSeq,  \* _boot_last_seq: seq of the last bootstrap's last chunk
    linkSeq,  \* _link_seq: seq of the last library message
    bootBox,  \* _boot_outbox: chunks of the file still to go
    t2Box,    \* _t2_outbox: chunks still to go, per datablock
    log,      \* the fast log
    rq,       \* _fast_resend_queue
    rend,     \* _fast_resend_end: a fast resync_end is owed
    edits, forced, links   \* counters for the bounds

hostVars == <<host, shadow, dirty, tombs, known, born, seqC, seqF, coldOf, bootSeq,
              linkSeq, bootBox, t2Box, log, rq, rend, edits, forced, links>>

LogEntry == [seq : Nat \ {0}, u : U, kind : {"t1", "tomb"}]

MaxOf(a, b) == IF a >= b THEN a ELSE b

\* (A wrong rule: only the file is waited for, not the datablock's own blob.)
AfterForFile(u) == MaxOf(bootSeq, linkSeq)

\* HostSync._after_for: the cold seq a fast message about u must follow.
AfterFor(u) == MaxOf(coldOf[u], MaxOf(bootSeq, linkSeq))

BoxesEmpty == \A u \in U : t2Box[u] = <<>>

\* bootstrap.serialize_mainfile cut into chunks.
FileChunks(id) == ChunkBlob("boot", Boot, id, BootChunks, host)

\* A deque with maxlen: recording one more forgets the oldest.
Record(seq, u, kind) ==
    LET all == log \cup {[seq |-> seq, u |-> u, kind |-> kind]}
    IN  IF Cardinality(all) <= LogCap THEN all
        ELSE {e \in all : \E f \in all : f.seq < e.seq}

Covers(seq) == \E e \in log : e.seq <= seq

\* (A wrong window: it starts after the seq that was lost.)
WindowAfter(seq) ==
    {[u |-> e.u, kind |-> e.kind] : e \in
        {e \in log : e.seq > seq /\ \A f \in log : f.u = e.u => f.seq <= e.seq}}

\* FastLog.window_since: the last kind per datablock wins.
WindowSince(seq) ==
    {[u |-> e.u, kind |-> e.kind] : e \in
        {e \in log : e.seq >= seq /\ \A f \in log : f.u = e.u => f.seq <= e.seq}}

(***************************************************************************)
(* The session starts: the handshake's hello reported counters of zero,    *)
(* its bootstrap is queued and the replica is empty.  With Landed, the     *)
(* same session a moment later: that file has left and has applied.        *)
(***************************************************************************)
HostInit ==
    /\ host = [u \in U |-> IF u \in U0 THEN [h |-> 1, l |-> 0] ELSE Gone]
    /\ shadow = [u \in U |-> 0]
    /\ dirty = {} /\ tombs = {} /\ known = U0 /\ born = U0
    /\ seqC = (IF Landed THEN BootChunks ELSE 0) /\ seqF = 0
    /\ coldOf = [u \in U |-> 0] /\ bootSeq = seqC /\ linkSeq = 0
    /\ bootBox = IF Landed THEN <<>> ELSE FileChunks(1)
    /\ t2Box = [u \in U |-> <<>>]
    /\ log = {} /\ rq = {} /\ rend = FALSE
    /\ edits = 0 /\ forced = 0 /\ links = 0

-----------------------------------------------------------------------------
(* The user's edits, as the depsgraph and the deletion sweep report them.  *)

\* A property edit: the next tier-1 diff against the shadow finds it.
EditLight(u) ==
    /\ edits < MaxEdits /\ Exists(host[u])
    /\ host' = [host EXCEPT ![u] = [h |-> @.h, l |-> @.l + 1]]
    /\ edits' = edits + 1
    /\ UNCHANGED <<wireVars, shadow, dirty, tombs, known, born, seqC, seqF, coldOf,
                   bootSeq, linkSeq, bootBox, t2Box, log, rq, rend, forced, links>>

\* A structural edit, or a datablock the user has just created: tier 2.
EditHeavy(u) ==
    /\ edits < MaxEdits
    /\ Exists(host[u]) \/ u \notin born
    /\ host' = [host EXCEPT ![u] = [h |-> @.h + 1, l |-> @.l]]
    /\ dirty' = dirty \cup {u}
    /\ born' = born \cup {u}
    /\ edits' = edits + 1
    /\ UNCHANGED <<wireVars, shadow, tombs, known, seqC, seqF, coldOf, bootSeq,
                   linkSeq, bootBox, t2Box, log, rq, rend, forced, links>>

\* (A wrong deletion: what still waits for a blob counts as never sent.)
DeleteBlockDirty(u) ==
    /\ edits < MaxEdits /\ Exists(host[u])
    /\ host' = [host EXCEPT ![u] = Gone]
    /\ dirty' = dirty \ {u}
    /\ tombs' = IF u \in known \ dirty THEN tombs \cup {u} ELSE tombs
    /\ edits' = edits + 1
    /\ UNCHANGED <<wireVars, shadow, known, born, seqC, seqF, coldOf, bootSeq, linkSeq, bootBox,
                   t2Box, log, rq, rend, forced, links>>

\* _sweep_deletions and DirtySet.mark_deleted: a datablock the peer never
\* heard of collapses to nothing.
DeleteBlock(u) ==
    /\ edits < MaxEdits /\ Exists(host[u])
    /\ host' = [host EXCEPT ![u] = Gone]
    /\ dirty' = dirty \ {u}
    /\ tombs' = IF u \in known THEN tombs \cup {u} ELSE tombs
    /\ edits' = edits + 1
    /\ UNCHANGED <<wireVars, shadow, known, born, seqC, seqF, coldOf, bootSeq, linkSeq, bootBox,
                   t2Box, log, rq, rend, forced, links>>

-----------------------------------------------------------------------------
(* flush_tick, one message at a time: backpressure may end a tick after    *)
(* any of them.                                                            *)

\* The seq is taken when the chunk is sent.
Stamped(c) == [kind |-> c.kind, u |-> c.u, id |-> c.id, i |-> c.i, n |-> c.n,
               val |-> c.val, seq |-> seqC + 1]

SendBootChunk ==
    /\ bootBox # <<>>
    /\ SendCold(Stamped(Head(bootBox)))
    /\ seqC' = seqC + 1
    /\ bootBox' = Tail(bootBox)
    /\ IF Tail(bootBox) = <<>>
       THEN bootSeq' = seqC + 1 /\ coldOf' = [u \in U |-> 0]
       ELSE UNCHANGED <<bootSeq, coldOf>>
    /\ UNCHANGED <<fast, lostF, host, shadow, dirty, tombs, known, born, seqF, linkSeq,
                   t2Box, log, rq, rend, edits, forced, links>>

SendT2Chunk(u) ==
    /\ bootBox = <<>> /\ t2Box[u] # <<>>
    /\ SendCold(Stamped(Head(t2Box[u])))
    /\ seqC' = seqC + 1
    /\ t2Box' = [t2Box EXCEPT ![u] = Tail(@)]
    /\ coldOf' = [coldOf EXCEPT ![u] = seqC + 1]
    /\ UNCHANGED <<fast, lostF, host, shadow, dirty, tombs, known, born, seqF, bootSeq,
                   linkSeq, bootBox, log, rq, rend, edits, forced, links>>

\* DirtySet.drain at the head of a tick that gets that far: what is dirty,
\* still being edited or not, joins the uuids the peer may know.
DrainDirty ==
    /\ bootBox = <<>> /\ BoxesEmpty /\ ~(dirty \subseteq known)
    /\ known' = known \cup dirty
    /\ UNCHANGED <<wireVars, host, shadow, dirty, tombs, born, seqC, seqF, coldOf, bootSeq,
                   linkSeq, bootBox, t2Box, log, rq, rend, edits, forced, links>>

\* (A wrong flush: one datablock's blob clears the whole queue.)
FlushT2Clears(u) ==
    /\ bootBox = <<>> /\ t2Box[u] = <<>> /\ u \in dirty \cap known
    /\ t2Box' = [t2Box EXCEPT ![u] =
           ChunkBlob("t2", u, seqC + 1, T2Chunks, Only(u, host))]
    /\ shadow' = [shadow EXCEPT ![u] = host[u].l]
    /\ dirty' = {}
    /\ UNCHANGED <<wireVars, host, tombs, known, born, seqC, seqF, coldOf, bootSeq, linkSeq,
                   bootBox, log, rq, rend, edits, forced, links>>

\* _flush_t2: serialize, refresh the shadow, queue the chunks.  They leave
\* through SendT2Chunk.
FlushT2(u) ==
    /\ bootBox = <<>> /\ t2Box[u] = <<>> /\ u \in dirty \cap known
    /\ t2Box' = [t2Box EXCEPT ![u] =
           ChunkBlob("t2", u, seqC + 1, T2Chunks, Only(u, host))]
    /\ shadow' = [shadow EXCEPT ![u] = host[u].l]
    /\ dirty' = dirty \ {u}
    /\ UNCHANGED <<wireVars, host, tombs, known, born, seqC, seqF, coldOf, bootSeq, linkSeq,
                   bootBox, log, rq, rend, edits, forced, links>>

\* A delta or a tombstone leaves on the fast lane and is logged.
LaneOut(kind, u, l) ==
    /\ SendFast([kind |-> kind, u |-> u, l |-> l, seq |-> seqF + 1, after |-> AfterFor(u)])
    /\ seqF' = seqF + 1
    /\ log' = Record(seqF + 1, u, kind)
    /\ UNCHANGED <<cold, lostC>>

\* _flush_t1 and _send_t1: the diff against the shadow.  A blob of another
\* datablock may be half sent (its tick goes on after the refusal).
FlushT1(u) ==
    /\ bootBox = <<>> /\ t2Box[u] = <<>>
    /\ u \notin dirty /\ Exists(host[u]) /\ host[u].l # shadow[u]
    /\ LaneOut("t1", u, host[u].l)
    /\ shadow' = [shadow EXCEPT ![u] = host[u].l]
    /\ UNCHANGED <<host, dirty, tombs, known, born, seqC, coldOf, bootSeq, linkSeq,
                   bootBox, t2Box, rq, rend, edits, forced, links>>

SendTombstone(u) ==
    /\ bootBox = <<>> /\ BoxesEmpty /\ u \in tombs
    /\ LaneOut("tomb", u, 0)
    /\ tombs' = tombs \ {u}
    /\ UNCHANGED <<host, shadow, dirty, known, born, seqC, coldOf, bootSeq, linkSeq,
                   bootBox, t2Box, rq, rend, edits, forced, links>>

\* _send_cold_msg: a "link" or "unlink" message of the library sweep, or a
\* "lib_missing" answer, which the watch timer sends whatever is queued.
SendLink ==
    /\ links < MaxLinks
    /\ SendCold([kind |-> "link", u |-> Boot, id |-> 0, i |-> 0, n |-> 0,
                 val |-> NoScene, seq |-> seqC + 1])
    /\ seqC' = seqC + 1
    /\ linkSeq' = seqC + 1
    /\ links' = links + 1
    /\ UNCHANGED <<fast, lostF, host, shadow, dirty, tombs, known, born, seqF, coldOf,
                   bootSeq, bootBox, t2Box, log, rq, rend, edits, forced>>

\* _drain_fast_resend, one entry: the whole shadow, or a tombstone for what
\* is gone.
Reassert(e) ==
    /\ bootBox = <<>> /\ BoxesEmpty /\ e \in rq
    /\ IF e.kind = "tomb" \/ ~Exists(host[e.u])
       THEN LaneOut("tomb", e.u, 0)
       ELSE LaneOut("t1", e.u, shadow[e.u])
    /\ rq' = rq \ {e}
    /\ UNCHANGED <<host, shadow, dirty, tombs, known, born, seqC, coldOf, bootSeq,
                   linkSeq, bootBox, t2Box, rend, edits, forced, links>>

\* _drain_fast_resend, its end: a resync_end that waits for nothing cold.
ReassertEnd ==
    /\ bootBox = <<>> /\ BoxesEmpty /\ rq = {} /\ rend
    /\ SendFast([kind |-> "resync_end", u |-> Boot, l |-> 0, seq |-> seqF + 1, after |-> 0])
    /\ seqF' = seqF + 1
    /\ rend' = FALSE
    /\ UNCHANGED <<cold, lostC, host, shadow, dirty, tombs, known, born, seqC, coldOf,
                   bootSeq, linkSeq, bootBox, t2Box, log, rq, edits, forced, links>>

-----------------------------------------------------------------------------
(* Repairs, as the session's watch timer asks for them.                    *)

\* send_bootstrap: the file supersedes the file chunks still queued.  The
\* blob outbox and the re-assert queue stay as they are.
SendBootstrap ==
    /\ bootBox' = FileChunks(seqC + 1)
    /\ UNCHANGED <<host, shadow, dirty, tombs, known, born, seqC, seqF, coldOf, bootSeq,
                   linkSeq, t2Box, log, rq, rend, edits, links>>

\* force_resync, the auto-boot, a handshake on a warm replica.
ForceBootstrap ==
    /\ forced < MaxForced
    /\ SendBootstrap
    /\ forced' = forced + 1
    /\ UNCHANGED wireVars

\* (A wrong re-assert: it never says that it has ended.)
ResendNoEnd(gapAt) ==
    /\ rq' = rq \cup WindowSince(gapAt)
    /\ UNCHANGED <<rend, host, shadow, dirty, tombs, known, born, seqC, seqF, coldOf, bootSeq,
                   linkSeq, bootBox, t2Box, log, edits, forced, links>>

ResendFastWindow(gapAt) ==
    /\ rq' = rq \cup WindowSince(gapAt)
    /\ rend' = TRUE
    /\ UNCHANGED <<host, shadow, dirty, tombs, known, born, seqC, seqF, coldOf, bootSeq,
                   linkSeq, bootBox, t2Box, log, edits, forced, links>>

\* The steps of the flush timer that move something towards the wire.
FlushTick ==
    \/ SendBootChunk
    \/ DrainDirty
    \/ \E u \in U : SendT2Chunk(u) \/ FlushT2(u) \/ FlushT1(u) \/ SendTombstone(u)
    \/ \E e \in rq : Reassert(e)
    \/ ReassertEnd

UserEdit == \E u \in U : EditLight(u) \/ EditHeavy(u) \/ DeleteBlock(u)

HostTypeOK ==
    /\ host \in Scene /\ shadow \in [U -> Nat]
    /\ dirty \in SUBSET U /\ tombs \in SUBSET U
    /\ known \in SUBSET U /\ born \in SUBSET U
    /\ seqC \in Nat /\ seqF \in Nat
    /\ coldOf \in [U -> Nat] /\ bootSeq \in Nat /\ linkSeq \in Nat
    /\ bootBox \in Seq(Chunk) /\ t2Box \in [U -> Seq(Chunk)]
    /\ log \in SUBSET LogEntry
    /\ rq \in SUBSET [u : U, kind : {"t1", "tomb"}] /\ rend \in BOOLEAN
    /\ edits \in Nat /\ forced \in Nat /\ links \in Nat
=============================================================================
