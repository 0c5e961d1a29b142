---------------------------- MODULE ReplicaApply ----------------------------
(***************************************************************************)
(* The replica's apply loop (ring0/replica_apply): one message at a time   *)
(* off the lanes through the merger, blobs reassembled and applied in      *)
(* batches on a later tick, parked fast messages released behind them,     *)
(* and the gap bookkeeping the pong reports.                               *)
(*                                                                         *)
(* The tick's time budget and the burst hold decide only how much of this  *)
(* one tick does, so each message and each batch is a step of its own.     *)
(***************************************************************************)
EXTENDS Wire, LaneMerge

VARIABLES
    mg,       \* _merger
    part,     \* reassembly in progress, per datablock (and Boot)
    pending,  \* _pending_blobs: complete, waiting for a batch
    scene,    \* the replica's scene
    want,     \* stats["want_resync"]
    unknown,  \* _unknown_gap: a delta named a datablock we never got
    boots,    \* stats["bootstraps"]
    resyncs   \* stats["resyncs"]

replicaVars == <<mg, part, pending, scene, want, unknown, boots, resyncs>>

NoPart == [id |-> 0, got |-> {}]
Item == [kind : {"t2", "boot"}, u : U \cup {Boot}, val : Scene, seq : Nat \ {0}]

\* As _handle_new_session leaves it before the first bootstrap (or, with
\* Landed, as that bootstrap's apply leaves it).
ReplicaInit(file) ==
    /\ mg = Primed(IF Landed THEN BootChunks ELSE 0, 0)
    /\ part = [s \in U \cup {Boot} |-> NoPart]
    /\ pending = <<>>
    /\ scene = (IF Landed THEN file ELSE NoScene)
    /\ want = FALSE /\ unknown = FALSE
    /\ boots = (IF Landed THEN 1 ELSE 0) /\ resyncs = 0

\* stats["gap_lane"] (_refresh_gap_stats)
ReportedLane(m, unk) == IF GapLane(m) = "" /\ unk THEN "unknown" ELSE GapLane(m)

-----------------------------------------------------------------------------
(* _apply_t1 and _apply_tombstone for a set of fast messages applied in    *)
(* seq order.  A delta needs its datablock: without it only the unknown    *)
(* flag goes up.  `after` never falls from one message about a datablock   *)
(* to the next, so releasing per blob keeps each datablock's order.        *)

OfKind(msgs, kind, u) == {m \in msgs : m.kind = kind /\ m.u = u}
Newest(msgs) == CHOOSE m \in msgs : \A o \in msgs : o.seq <= m.seq

AppliedTo(s, msgs) ==
    [u \in U |->
        IF ~Exists(s[u]) THEN s[u]
        ELSE IF OfKind(msgs, "tomb", u) # {} THEN Gone
        ELSE IF OfKind(msgs, "t1", u) # {} THEN [s[u] EXCEPT !.l = Newest(OfKind(msgs, "t1", u)).l]
        ELSE s[u]]

\* Does some delta of msgs meet a datablock that is not there?
MeetsUnknown(s, msgs) ==
    \E m \in msgs :
        /\ m.kind = "t1"
        /\ \/ ~Exists(s[m.u])
           \/ \E t \in OfKind(msgs, "tomb", m.u) : t.seq < m.seq

Seqs(msgs) == {m.seq : m \in msgs}

\* _release: merger m frees msgs onto scene s.
Release(m, msgs, s) ==
    /\ mg' = FastDone(m, Seqs(msgs))
    /\ scene' = AppliedTo(s, msgs)

-----------------------------------------------------------------------------
(* _process_cold, fast inbox: the frame is observed (a hole raises the     *)
(* flag), then applied or parked.                                          *)

FastSeen == [mg EXCEPT !.fast = Observe(@, Head(fast).seq)]
FastHole == ~Contiguous(mg.fast, Head(fast).seq)

TakeFast ==
    /\ fast # <<>>
    /\ fast' = Tail(fast)
    /\ UNCHANGED <<cold, lostC, lostF, part, pending, boots>>

\* (A wrong end: it takes the flag down whatever hole is left.)
EndResyncAll ==
    /\ TakeFast
    /\ Head(fast).kind = "resync_end"
    /\ mg' = FastDone(ClearFastGap(FastSeen), {Head(fast).seq})
    /\ want' = FALSE
    /\ resyncs' = resyncs + 1
    /\ UNCHANGED <<scene, unknown>>

\* _end_resync on the fast lane.  It names no cold seq, so it never parks.
EndResync ==
    /\ TakeFast
    /\ Head(fast).kind = "resync_end"
    /\ mg' = FastDone(ClearFastGap(FastSeen), {Head(fast).seq})
    /\ want' = (ReportedLane(ClearFastGap(FastSeen), unknown) # "")
    /\ resyncs' = resyncs + 1
    /\ UNCHANGED <<scene, unknown>>

ApplyFast ==
    /\ TakeFast
    /\ Head(fast).kind # "resync_end"
    /\ Admissible(mg, Head(fast))
    /\ Release(FastSeen, {Head(fast)}, scene)
    /\ unknown' = (unknown \/ MeetsUnknown(scene, {Head(fast)}))
    /\ want' = (want \/ FastHole \/ MeetsUnknown(scene, {Head(fast)}))
    /\ UNCHANGED resyncs

ParkFast ==
    /\ TakeFast
    /\ Head(fast).kind # "resync_end"
    /\ ~Admissible(mg, Head(fast))
    /\ mg' = Park(FastSeen, Head(fast))
    /\ want' = (want \/ FastHole)
    /\ UNCHANGED <<scene, unknown, resyncs>>

-----------------------------------------------------------------------------
(* _process_cold, cold inbox: waits while a file or a full batch is        *)
(* pending, and for the fast frames that are there.  Nothing orders one    *)
(* lane against the other, so a fast frame sent earlier may not be there   *)
(* yet, unless the network is Prompt.                                      *)

\* _pending_boot
PendingBoot == \E k \in 1..Len(pending) : pending[k].kind = "boot"

ColdSeen == [mg EXCEPT !.cold = Observe(@, Head(cold).seq)]
ColdHole == ~Contiguous(mg.cold, Head(cold).seq)

TakeCold ==
    /\ cold # <<>> /\ Len(pending) < BatchMax /\ ~PendingBoot
    /\ Prompt => fast = <<>>
    /\ cold' = Tail(cold)
    /\ UNCHANGED <<fast, lostC, lostF, boots, resyncs>>

\* cold_done of a message that needs no batch, and the release it causes.
DoneInline ==
    LET seq == Head(cold).seq
        due == Due(ColdSeen, seq)
    IN  /\ Release(ColdDone(ColdSeen, seq), due, scene)
        /\ unknown' = (unknown \/ MeetsUnknown(scene, due))
        /\ want' = (want \/ ColdHole \/ MeetsUnknown(scene, due))

\* _apply_link, _lib_missing_on_host
TakeLink ==
    /\ TakeCold
    /\ Head(cold).kind = "link"
    /\ DoneInline
    /\ UNCHANGED <<part, pending>>

\* The chunks of m's blob that are there once m is (Reassembler.feed; a new
\* blob of a datablock drops the unfinished one before it).
GotWith(m) == (IF part[m.u].id = m.id THEN part[m.u].got ELSE {}) \cup {m.i}
Completes(m) == Cardinality(GotWith(m)) = m.n

\* A chunk that completes nothing is done at once.
TakeChunk ==
    /\ TakeCold
    /\ Head(cold).kind # "link" /\ ~Completes(Head(cold))
    /\ part' = [part EXCEPT ![Head(cold).u] = [id |-> Head(cold).id, got |-> GotWith(Head(cold))]]
    /\ DoneInline
    /\ UNCHANGED pending

\* A chunk that completes a blob: the blob waits for a batch.  A file
\* supersedes every blob queued before it.
TakeLastChunk ==
    /\ TakeCold
    /\ Head(cold).kind # "link" /\ Completes(Head(cold))
    /\ part' = [part EXCEPT ![Head(cold).u] = NoPart]
    /\ LET m == Head(cold)
           item == [kind |-> m.kind, u |-> m.u, val |-> m.val, seq |-> m.seq]
       IN  pending' = IF m.kind = "boot" THEN <<item>> ELSE Append(pending, item)
    /\ mg' = ColdSeen
    /\ want' = (want \/ ColdHole)
    /\ UNCHANGED <<scene, unknown>>

-----------------------------------------------------------------------------
(* _apply_pending_batch                                                    *)

\* A file alone: every hole it answers is closed, then its cold_done.
ApplyBoot ==
    /\ pending # <<>> /\ Head(pending).kind = "boot"
    /\ LET b   == Head(pending)
           m1  == ClearFastGap(ClearColdGap(mg))
           due == Due(m1, b.seq)
           s1  == b.val
       IN  /\ Release(ColdDone(m1, b.seq), due, s1)
           /\ unknown' = MeetsUnknown(s1, due)
           /\ want' = MeetsUnknown(s1, due)
    /\ pending' = Tail(pending)
    /\ boots' = boots + 1
    /\ UNCHANGED <<wireVars, part, resyncs>>

\* The first k blobs (the time budget may cut a batch short, a file always
\* does), then one release of what they free.  A file empties the queue
\* before it joins it, so it is never behind other blobs.  Blender may
\* raise on some of them (bad): the error is counted and the blob is done
\* all the same.
Batched(k, bad) ==
    [u \in U |->
        LET js == {j \in (1..k) \ bad : pending[j].u = u}
        IN  IF js = {} THEN scene[u]
            ELSE pending[CHOOSE j \in js : \A i \in js : i <= j].val[u]]

ApplyBatch(k, bad) ==
    /\ ~PendingBoot
    /\ Fallible \/ bad = {}
    /\ LET due == Due(mg, pending[k].seq)
       IN  /\ Release(ColdDone(mg, pending[k].seq), due, Batched(k, bad))
           /\ unknown' = (unknown \/ MeetsUnknown(Batched(k, bad), due))
           /\ want' = (want \/ MeetsUnknown(Batched(k, bad), due))
    /\ pending' = SubSeq(pending, k + 1, Len(pending))
    /\ UNCHANGED <<wireVars, part, boots, resyncs>>

\* _apply_one raised on a file: it is done, but closes no hole.
ApplyBootFails ==
    /\ Fallible /\ pending # <<>> /\ Head(pending).kind = "boot"
    /\ LET due == Due(mg, Head(pending).seq)
       IN  /\ Release(ColdDone(mg, Head(pending).seq), due, scene)
           /\ unknown' = (unknown \/ MeetsUnknown(scene, due))
           /\ want' = (want \/ MeetsUnknown(scene, due))
    /\ pending' = Tail(pending)
    /\ UNCHANGED <<wireVars, part, boots, resyncs>>

ReplicaTick ==
    \/ EndResync \/ ApplyFast \/ ParkFast
    \/ TakeLink \/ TakeChunk \/ TakeLastChunk
    \/ ApplyBoot \/ ApplyBootFails
    \/ \E k \in 1..Len(pending) : \E bad \in SUBSET (1..k) : ApplyBatch(k, bad)

ReplicaTypeOK ==
    /\ mg \in Merger(FastMsg)
    /\ part \in [U \cup {Boot} -> [id : Nat, got : SUBSET Nat]]
    /\ pending \in Seq(Item)
    /\ scene \in Scene
    /\ want \in BOOLEAN /\ unknown \in BOOLEAN
    /\ boots \in Nat /\ resyncs \in Nat
=============================================================================
