----------------------------- MODULE SyncSession ----------------------------
(***************************************************************************)
(* A sync session: the host's lanes, the replica's apply loop, the pong    *)
(* that carries the replica's gap state back, and the host's watch timer   *)
(* that answers it (ring0/session._watch, ring1/liveness.ResyncPolicy).    *)
(*                                                                         *)
(* The replica here acknowledges fast seqs (cap fast_ack) and takes no     *)
(* delta resync.  The policy's two rate limits only delay an answer, so    *)
(* Watch may take any time.                                                *)
(***************************************************************************)
EXTENDS HostLanes, ReplicaApply

VARIABLES
    pong,    \* the replica's stats as the host last heard them
    served   \* _served_for: the replica state that was last answered

policyVars == <<pong, served>>
vars == <<wireVars, hostVars, replicaVars, policyVars>>

NoState == <<>>   \* served_for = None

Status == [want : BOOLEAN, lane : {"", "cold", "fast", "both", "unknown"}, gapAt : Nat,
           state : Nat \X Nat]

\* What a pong reports of the replica.
StatusNow == [want |-> want, lane |-> ReportedLane(mg, unknown), gapAt |-> mg.fast.miss,
              state |-> <<boots, resyncs>>]

\* The handshake marks the replica's state of that moment as answered, if a
\* pong had told it.
Init ==
    /\ HostInit
    /\ cold = <<>> /\ fast = <<>> /\ lostC = {} /\ lostF = {}
    /\ ReplicaInit(host)
    /\ pong = StatusNow
    /\ served \in {NoState, <<0, 0>>}

-----------------------------------------------------------------------------
Pong ==
    /\ pong # StatusNow
    /\ pong' = StatusNow
    /\ UNCHANGED <<wireVars, hostVars, replicaVars, served>>

Due4Repair == pong.want /\ pong.state # served
FastRepair == pong.lane = "fast" /\ Covers(pong.gapAt)

\* ResyncPolicy.decide and what _watch does with its verdict.
Watch ==
    /\ Due4Repair
    /\ IF FastRepair THEN ResendFastWindow(pong.gapAt) ELSE SendBootstrap /\ UNCHANGED forced
    /\ served' = pong.state
    /\ UNCHANGED <<wireVars, replicaVars, pong>>

HostStep ==
    /\ UserEdit \/ FlushTick \/ SendLink \/ ForceBootstrap
    /\ UNCHANGED <<replicaVars, policyVars>>

ReplicaStep ==
    /\ ReplicaTick
    /\ UNCHANGED <<hostVars, policyVars>>

Next == HostStep \/ ReplicaStep \/ Pong \/ Watch

Spec == Init /\ [][Next]_vars

(***************************************************************************)
(* Every timer keeps firing: the flush timer drains each outbox and each   *)
(* queue once credit comes back, the replica's tick takes messages and     *)
(* applies batches, pongs keep coming and the watch timer reads them.      *)
(* Nothing is assumed of the user, or of what the agent discards.          *)
(***************************************************************************)
Timers ==
    /\ WF_vars(SendBootChunk /\ UNCHANGED <<replicaVars, policyVars>>)
    /\ WF_vars(DrainDirty /\ UNCHANGED <<replicaVars, policyVars>>)
    /\ \A u \in U :
         /\ WF_vars(SendT2Chunk(u) /\ UNCHANGED <<replicaVars, policyVars>>)
         /\ WF_vars(FlushT2(u) /\ UNCHANGED <<replicaVars, policyVars>>)
         /\ WF_vars(FlushT1(u) /\ UNCHANGED <<replicaVars, policyVars>>)
         /\ WF_vars(SendTombstone(u) /\ UNCHANGED <<replicaVars, policyVars>>)
    /\ WF_vars((\E e \in rq : Reassert(e)) /\ UNCHANGED <<replicaVars, policyVars>>)
    /\ WF_vars(ReassertEnd /\ UNCHANGED <<replicaVars, policyVars>>)
    /\ WF_vars(ReplicaStep)
    /\ WF_vars(Pong)
    /\ WF_vars(Watch)

FairSpec == Spec /\ Timers

-----------------------------------------------------------------------------
(* Properties                                                              *)

\* Every variable keeps its type.
TypeOK ==
    /\ WireTypeOK /\ HostTypeOK /\ ReplicaTypeOK
    /\ pong \in Status /\ served \in {NoState} \cup (Nat \X Nat)

\* A hole the replica knows of is a hole the pong asks to have repaired
\* (_process_cold, _apply_t1, _end_resync and _apply_one keep want_resync
\* and the gap bookkeeping together).
HoleFlagged == mg.cold.miss # 0 \/ mg.fast.miss # 0 \/ unknown => want

\* The replica never forgets a fast frame it lost: it lies at or behind
\* first_missing, which is where the host's re-assert starts, unless a
\* repair has closed it or the frame lies beyond the newest one seen.
HoleRecorded ==
    \A s \in lostF : s <= mg.fast.last => \/ mg.fast.miss # 0 /\ mg.fast.miss <= s
                                          \/ s <= mg.fastApplied

\* A fast message never waits for a blob that has already applied: every
\* cold_done releases all it must (LaneMerger.cold_done).
ParkedWaits == \A p \in mg.parked : p.after > mg.coldApplied

\* Nothing is queued, in flight or waiting, on either side.
Quiet ==
    /\ cold = <<>> /\ fast = <<>> /\ bootBox = <<>> /\ BoxesEmpty
    /\ dirty = {} /\ tombs = {} /\ rq = {} /\ ~rend
    /\ \A u \in U : Exists(host[u]) => host[u].l = shadow[u]
    /\ pending = <<>> /\ mg.parked = {}

\* The newest frames of a lane were lost: no later seq has shown it yet.
TailLost == (\E s \in lostC : s > mg.cold.last) \/ (\E s \in lostF : s > mg.fast.last)

\* The replica may be behind, never silently wrong: once everything has
\* landed and no repair is asked for, the replica's scene is the host's.
NeverSilentlyWrong == Quiet /\ ~want /\ ~TailLost => scene = host

\* Which datablocks there are, and the version of what only blobs carry.
SameStructure == \A u \in U : scene[u].h = host[u].h

\* The part of NeverSilentlyWrong that blobs, files and tombstones answer
\* for: whatever late deltas did to properties, no datablock is missing,
\* left over or of an old structure.
StructureRight == Quiet /\ ~want /\ ~TailLost => SameStructure

\* A datablock of the replica never goes back to an older state, whatever
\* order blobs, files, deltas and tombstones arrive in.
NoRegress ==
    \A u \in U : Exists(scene[u]) /\ Exists(scene'[u]) =>
                    scene[u].h <= scene'[u].h /\ scene[u].l <= scene'[u].l
NeverRegresses == [][NoRegress]_vars

\* A resync that the replica asks for ends: the flag comes down.
RepairEnds == want ~> ~want

\* When the user stops editing, the replica ends up showing the host's
\* scene and stays there (unless the last frames were lost, which nothing
\* reveals until the next one).
Converges == <>[](TailLost \/ scene = host)

\* The same, for the structure alone.
StructureConverges == <>[](TailLost \/ SameStructure)

-----------------------------------------------------------------------------
(* What the code says of itself and does not keep (README, section 3).     *)

\* "applied seq >= after" is exact (merge.py): a blob that waits for its
\* batch has a seq above cold_applied, so that nothing which must follow it
\* is let through.
AppliedExact == \A k \in 1..Len(pending) : pending[k].seq > mg.coldApplied
=============================================================================
