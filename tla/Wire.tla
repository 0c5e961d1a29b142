-------------------------------- MODULE Wire --------------------------------
(***************************************************************************)
(* What the host and the replica share: the datablocks, the messages of    *)
(* the two ordered lanes (cold: blobs and whole files; fast: property      *)
(* deltas and tombstones) and the lanes themselves.                        *)
(*                                                                         *)
(* A datablock is the pair of what only a blob carries (h, the heavy       *)
(* part: mesh, node tree) and what a delta carries (l, the light part:     *)
(* tracked properties).  Both are version numbers that an edit raises;     *)
(* h = 0 means that the datablock does not exist.                          *)
(*                                                                         *)
(* A lane delivers in order.  It can lose a frame inside a session: the    *)
(* agent accepts the frame from the addon, finds its queue full, discards  *)
(* the frame and credits it back.  Refusal of a send (no credit) is not a  *)
(* loss: the host keeps the message, which here is the send not happening. *)
(***************************************************************************)
EXTENDS Naturals, Sequences, FiniteSets

CONSTANTS
    U,            \* the uuids of the datablocks
    U0,           \* those in the file when the session starts
    Landed,       \* does the model start after the handshake's file has applied?
    Boot,         \* the reassembly key of a whole file ("__mainfile__")
    Fallible,     \* may Blender raise while it applies a blob or a file?
    Prompt,       \* does the network let no cold frame overtake an older fast one?
    T2Chunks,     \* chunks of a datablock blob
    BootChunks,   \* chunks of a whole-file blob
    LogCap,       \* capacity of the host's fast log
    BatchMax,     \* completed blobs the replica holds before it stops cold
    MaxEdits,     \* bound: edits of the host's scene
    MaxForced,    \* bound: bootstraps the user or the auto-boot asks for
    MaxLinks,     \* bound: library messages on the cold lane
    MaxLostCold,  \* bound: cold frames the agent discards
    MaxLostFast   \* bound: fast frames the agent discards

ASSUME WireAssumption ==
    /\ IsFiniteSet(U) /\ U0 \subseteq U /\ Boot \notin U
    /\ Landed \in BOOLEAN /\ Prompt \in BOOLEAN /\ Fallible \in BOOLEAN
    /\ T2Chunks \in Nat \ {0} /\ BootChunks \in Nat \ {0}
    /\ LogCap \in Nat \ {0} /\ BatchMax \in Nat \ {0}
    /\ MaxEdits \in Nat /\ MaxForced \in Nat /\ MaxLinks \in Nat
    /\ MaxLostCold \in Nat /\ MaxLostFast \in Nat

VARIABLES
    cold,   \* the cold lane: frames the replica has not taken yet
    fast,   \* the fast lane
    lostC,  \* seqs of the cold frames the agent discarded
    lostF   \* seqs of the fast frames the agent discarded

wireVars == <<cold, fast, lostC, lostF>>

Block == [h : Nat, l : Nat]
Gone == [h |-> 0, l |-> 0]
Exists(b) == b.h > 0

\* A scene.  A blob's `val` is one too: of a file all of it counts, of a
\* datablock's blob only its own entry.
Scene == [U -> Block]
NoScene == [u \in U |-> Gone]
Only(u, s) == [NoScene EXCEPT ![u] = s[u]]

FastMsg == [kind : {"t1", "tomb", "resync_end"}, u : U \cup {Boot},
            l : Nat, seq : Nat \ {0}, after : Nat]
ColdMsg == [kind : {"t2", "boot", "link"}, u : U \cup {Boot}, id : Nat,
            i : Nat, n : Nat, val : Scene, seq : Nat \ {0}]
Chunk == [kind : {"t2", "boot"}, u : U \cup {Boot}, id : Nat,
          i : Nat, n : Nat, val : Scene]

\* protocol.chunk_blob: n chunks of one blob, each knowing its place.
ChunkBlob(kind, u, id, n, val) ==
    [i \in 1..n |-> [kind |-> kind, u |-> u, id |-> id, i |-> i, n |-> n, val |-> val]]

\* A cold frame that was given credit reaches the replica, or the agent's
\* queue is full and it is discarded.
SendCold(m) ==
    \/ cold' = Append(cold, m) /\ UNCHANGED lostC
    \/ /\ Cardinality(lostC) < MaxLostCold
       /\ lostC' = lostC \cup {m.seq}
       /\ UNCHANGED cold

SendFast(m) ==
    \/ fast' = Append(fast, m) /\ UNCHANGED lostF
    \/ /\ Cardinality(lostF) < MaxLostFast
       /\ lostF' = lostF \cup {m.seq}
       /\ UNCHANGED fast

WireTypeOK ==
    /\ cold \in Seq(ColdMsg)
    /\ fast \in Seq(FastMsg)
    /\ lostC \in SUBSET Nat
    /\ lostF \in SUBSET Nat
=============================================================================
