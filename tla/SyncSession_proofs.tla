------------------------- MODULE SyncSession_proofs -------------------------
(***************************************************************************)
(* Invariants of SyncSession for every value of its constants.             *)
(***************************************************************************)
EXTENDS SyncSession, Integers, TLAPS, WellFoundedInduction, FiniteSetTheorems

-----------------------------------------------------------------------------
(* The merger: what its operators return and preserve.                     *)

\* Every nonempty set of naturals has a least element.
LEMMA NatMin ==
    ASSUME NEW T \in SUBSET Nat, T # {}
    PROVE  \E x \in T : \A y \in T : x <= y
<1>1. \E x \in T : \A y \in T : ~ (<<y, x>> \in OpToRel(<, Nat))
    BY NatLessThanWellFounded, WFMin, Zenon
<1>2. PICK x \in T : \A y \in T : ~ (<<y, x>> \in OpToRel(<, Nat))
    BY <1>1
<1>3. \A y \in T : ~ (y < x)
    BY <1>2 DEF OpToRel
<1> QED
    BY <1>3

\* A nonempty bounded set of naturals has a greatest element.
LEMMA NatMax ==
    ASSUME NEW S \in SUBSET Nat, S # {}, NEW b \in Nat, \A s \in S : s <= b
    PROVE  \E x \in S : \A y \in S : y <= x
<1> DEFINE T == {t \in Nat : \A s \in S : s <= t}
<1>1. T \in SUBSET Nat /\ T # {}
    OBVIOUS
<1>2. PICK x \in T : \A y \in T : x <= y
    BY <1>1, NatMin
<1>3. x \in S
  <2> SUFFICES ASSUME x \notin S PROVE FALSE
      OBVIOUS
  <2>0. PICK s0 \in S : TRUE
      OBVIOUS
  <2>1. \A s \in S : s <= x - 1
      OBVIOUS
  <2>2. x - 1 \in Nat
      BY <2>0, <2>1
  <2>3. x - 1 \in T
      BY <2>1, <2>2
  <2> QED
      BY <2>3, <1>2
<1> QED
    BY <1>3, <1>2

\* LaneMerger.fast_done moves fast_applied forward only, over seqs that are
\* done, and keeps as done only seqs beyond it.
LEMMA FastDoneProps ==
    ASSUME NEW Msgs, NEW m \in Merger(Msgs), NEW seqs \in SUBSET Nat, NEW b \in Nat,
           \A s \in m.fastDone \cup seqs : s <= b,
           m.fastApplied <= b
    PROVE  LET n == FastDone(m, seqs)
           IN  /\ n \in Merger(Msgs)
               /\ n.cold = m.cold /\ n.fast = m.fast /\ n.parked = m.parked
               /\ n.coldApplied = m.coldApplied
               /\ n.fastApplied >= m.fastApplied /\ n.fastApplied <= b
               /\ n.fastDone \subseteq m.fastDone \cup seqs
               /\ \A r \in Nat : r > m.fastApplied /\ r <= n.fastApplied
                                    => r \in m.fastDone \cup seqs
<1> DEFINE at   == m.fastApplied
           done == DoneWith(m, seqs)
           runs == Runs(at, done)
           top  == EndOfRun(at, done)
<1>0. at \in Nat /\ m.fastDone \in SUBSET Nat
    BY DEF Merger
<1>1. done \in SUBSET Nat /\ done \subseteq m.fastDone \cup seqs
    BY <1>0 DEF DoneWith
<1>2. \A s \in done : s <= b
    BY <1>1
<1> HIDE DEF done, at
<1>3. runs \in SUBSET Nat /\ at \in runs
  <2>1. \A r \in 1..at : ~(r > at)
      BY <1>0
  <2>2. runs \subseteq done \cup {at}
      BY DEF Runs
  <2>3. at \in runs
      BY <2>1 DEF Runs
  <2> QED
      BY <1>0, <1>1, <2>2, <2>3
<1>4. \A s \in runs : s <= b
    BY <1>2 DEF Runs, at
<1>5. \E s \in runs : \A r \in runs : r <= s
    <2> HIDE DEF runs
    <2> QED BY <1>3, <1>4, NatMax, Zenon
<1>6. top \in runs /\ \A r \in runs : r <= top
    BY <1>5 DEF EndOfRun
<1> HIDE DEF top
<1>7. top \in Nat /\ top >= at /\ top <= b
    BY <1>0, <1>3, <1>4, <1>6
<1>8. \A r \in Nat : r > at /\ r <= top => r \in done
  <2> SUFFICES ASSUME NEW r \in Nat, r > at, r <= top PROVE r \in done
      OBVIOUS
  <2>1. r \in 1..top
      BY <1>0, <1>7
  <2> QED
      BY <2>1, <1>6 DEF Runs
<1>9. FastDone(m, seqs) = [m EXCEPT !.fastApplied = top, !.fastDone = {s \in done : s > top}]
    BY DEF FastDone, top, done, at
<1> QED
    BY <1>0, <1>1, <1>7, <1>8, <1>9 DEF Merger, at

(***************************************************************************)
(* What the lanes give the merger: nothing is done, parked or missing      *)
(* beyond the newest fast seq it has observed.                             *)
(***************************************************************************)
Seen(m) ==
    /\ m.fast.miss <= m.fast.last
    /\ m.fastApplied <= m.fast.last
    /\ \A s \in m.fastDone : s <= m.fast.last
    /\ \A p \in m.parked : p.seq <= m.fast.last

\* Each lost seq that is not beyond the newest seen lies behind the recorded
\* hole or has been answered.
Recorded(m, lost) ==
    \A s \in lost : s <= m.fast.last => \/ m.fast.miss # 0 /\ m.fast.miss <= s
                                        \/ s <= m.fastApplied

\* The fields of a merger (LaneMerger.__init__) have their types.
LEMMA MergerFields ==
    ASSUME NEW Msgs, NEW m \in Merger(Msgs)
    PROVE  /\ m.fast \in Tracker /\ m.cold \in Tracker
           /\ m.fast.last \in Nat /\ m.fast.miss \in Nat
           /\ m.cold.last \in Nat /\ m.cold.miss \in Nat
           /\ m.coldApplied \in Nat /\ m.fastApplied \in Nat
           /\ m.fastDone \in SUBSET Nat /\ m.parked \in SUBSET Msgs
BY DEF Merger, Tracker

\* Observing a frame leaves a tracker (SeqTracker.observe).
LEMMA ObserveType ==
    ASSUME NEW t \in Tracker, NEW seq \in Nat
    PROVE  Observe(t, seq) \in Tracker
BY DEF Observe, Tracker

\* A fast frame in lane order: the first hole of the lane stays recorded.
LEMMA ObserveFast ==
    ASSUME NEW Msgs, \A p \in Msgs : p.seq \in Nat,
           NEW m \in Merger(Msgs), Seen(m), NEW seq \in Nat, seq > m.fast.last
    PROVE  LET n == [m EXCEPT !.fast = Observe(@, seq)]
           IN  /\ n \in Merger(Msgs) /\ Seen(n)
               /\ n.fast.last = seq
               /\ n.fast.miss # 0 => m.fast.miss # 0 \/ ~Contiguous(m.fast, seq)
               /\ n.cold = m.cold /\ n.coldApplied = m.coldApplied /\ n.parked = m.parked
               /\ n.fastApplied = m.fastApplied
               /\ \A lost \in SUBSET Nat : seq \notin lost /\ Recorded(m, lost) => Recorded(n, lost)
<1> DEFINE t == Observe(m.fast, seq)
           n == [m EXCEPT !.fast = t]
<1>1. /\ m.fast.last \in Nat /\ m.fast.miss \in Nat /\ m.fastApplied \in Nat
      /\ m.fastDone \in SUBSET Nat /\ m.fast \in Tracker /\ m.parked \in SUBSET Msgs
    BY MergerFields
<1>2. t \in Tracker
    BY <1>1, ObserveType
<1>3. /\ t.last = seq
      /\ t.miss = IF m.fast.miss = 0 /\ seq > m.fast.last + 1 THEN m.fast.last + 1 ELSE m.fast.miss
    BY <1>1 DEF Observe
<1> HIDE DEF t
<1>4. /\ n \in Merger(Msgs) /\ n.fast = t
      /\ n.cold = m.cold /\ n.coldApplied = m.coldApplied /\ n.parked = m.parked
      /\ n.fastApplied = m.fastApplied /\ n.fastDone = m.fastDone
    BY <1>2 DEF Merger
<1> HIDE DEF n
<1>5. Seen(n)
  <2>1. n.fast.miss <= n.fast.last /\ n.fastApplied <= n.fast.last
      BY <1>1, <1>3, <1>4 DEF Seen
  <2>2. \A s \in n.fastDone : s <= n.fast.last
      BY <1>1, <1>3, <1>4 DEF Seen
  <2>3. \A p \in n.parked : p.seq \in Nat /\ p.seq <= m.fast.last
      BY <1>1, <1>4, Zenon DEF Seen
  <2>4. \A p \in n.parked : p.seq <= n.fast.last
      BY <2>3, <1>1, <1>3, <1>4
  <2> QED
      BY <2>1, <2>2, <2>4 DEF Seen
<1>6. n.fast.miss # 0 => m.fast.miss # 0 \/ ~Contiguous(m.fast, seq)
    BY <1>1, <1>3, <1>4 DEF Contiguous
<1>7. ASSUME NEW lost \in SUBSET Nat, seq \notin lost, Recorded(m, lost)
      PROVE  Recorded(n, lost)
  <2>1. m.fast.miss <= m.fast.last
      BY DEF Seen
  <2> SUFFICES ASSUME NEW s \in lost, s <= seq
               PROVE  (t.miss # 0 /\ t.miss <= s) \/ s <= m.fastApplied
      BY <1>3, <1>4 DEF Recorded
  <2>2. CASE s <= m.fast.last
      BY <1>1, <1>3, <1>7, <2>2 DEF Recorded
  <2>3. CASE s > m.fast.last
      BY <1>1, <1>3, <1>7, <2>1, <2>3
  <2>4. s \in Nat /\ m.fast.last \in Nat
      BY <1>1, Zenon
  <2>5. s <= m.fast.last \/ s > m.fast.last
      BY <2>4
  <2> QED
      BY <2>2, <2>3, <2>5, Zenon
<1> QED
    BY <1>3, <1>4, <1>5, <1>6, <1>7 DEF n, t

\* A cold frame is observed: a hole is noted only where the frame was not the
\* next one, and the fast side is left alone.
LEMMA ObserveCold ==
    ASSUME NEW Msgs, NEW m \in Merger(Msgs), Seen(m), NEW seq \in Nat
    PROVE  LET n == [m EXCEPT !.cold = Observe(@, seq)]
           IN  /\ n \in Merger(Msgs) /\ Seen(n)
               /\ n.cold.miss # 0 => m.cold.miss # 0 \/ ~Contiguous(m.cold, seq)
               /\ n.fast = m.fast /\ n.coldApplied = m.coldApplied /\ n.parked = m.parked
               /\ n.fastApplied = m.fastApplied /\ n.fastDone = m.fastDone
<1> DEFINE t == Observe(m.cold, seq)
           n == [m EXCEPT !.cold = t]
<1>1. m.cold.last \in Nat /\ m.cold.miss \in Nat /\ m.cold \in Tracker
    BY MergerFields
<1>2. t \in Tracker
    BY <1>1, ObserveType
<1>3. t.miss # 0 => m.cold.miss # 0 \/ ~Contiguous(m.cold, seq)
    BY <1>1 DEF Observe, Contiguous
<1> HIDE DEF t
<1>4. /\ n \in Merger(Msgs) /\ n.cold = t
      /\ n.fast = m.fast /\ n.coldApplied = m.coldApplied /\ n.parked = m.parked
      /\ n.fastApplied = m.fastApplied /\ n.fastDone = m.fastDone
    BY <1>2 DEF Merger
<1> HIDE DEF n
<1>5. Seen(n)
    BY <1>4, Zenon DEF Seen
<1> QED
    BY <1>3, <1>4, <1>5 DEF n, t

\* Parking a seen message adds it to the parked ones and changes nothing else.
LEMMA ParkProps ==
    ASSUME NEW Msgs, NEW m \in Merger(Msgs), Seen(m), NEW p \in Msgs, p.seq <= m.fast.last
    PROVE  LET n == Park(m, p)
           IN  /\ n \in Merger(Msgs) /\ Seen(n)
               /\ n.fast = m.fast /\ n.cold = m.cold /\ n.coldApplied = m.coldApplied
               /\ n.fastApplied = m.fastApplied /\ n.parked = m.parked \cup {p}
<1> DEFINE n == Park(m, p)
<1>1. /\ n \in Merger(Msgs)
      /\ n.fast = m.fast /\ n.cold = m.cold /\ n.coldApplied = m.coldApplied
      /\ n.fastApplied = m.fastApplied /\ n.parked = m.parked \cup {p}
      /\ n.fastDone = m.fastDone
    BY DEF Park, Merger
<1> HIDE DEF n
<1>2. Seen(n)
    BY <1>1, Zenon DEF Seen
<1> QED
    BY <1>1, <1>2 DEF n

\* LaneMerger.cold_done: cold_applied only rises, and nothing stays parked
\* that is due.
LEMMA ColdDoneProps ==
    ASSUME NEW Msgs, \A p \in Msgs : p.after \in Nat,
           NEW m \in Merger(Msgs), Seen(m), NEW seq \in Nat
    PROVE  LET n == ColdDone(m, seq)
           IN  /\ n \in Merger(Msgs) /\ Seen(n)
               /\ n.fast = m.fast /\ n.cold = m.cold /\ n.fastApplied = m.fastApplied
               /\ n.fastDone = m.fastDone
               /\ n.coldApplied = AppliedUpTo(m, seq)
               /\ n.parked \subseteq m.parked /\ Due(m, seq) \subseteq m.parked
               /\ \A p \in n.parked : p.after > n.coldApplied
<1> DEFINE n == ColdDone(m, seq)
<1>1. m.coldApplied \in Nat /\ m.parked \in SUBSET Msgs
    BY MergerFields
<1>2. AppliedUpTo(m, seq) \in Nat
    BY <1>1 DEF AppliedUpTo
<1>3. Due(m, seq) \subseteq m.parked
    BY DEF Due
<1>4. /\ n \in Merger(Msgs)
      /\ n.fast = m.fast /\ n.cold = m.cold /\ n.coldApplied = AppliedUpTo(m, seq)
      /\ n.fastApplied = m.fastApplied /\ n.parked = m.parked \ Due(m, seq)
      /\ n.fastDone = m.fastDone
    BY <1>2 DEF ColdDone, Merger
<1> HIDE DEF n
<1>5. \A p \in n.parked : p.after > n.coldApplied
    BY <1>1, <1>2, <1>4 DEF Due
<1>6. Seen(n)
    BY <1>4, Zenon DEF Seen
<1> QED
    BY <1>3, <1>4, <1>5, <1>6 DEF n

\* LaneMerger.clear_fast_gap: the hole closes and applied catches up with
\* seen.
LEMMA ClearFastGapProps ==
    ASSUME NEW Msgs, NEW m \in Merger(Msgs), Seen(m)
    PROVE  LET n == ClearFastGap(m)
           IN  /\ n \in Merger(Msgs) /\ Seen(n)
               /\ n.fast.last = m.fast.last /\ n.fast.miss = 0
               /\ n.cold = m.cold /\ n.coldApplied = m.coldApplied /\ n.parked = m.parked
               /\ n.fastApplied = m.fast.last
               /\ \A lost \in SUBSET Nat : Recorded(n, lost)
<1> DEFINE n == ClearFastGap(m)
<1>1. /\ m.fast.last \in Nat /\ m.fastApplied \in Nat /\ m.fastDone \in SUBSET Nat
      /\ m.fast \in Tracker
    BY MergerFields
<1>2. m.fastApplied <= m.fast.last /\ \A s \in m.fastDone : s <= m.fast.last
    BY DEF Seen
<1> DEFINE top == IF m.fast.last > m.fastApplied THEN m.fast.last ELSE m.fastApplied
<1>3. top = m.fast.last
    BY <1>1, <1>2
<1>4. /\ ClearGap(m.fast) \in Tracker /\ ClearGap(m.fast).miss = 0
      /\ ClearGap(m.fast).last = m.fast.last
    BY <1>1 DEF ClearGap, Tracker
<1>5. n = [m EXCEPT !.fast = ClearGap(m.fast), !.fastApplied = top,
                    !.fastDone = {s \in m.fastDone : s > top}]
    BY Zenon DEF ClearFastGap
<1> HIDE DEF n, top
<1>6. /\ n \in Merger(Msgs) /\ n.fast = ClearGap(m.fast) /\ n.fastApplied = m.fast.last
      /\ n.cold = m.cold /\ n.coldApplied = m.coldApplied /\ n.parked = m.parked
      /\ n.fastDone \subseteq m.fastDone
    BY <1>1, <1>3, <1>4, <1>5 DEF Merger
<1>7. Seen(n)
  <2>1. n.fast.miss <= n.fast.last /\ n.fastApplied <= n.fast.last
      BY <1>1, <1>4, <1>6
  <2>2. \A s \in n.fastDone : s <= n.fast.last
      BY <1>2, <1>4, <1>6
  <2>3. \A p \in n.parked : p.seq <= n.fast.last
      BY <1>4, <1>6, Zenon DEF Seen
  <2> QED
      BY <2>1, <2>2, <2>3, Zenon DEF Seen
<1>8. \A lost \in SUBSET Nat : Recorded(n, lost)
    BY <1>1, <1>4, <1>6 DEF Recorded
<1> QED
    BY <1>4, <1>6, <1>7, <1>8 DEF n

\* clear_cold_gap closes the cold hole and leaves the fast lane alone.
LEMMA ClearColdGapProps ==
    ASSUME NEW Msgs, NEW m \in Merger(Msgs), Seen(m)
    PROVE  LET n == ClearColdGap(m)
           IN  /\ n \in Merger(Msgs) /\ Seen(n)
               /\ n.fast = m.fast /\ n.cold.miss = 0 /\ n.cold.last = m.cold.last
               /\ n.coldApplied = m.coldApplied /\ n.parked = m.parked
               /\ n.fastApplied = m.fastApplied /\ n.fastDone = m.fastDone
<1> DEFINE n == ClearColdGap(m)
<1>1. m.cold \in Tracker
    BY MergerFields
<1>2. /\ ClearGap(m.cold) \in Tracker /\ ClearGap(m.cold).miss = 0
      /\ ClearGap(m.cold).last = m.cold.last
    BY <1>1 DEF ClearGap, Tracker
<1>3. /\ n \in Merger(Msgs) /\ n.fast = m.fast /\ n.cold = ClearGap(m.cold)
      /\ n.coldApplied = m.coldApplied /\ n.parked = m.parked
      /\ n.fastApplied = m.fastApplied /\ n.fastDone = m.fastDone
    BY <1>2 DEF ClearColdGap, Merger
<1> HIDE DEF n
<1>4. Seen(n)
    BY <1>3, Zenon DEF Seen
<1> QED
    BY <1>2, <1>3, <1>4 DEF n

\* fast_done for seqs the lane has shown.
LEMMA FastDoneSeen ==
    ASSUME NEW Msgs, NEW m \in Merger(Msgs), Seen(m), NEW seqs \in SUBSET Nat,
           \A s \in seqs : s <= m.fast.last
    PROVE  LET n == FastDone(m, seqs)
           IN  /\ n \in Merger(Msgs) /\ Seen(n)
               /\ n.fast = m.fast /\ n.cold = m.cold /\ n.coldApplied = m.coldApplied
               /\ n.parked = m.parked /\ n.fastApplied >= m.fastApplied
               /\ \A lost \in SUBSET Nat : Recorded(m, lost) => Recorded(n, lost)
<1> DEFINE n == FastDone(m, seqs)
<1>1. m.fast.last \in Nat /\ m.fastApplied \in Nat /\ m.fastDone \in SUBSET Nat
    BY MergerFields
<1>2. m.fastApplied <= m.fast.last /\ \A s \in m.fastDone \cup seqs : s <= m.fast.last
    BY DEF Seen
<1>3. /\ n \in Merger(Msgs)
      /\ n.cold = m.cold /\ n.fast = m.fast /\ n.parked = m.parked
      /\ n.coldApplied = m.coldApplied
      /\ n.fastApplied >= m.fastApplied /\ n.fastApplied <= m.fast.last
      /\ n.fastDone \subseteq m.fastDone \cup seqs
    BY <1>1, <1>2, FastDoneProps
<1> HIDE DEF n
<1>4. n.fastApplied \in Nat
    BY <1>3, MergerFields
<1>5. Seen(n)
    BY <1>2, <1>3, Zenon DEF Seen
<1>6. ASSUME NEW lost \in SUBSET Nat, Recorded(m, lost)
      PROVE  Recorded(n, lost)
    BY <1>1, <1>3, <1>4, <1>6 DEF Recorded
<1> QED
    BY <1>3, <1>5, <1>6 DEF n

-----------------------------------------------------------------------------
(* Operators                                                               *)

\* The newest of some messages with bounded seqs is one of them.
LEMMA NewestIn ==
    ASSUME NEW msgs \in SUBSET FastMsg, msgs # {}, NEW b \in Nat,
           \A m \in msgs : m.seq <= b
    PROVE  Newest(msgs) \in msgs
<1> DEFINE S == Seqs(msgs)
<1>1. S \in SUBSET Nat /\ S # {} /\ \A s \in S : s <= b
    BY DEF Seqs, FastMsg
<1>2. PICK x \in S : \A y \in S : y <= x
    BY <1>1, NatMax
<1>3. PICK m \in msgs : m.seq = x
    BY DEF Seqs
<1>4. \A o \in msgs : o.seq <= m.seq
    BY <1>2, <1>3 DEF Seqs
<1> QED
    BY <1>4 DEF Newest

\* Fast messages leave a scene a scene.
LEMMA AppliedToScene ==
    ASSUME NEW s \in Scene, NEW msgs \in SUBSET FastMsg, NEW b \in Nat,
           \A m \in msgs : m.seq <= b
    PROVE  AppliedTo(s, msgs) \in Scene
<1> SUFFICES ASSUME NEW u \in U PROVE AppliedTo(s, msgs)[u] \in Block
    BY DEF AppliedTo, Scene
<1>1. s[u] \in Block /\ Gone \in Block
    BY DEF Scene, Block, Gone
<1>2. OfKind(msgs, "t1", u) \in SUBSET FastMsg
      /\ \A m \in OfKind(msgs, "t1", u) : m.seq <= b
    BY DEF OfKind
<1>3. OfKind(msgs, "t1", u) # {} => Newest(OfKind(msgs, "t1", u)).l \in Nat
  <2> HAVE OfKind(msgs, "t1", u) # {}
  <2>1. Newest(OfKind(msgs, "t1", u)) \in OfKind(msgs, "t1", u)
      BY <1>2, NewestIn
  <2> QED
      BY <1>2, <2>1 DEF FastMsg
<1> DEFINE n == Newest(OfKind(msgs, "t1", u)).l
<1>4. OfKind(msgs, "t1", u) # {} => [s[u] EXCEPT !.l = n] \in Block
    BY <1>1, <1>3 DEF Block
<1>5. \/ AppliedTo(s, msgs)[u] = s[u]
      \/ AppliedTo(s, msgs)[u] = Gone
      \/ OfKind(msgs, "t1", u) # {} /\ AppliedTo(s, msgs)[u] = [s[u] EXCEPT !.l = n]
    BY Zenon DEF AppliedTo
<1> QED
    BY <1>1, <1>4, <1>5

\* Whether a delta meets an unknown datablock is a truth value.
LEMMA MeetsUnknownBool ==
    \A s, msgs : MeetsUnknown(s, msgs) \in BOOLEAN
BY DEF MeetsUnknown

\* chunk_blob makes a sequence of chunks.
LEMMA ChunkBlobSeq ==
    ASSUME NEW kind \in {"t2", "boot"}, NEW u \in U \cup {Boot}, NEW id \in Nat,
           NEW n \in Nat, NEW val \in Scene
    PROVE  ChunkBlob(kind, u, id, n, val) \in Seq(Chunk)
<1>1. \A i \in 1..n : [kind |-> kind, u |-> u, id |-> id, i |-> i, n |-> n, val |-> val] \in Chunk
    BY DEF Chunk
<1> HIDE DEF Chunk
<1> QED
    BY <1>1 DEF ChunkBlob

\* A send on the cold lane, lost or not, leaves it a sequence of cold frames.
LEMMA SendColdType ==
    ASSUME WireTypeOK, NEW m \in ColdMsg, SendCold(m)
    PROVE  cold' \in Seq(ColdMsg) /\ lostC' \in SUBSET Nat
<1>1. m.seq \in Nat
    BY DEF ColdMsg
<1>2. \/ cold' = Append(cold, m) /\ lostC' = lostC
      \/ cold' = cold /\ lostC' = lostC \cup {m.seq}
    BY Zenon DEF SendCold
<1>3. Append(cold, m) \in Seq(ColdMsg)
    BY DEF WireTypeOK
<1> QED
    BY <1>1, <1>2, <1>3, Zenon DEF WireTypeOK

\* A send on the fast lane, lost or not, leaves it a sequence of fast frames.
LEMMA SendFastType ==
    ASSUME WireTypeOK, NEW m \in FastMsg, SendFast(m)
    PROVE  fast' \in Seq(FastMsg) /\ lostF' \in SUBSET Nat
<1>1. m.seq \in Nat
    BY DEF FastMsg
<1>2. \/ fast' = Append(fast, m) /\ lostF' = lostF
      \/ fast' = fast /\ lostF' = lostF \cup {m.seq}
    BY Zenon DEF SendFast
<1>3. Append(fast, m) \in Seq(FastMsg)
    BY DEF WireTypeOK
<1> QED
    BY <1>1, <1>2, <1>3, Zenon DEF WireTypeOK

\* A chunk with the next seq is a cold frame.
LEMMA StampedType ==
    ASSUME HostTypeOK, NEW c \in Chunk
    PROVE  Stamped(c) \in ColdMsg
BY DEF HostTypeOK, Stamped, Chunk, ColdMsg

\* A delta or a tombstone that leaves keeps the lanes and the fast log typed.
LEMMA LaneOutTypes ==
    ASSUME WireTypeOK, HostTypeOK, NEW kind \in {"t1", "tomb"}, NEW u \in U, NEW l \in Nat,
           LaneOut(kind, u, l)
    PROVE  WireTypeOK' /\ log' \in SUBSET LogEntry /\ seqF' \in Nat
<1> DEFINE m == [kind |-> kind, u |-> u, l |-> l, seq |-> seqF + 1, after |-> AfterFor(u)]
<1>1. AfterFor(u) \in Nat
    BY DEF HostTypeOK, AfterFor, MaxOf
<1>2. m \in FastMsg
    BY <1>1 DEF HostTypeOK, FastMsg
<1>3. SendFast(m)
    BY DEF LaneOut
<1>4. fast' \in Seq(FastMsg) /\ lostF' \in SUBSET Nat
    BY <1>2, <1>3, SendFastType
<1>5. [seq |-> seqF + 1, u |-> u, kind |-> kind] \in LogEntry
    BY DEF HostTypeOK, LogEntry
<1>6. log' \in SUBSET LogEntry
    BY <1>5 DEF LaneOut, Record, HostTypeOK
<1> QED
    BY <1>4, <1>6 DEF LaneOut, WireTypeOK, HostTypeOK

-----------------------------------------------------------------------------
(* The host's actions keep the types.                                      *)

\* Every step of the host keeps the types of its state and of the lanes.
LEMMA HostTypes ==
    ASSUME WireTypeOK, HostTypeOK,
           UserEdit \/ FlushTick \/ SendLink \/ ForceBootstrap
    PROVE  WireTypeOK' /\ HostTypeOK'
<1> USE WireAssumption
<1>1. ASSUME NEW u \in U, EditLight(u) PROVE WireTypeOK' /\ HostTypeOK'
  <2>1. host[u] \in Block
      BY DEF HostTypeOK, Scene
  <2>2. [h |-> host[u].h, l |-> host[u].l + 1] \in Block
      BY <2>1 DEF Block
  <2>3. host' \in Scene
      BY <1>1, <2>2 DEF EditLight, HostTypeOK, Scene
  <2>4. /\ edits' = edits + 1
        /\ UNCHANGED <<wireVars, shadow, dirty, tombs, known, born, seqC, seqF, coldOf,
                       bootSeq, linkSeq, bootBox, t2Box, log, rq, rend, forced, links>>
      BY <1>1, Zenon DEF EditLight
  <2> QED
      BY <2>3, <2>4 DEF WireTypeOK, HostTypeOK, wireVars
<1>2. ASSUME NEW u \in U, EditHeavy(u) PROVE WireTypeOK' /\ HostTypeOK'
  <2>1. host[u] \in Block
      BY DEF HostTypeOK, Scene
  <2>2. [h |-> host[u].h + 1, l |-> host[u].l] \in Block
      BY <2>1 DEF Block
  <2>3. host' \in Scene
      BY <1>2, <2>2 DEF EditHeavy, HostTypeOK, Scene
  <2>4. /\ edits' = edits + 1 /\ dirty' = dirty \cup {u} /\ born' = born \cup {u}
        /\ UNCHANGED <<wireVars, shadow, tombs, known, seqC, seqF, coldOf, bootSeq,
                       linkSeq, bootBox, t2Box, log, rq, rend, forced, links>>
      BY <1>2, Zenon DEF EditHeavy
  <2> QED
      BY <2>3, <2>4 DEF WireTypeOK, HostTypeOK, wireVars
<1>3. ASSUME NEW u \in U, DeleteBlock(u) PROVE WireTypeOK' /\ HostTypeOK'
    BY <1>3 DEF DeleteBlock, WireTypeOK, HostTypeOK, wireVars, Scene, Block, Gone
<1>4. CASE SendBootChunk
  <2>1. Head(bootBox) \in Chunk /\ Tail(bootBox) \in Seq(Chunk)
      BY <1>4 DEF SendBootChunk, HostTypeOK
  <2>2. cold' \in Seq(ColdMsg) /\ lostC' \in SUBSET Nat
      BY <1>4, <2>1, StampedType, SendColdType DEF SendBootChunk
  <2> QED
      BY <1>4, <2>1, <2>2, SMTT(30) DEF SendBootChunk, WireTypeOK, HostTypeOK
<1>5. CASE DrainDirty
    BY <1>5 DEF DrainDirty, WireTypeOK, HostTypeOK, wireVars
<1>6. ASSUME NEW u \in U, SendT2Chunk(u) PROVE WireTypeOK' /\ HostTypeOK'
  <2>1. Head(t2Box[u]) \in Chunk /\ Tail(t2Box[u]) \in Seq(Chunk)
      BY <1>6 DEF SendT2Chunk, HostTypeOK
  <2>2. cold' \in Seq(ColdMsg) /\ lostC' \in SUBSET Nat
      BY <1>6, <2>1, StampedType, SendColdType DEF SendT2Chunk
  <2> QED
      BY <1>6, <2>1, <2>2, SMTT(30) DEF SendT2Chunk, WireTypeOK, HostTypeOK
<1>7. ASSUME NEW u \in U, FlushT2(u) PROVE WireTypeOK' /\ HostTypeOK'
  <2>1. Only(u, host) \in Scene
      BY DEF HostTypeOK, Only, NoScene, Scene, Gone, Block
  <2>2. ChunkBlob("t2", u, seqC + 1, T2Chunks, Only(u, host)) \in Seq(Chunk)
      BY <2>1, ChunkBlobSeq DEF HostTypeOK
  <2> QED
      BY <1>7, <2>2 DEF FlushT2, WireTypeOK, HostTypeOK, wireVars, Scene, Block
<1>8. ASSUME NEW u \in U, FlushT1(u) PROVE WireTypeOK' /\ HostTypeOK'
  <2>1. host[u].l \in Nat
      BY DEF HostTypeOK, Scene, Block
  <2>2. WireTypeOK' /\ log' \in SUBSET LogEntry /\ seqF' \in Nat
      BY <1>8, <2>1, LaneOutTypes DEF FlushT1
  <2> QED
      BY <1>8, <2>1, <2>2 DEF FlushT1, HostTypeOK
<1>13. ASSUME NEW u \in U, SendTombstone(u) PROVE WireTypeOK' /\ HostTypeOK'
  <2>2. WireTypeOK' /\ log' \in SUBSET LogEntry /\ seqF' \in Nat
      BY <1>13, LaneOutTypes DEF SendTombstone
  <2> QED
      BY <1>13, <2>2 DEF SendTombstone, HostTypeOK
<1>9. CASE SendLink
  <2> DEFINE m == [kind |-> "link", u |-> Boot, id |-> 0, i |-> 0, n |-> 0,
                   val |-> NoScene, seq |-> seqC + 1]
  <2>1. NoScene \in Scene
      BY DEF NoScene, Scene, Gone, Block
  <2>2. m \in ColdMsg
      BY <2>1 DEF ColdMsg, HostTypeOK
  <2>3. cold' \in Seq(ColdMsg) /\ lostC' \in SUBSET Nat
      BY <1>9, <2>2, SendColdType DEF SendLink
  <2> QED
      BY <1>9, <2>3 DEF SendLink, WireTypeOK, HostTypeOK
<1>10. ASSUME NEW e \in rq, Reassert(e) PROVE WireTypeOK' /\ HostTypeOK'
  <2>1. e.u \in U /\ shadow[e.u] \in Nat
      BY DEF HostTypeOK
  <2>2. LaneOut("tomb", e.u, 0) \/ LaneOut("t1", e.u, shadow[e.u])
      BY <1>10 DEF Reassert
  <2>3. WireTypeOK' /\ log' \in SUBSET LogEntry /\ seqF' \in Nat
      BY <2>1, <2>2, LaneOutTypes
  <2> QED
      BY <1>10, <2>3 DEF Reassert, HostTypeOK
<1>11. CASE ReassertEnd
  <2> DEFINE m == [kind |-> "resync_end", u |-> Boot, l |-> 0, seq |-> seqF + 1, after |-> 0]
  <2>1. m \in FastMsg
      BY DEF FastMsg, HostTypeOK
  <2>2. fast' \in Seq(FastMsg) /\ lostF' \in SUBSET Nat
      BY <1>11, <2>1, SendFastType DEF ReassertEnd
  <2>3. rend' \in BOOLEAN
      BY <1>11, Zenon DEF ReassertEnd
  <2>4. /\ seqF' = seqF + 1
        /\ UNCHANGED <<cold, lostC, host, shadow, dirty, tombs, known, born, seqC, coldOf,
                       bootSeq, linkSeq, bootBox, t2Box, log, rq, edits, forced, links>>
      BY <1>11, Zenon DEF ReassertEnd
  <2> QED
      BY <2>2, <2>3, <2>4 DEF WireTypeOK, HostTypeOK
<1>12. CASE ForceBootstrap
  <2>1. FileChunks(seqC + 1) \in Seq(Chunk)
      BY ChunkBlobSeq DEF FileChunks, HostTypeOK
  <2> QED
      BY <1>12, <2>1 DEF ForceBootstrap, SendBootstrap, WireTypeOK, HostTypeOK, wireVars
<1> QED
    BY <1>1, <1>2, <1>3, <1>4, <1>5, <1>6, <1>7, <1>8, <1>9, <1>10, <1>11, <1>12, <1>13
    DEF UserEdit, FlushTick

-----------------------------------------------------------------------------
(* The strengthening: the fast lane's order and what the merger may hold.  *)

FastLane ==
    /\ mg.fast.last <= seqF
    /\ \A s \in lostF : s <= seqF
    /\ \A i \in 1..Len(fast) : /\ mg.fast.last < fast[i].seq /\ fast[i].seq <= seqF
                               /\ fast[i].seq \notin lostF
    /\ \A i, j \in 1..Len(fast) : i < j => fast[i].seq < fast[j].seq

IInv ==
    /\ TypeOK
    /\ Seen(mg)
    /\ FastLane
    /\ HoleFlagged
    /\ ParkedWaits
    /\ Recorded(mg, lostF)

\* What a step of the replica must show of the merger it leaves.
MergerOK(m) ==
    /\ m \in Merger(FastMsg)
    /\ Seen(m)
    /\ Recorded(m, lostF)
    /\ \A p \in m.parked : p.after > m.coldApplied

\* The fields of a fast frame are numbers.
LEMMA FastMsgFields ==
    \A p \in FastMsg : p.seq \in Nat /\ p.after \in Nat /\ p.l \in Nat
BY DEF FastMsg

\* _release: the merger stays right and the scene stays a scene.
LEMMA ReleaseProps ==
    ASSUME NEW m, MergerOK(m), lostF \in SUBSET Nat,
           NEW msgs \in SUBSET FastMsg, \A p \in msgs : p.seq <= m.fast.last,
           NEW s \in Scene, Release(m, msgs, s)
    PROVE  /\ MergerOK(mg') /\ scene' \in Scene
           /\ mg'.fast = m.fast /\ mg'.cold = m.cold
<1>1. m \in Merger(FastMsg) /\ Seen(m) /\ Recorded(m, lostF)
    BY DEF MergerOK
<1>2. m.fast.last \in Nat
    BY <1>1, MergerFields
<1>3. Seqs(msgs) \in SUBSET Nat /\ \A q \in Seqs(msgs) : q <= m.fast.last
    BY FastMsgFields DEF Seqs
<1>4. mg' = FastDone(m, Seqs(msgs)) /\ scene' = AppliedTo(s, msgs)
    BY DEF Release
<1>5. scene' \in Scene
    BY <1>2, <1>4, AppliedToScene
<1>6. /\ mg' \in Merger(FastMsg) /\ Seen(mg')
      /\ mg'.fast = m.fast /\ mg'.cold = m.cold /\ mg'.coldApplied = m.coldApplied
      /\ mg'.parked = m.parked
      /\ \A lost \in SUBSET Nat : Recorded(m, lost) => Recorded(mg', lost)
    BY <1>1, <1>3, <1>4, FastDoneSeen
<1>7. Recorded(mg', lostF)
    BY <1>1, <1>6
<1>8. \A p \in mg'.parked : p.after > mg'.coldApplied
    BY <1>6, Zenon DEF MergerOK
<1> QED
    BY <1>5, <1>6, <1>7, <1>8 DEF MergerOK

\* cold_done before a release.
LEMMA ColdDoneOK ==
    ASSUME NEW m, m \in Merger(FastMsg), Seen(m), Recorded(m, lostF), NEW seq \in Nat
    PROVE  /\ MergerOK(ColdDone(m, seq))
           /\ ColdDone(m, seq).fast = m.fast /\ ColdDone(m, seq).cold = m.cold
           /\ Due(m, seq) \in SUBSET FastMsg
           /\ \A p \in Due(m, seq) : p.seq <= m.fast.last
<1> DEFINE n == ColdDone(m, seq)
<1>1. /\ n \in Merger(FastMsg) /\ Seen(n)
      /\ n.fast = m.fast /\ n.cold = m.cold /\ n.fastApplied = m.fastApplied
      /\ Due(m, seq) \subseteq m.parked
      /\ \A p \in n.parked : p.after > n.coldApplied
    BY FastMsgFields, ColdDoneProps
<1> HIDE DEF n
<1>2. Recorded(n, lostF)
    BY <1>1, Zenon DEF Recorded
<1>3. m.parked \in SUBSET FastMsg
    BY MergerFields
<1>4. \A p \in m.parked : p.seq <= m.fast.last
    BY DEF Seen
<1> QED
    BY <1>1, <1>2, <1>3, <1>4, Zenon DEF MergerOK, n

\* What the type part of the invariant gives to the steps of the replica.
LEMMA TypeParts ==
    ASSUME IInv
    PROVE  /\ mg \in Merger(FastMsg) /\ Seen(mg) /\ Recorded(mg, lostF)
           /\ mg.fast.last \in Nat /\ mg.coldApplied \in Nat
           /\ fast \in Seq(FastMsg) /\ cold \in Seq(ColdMsg)
           /\ lostF \in SUBSET Nat /\ lostC \in SUBSET Nat /\ seqF \in Nat
           /\ scene \in Scene /\ pending \in Seq(Item)
           /\ part \in [U \cup {Boot} -> [id : Nat, got : SUBSET Nat]]
           /\ want \in BOOLEAN /\ unknown \in BOOLEAN /\ boots \in Nat /\ resyncs \in Nat
           /\ \A p \in mg.parked : p.after > mg.coldApplied
<1>1. mg \in Merger(FastMsg)
    BY DEF IInv, TypeOK, ReplicaTypeOK
<1>2. mg.fast.last \in Nat /\ mg.coldApplied \in Nat
    BY <1>1, MergerFields
<1> QED
    BY <1>1, <1>2, Zenon DEF IInv, TypeOK, WireTypeOK, HostTypeOK, ReplicaTypeOK, ParkedWaits

\* The head of the fast lane, observed.
LEMMA TakeFastProps ==
    ASSUME IInv, TakeFast
    PROVE  /\ Head(fast) \in FastMsg
           /\ FastSeen \in Merger(FastMsg) /\ Seen(FastSeen) /\ Recorded(FastSeen, lostF)
           /\ FastSeen.fast.last = Head(fast).seq
           /\ FastSeen.fast.miss # 0 => mg.fast.miss # 0 \/ FastHole
           /\ FastSeen.cold = mg.cold /\ FastSeen.coldApplied = mg.coldApplied
           /\ FastSeen.parked = mg.parked
           /\ fast' \in Seq(FastMsg)
<1>1. fast \in Seq(FastMsg) /\ fast # <<>> /\ fast' = Tail(fast)
    BY TypeParts DEF TakeFast
<1>2. Head(fast) = fast[1] /\ 1 \in 1..Len(fast) /\ Head(fast) \in FastMsg
    BY <1>1
<1>3. Head(fast).seq \in Nat /\ Head(fast).seq > mg.fast.last /\ Head(fast).seq \notin lostF
    BY <1>2, TypeParts, FastMsgFields DEF IInv, FastLane
<1>4. LET n == [mg EXCEPT !.fast = Observe(@, Head(fast).seq)]
      IN  /\ n \in Merger(FastMsg) /\ Seen(n)
          /\ n.fast.last = Head(fast).seq
          /\ n.fast.miss # 0 => mg.fast.miss # 0 \/ ~Contiguous(mg.fast, Head(fast).seq)
          /\ n.cold = mg.cold /\ n.coldApplied = mg.coldApplied /\ n.parked = mg.parked
          /\ n.fastApplied = mg.fastApplied
          /\ \A lost \in SUBSET Nat : Head(fast).seq \notin lost /\ Recorded(mg, lost)
                                          => Recorded(n, lost)
    BY <1>3, TypeParts, FastMsgFields, ObserveFast
<1>5. Recorded(FastSeen, lostF)
    BY <1>3, <1>4, TypeParts, Zenon DEF FastSeen
<1> QED
    BY <1>1, <1>2, <1>4, <1>5 DEF FastSeen, FastHole

\* Taking the head of the fast lane leaves the rest numbered on from it.
LEMMA FastLaneShrinks ==
    ASSUME IInv, TakeFast, mg'.fast.last = Head(fast).seq, UNCHANGED <<seqF, lostF>>
    PROVE  FastLane'
<1>1. fast \in Seq(FastMsg) /\ fast # <<>> /\ fast' = Tail(fast) /\ seqF \in Nat
    BY TypeParts DEF TakeFast
<1>2. /\ Head(fast) = fast[1] /\ Len(fast') = Len(fast) - 1 /\ Len(fast) \in Nat
      /\ \A i \in 1..Len(fast') : fast'[i] = fast[i + 1] /\ i + 1 \in 1..Len(fast)
    BY <1>1
<1>3. \A i \in 1..Len(fast) : fast[i].seq \in Nat
    BY <1>1, FastMsgFields
<1>4. mg'.fast.last <= seqF'
    BY <1>1, <1>2 DEF IInv, FastLane
<1>5. \A i \in 1..Len(fast') : /\ mg'.fast.last < fast'[i].seq /\ fast'[i].seq <= seqF'
                               /\ fast'[i].seq \notin lostF'
    BY <1>1, <1>2, <1>3 DEF IInv, FastLane
<1>6. \A i, j \in 1..Len(fast') : i < j => fast'[i].seq < fast'[j].seq
    BY <1>1, <1>2, <1>3 DEF IInv, FastLane
<1> QED
    BY <1>4, <1>5, <1>6 DEF IInv, FastLane

\* A step that touches neither the fast lane nor its tracker keeps it in order.
LEMMA FastLaneSame ==
    ASSUME FastLane, mg'.fast = mg.fast, UNCHANGED <<seqF, lostF, fast>>
    PROVE  FastLane'
BY DEF FastLane

-----------------------------------------------------------------------------
(* The replica's actions.                                                  *)

\* _end_resync keeps the invariant: the flag stays up if a hole is left.
LEMMA EndResyncStep ==
    ASSUME IInv, EndResync, UNCHANGED hostVars
    PROVE  MergerOK(mg') /\ HoleFlagged' /\ FastLane' /\ WireTypeOK' /\ ReplicaTypeOK'
<1> DEFINE n == ClearFastGap(FastSeen)
           q == Head(fast).seq
<1>1. TakeFast /\ UNCHANGED <<cold, lostC, lostF, part, pending, boots, seqF>>
    BY DEF EndResync, TakeFast, hostVars
<1>2. /\ n \in Merger(FastMsg) /\ Seen(n)
      /\ n.fast.last = q /\ n.fast.miss = 0
      /\ n.cold = mg.cold /\ n.coldApplied = mg.coldApplied /\ n.parked = mg.parked
      /\ \A lost \in SUBSET Nat : Recorded(n, lost)
    BY <1>1, TakeFastProps, ClearFastGapProps
<1>3. q \in Nat
    BY <1>1, TakeFastProps, FastMsgFields
<1> HIDE DEF n
<1>4. mg' = FastDone(n, {q}) /\ want' = (ReportedLane(n, unknown) # "")
      /\ resyncs' = resyncs + 1 /\ UNCHANGED <<scene, unknown>>
    BY DEF EndResync, n
<1>5. /\ mg' \in Merger(FastMsg) /\ Seen(mg')
      /\ mg'.fast = n.fast /\ mg'.cold = n.cold /\ mg'.coldApplied = n.coldApplied
      /\ mg'.parked = n.parked
      /\ \A lost \in SUBSET Nat : Recorded(n, lost) => Recorded(mg', lost)
  <2>1. {q} \in SUBSET Nat /\ \A s \in {q} : s <= n.fast.last
      BY <1>2, <1>3
  <2>2. mg' = FastDone(n, {q})
      BY <1>4
  <2> QED
      BY <1>2, <2>1, <2>2, FastDoneSeen
<1>6. MergerOK(mg')
    BY <1>1, <1>2, <1>5, TypeParts, Zenon DEF MergerOK
<1>7. HoleFlagged'
  <2>1. mg'.fast.miss = 0 /\ mg'.cold = mg.cold /\ n.cold = mg.cold /\ n.fast.miss = 0
      BY <1>2, <1>5
  <2>2. mg.cold.miss # 0 \/ unknown => ReportedLane(n, unknown) # ""
      BY <2>1 DEF ReportedLane, GapLane
  <2> QED
      BY <1>4, <2>1, <2>2, Zenon DEF HoleFlagged
<1>8. FastLane'
    BY <1>1, <1>2, <1>5, FastLaneShrinks
<1>9. WireTypeOK' /\ ReplicaTypeOK'
  <2>1. want' \in BOOLEAN /\ unknown' \in BOOLEAN
      BY <1>4, TypeParts, Zenon
  <2>2. resyncs' = resyncs + 1 /\ resyncs \in Nat
      BY <1>4, TypeParts, Zenon
  <2>3. resyncs' \in Nat
      BY <2>2
  <2> QED
      BY <1>1, <1>4, <1>5, <2>1, <2>3, TakeFastProps, TypeParts, Zenon DEF WireTypeOK, ReplicaTypeOK
<1> QED
    BY <1>6, <1>7, <1>8, <1>9

\* A fast message that is admitted keeps the invariant.
LEMMA ApplyFastStep ==
    ASSUME IInv, ApplyFast, UNCHANGED hostVars
    PROVE  MergerOK(mg') /\ HoleFlagged' /\ FastLane' /\ WireTypeOK' /\ ReplicaTypeOK'
<1> DEFINE msg == Head(fast)
           n == FastSeen
<1>1. TakeFast /\ UNCHANGED <<cold, lostC, lostF, part, pending, boots, resyncs, seqF>>
    BY DEF ApplyFast, TakeFast, hostVars
<1>2. /\ n \in Merger(FastMsg) /\ Seen(n) /\ Recorded(n, lostF)
      /\ n.fast.last = msg.seq
      /\ n.fast.miss # 0 => mg.fast.miss # 0 \/ FastHole
      /\ n.cold = mg.cold /\ n.coldApplied = mg.coldApplied /\ n.parked = mg.parked
      /\ msg \in FastMsg
    BY <1>1, TakeFastProps
<1> HIDE DEF n, msg
<1>3. /\ Release(n, {msg}, scene)
      /\ unknown' = (unknown \/ MeetsUnknown(scene, {msg}))
      /\ want' = (want \/ FastHole \/ MeetsUnknown(scene, {msg}))
    BY DEF ApplyFast, n, msg
<1>4. MergerOK(n)
    BY <1>2, TypeParts, Zenon DEF MergerOK
<1>5. {msg} \in SUBSET FastMsg /\ \A p \in {msg} : p.seq <= n.fast.last
    BY <1>2, FastMsgFields
<1>6. MergerOK(mg') /\ scene' \in Scene /\ mg'.fast = n.fast /\ mg'.cold = n.cold
    BY <1>3, <1>4, <1>5, TypeParts, ReleaseProps
<1>7. HoleFlagged'
    BY <1>2, <1>3, <1>6, Zenon DEF IInv, HoleFlagged
<1>8. FastLane'
    BY <1>1, <1>2, <1>6, FastLaneShrinks DEF msg
<1>9. WireTypeOK' /\ ReplicaTypeOK'
  <2>1. want' \in BOOLEAN /\ unknown' \in BOOLEAN
      BY <1>3, Zenon
  <2> QED
      BY <1>1, <1>6, <2>1, TakeFastProps, TypeParts, Zenon DEF WireTypeOK, ReplicaTypeOK, MergerOK
<1> QED
    BY <1>6, <1>7, <1>8, <1>9

\* A fast message that is parked keeps the invariant.
LEMMA ParkFastStep ==
    ASSUME IInv, ParkFast, UNCHANGED hostVars
    PROVE  MergerOK(mg') /\ HoleFlagged' /\ FastLane' /\ WireTypeOK' /\ ReplicaTypeOK'
<1> DEFINE msg == Head(fast)
           n == FastSeen
<1>1. /\ TakeFast
      /\ UNCHANGED <<cold, lostC, lostF, part, pending, boots, resyncs, scene, unknown, seqF>>
    BY DEF ParkFast, TakeFast, hostVars
<1>2. /\ n \in Merger(FastMsg) /\ Seen(n) /\ Recorded(n, lostF)
      /\ n.fast.last = msg.seq
      /\ n.fast.miss # 0 => mg.fast.miss # 0 \/ FastHole
      /\ n.cold = mg.cold /\ n.coldApplied = mg.coldApplied /\ n.parked = mg.parked
      /\ msg \in FastMsg
    BY <1>1, TakeFastProps
<1> HIDE DEF n, msg
<1>3. mg' = Park(n, msg) /\ want' = (want \/ FastHole) /\ ~Admissible(mg, msg)
    BY DEF ParkFast, n, msg
<1>4. msg.seq \in Nat /\ msg.seq <= n.fast.last /\ msg.after \in Nat
    BY <1>2, FastMsgFields
<1>5. /\ mg' \in Merger(FastMsg) /\ Seen(mg')
      /\ mg'.fast = n.fast /\ mg'.cold = n.cold /\ mg'.coldApplied = n.coldApplied
      /\ mg'.fastApplied = n.fastApplied /\ mg'.parked = n.parked \cup {msg}
    BY <1>2, <1>3, <1>4, ParkProps
<1>6. MergerOK(mg')
  <2>1. Recorded(mg', lostF)
      BY <1>2, <1>5, Zenon DEF Recorded
  <2>2. msg.after > mg.coldApplied
      BY <1>3, <1>4, TypeParts DEF Admissible
  <2> QED
      BY <1>2, <1>5, <2>1, <2>2, TypeParts, Zenon DEF MergerOK
<1>7. HoleFlagged'
    BY <1>1, <1>2, <1>3, <1>5, Zenon DEF IInv, HoleFlagged
<1>8. FastLane'
    BY <1>1, <1>2, <1>5, FastLaneShrinks DEF msg
<1>9. WireTypeOK' /\ ReplicaTypeOK'
  <2>1. want' \in BOOLEAN
      BY <1>3, Zenon
  <2> QED
      BY <1>1, <1>5, <2>1, TakeFastProps, TypeParts, Zenon DEF WireTypeOK, ReplicaTypeOK
<1> QED
    BY <1>6, <1>7, <1>8, <1>9

\* What observing the head of the cold lane does to the merger.
LEMMA TakeColdProps ==
    ASSUME IInv, TakeCold
    PROVE  /\ Head(cold) \in ColdMsg /\ Head(cold).seq \in Nat
           /\ ColdSeen \in Merger(FastMsg) /\ Seen(ColdSeen) /\ Recorded(ColdSeen, lostF)
           /\ ColdSeen.cold.miss # 0 => mg.cold.miss # 0 \/ ColdHole
           /\ ColdSeen.fast = mg.fast /\ ColdSeen.coldApplied = mg.coldApplied
           /\ ColdSeen.parked = mg.parked
           /\ cold' \in Seq(ColdMsg)
<1>1. cold \in Seq(ColdMsg) /\ cold # <<>> /\ cold' = Tail(cold)
    BY TypeParts DEF TakeCold
<1>2. Head(cold) \in ColdMsg /\ cold' \in Seq(ColdMsg)
    BY <1>1
<1>3. Head(cold).seq \in Nat
    BY <1>2 DEF ColdMsg
<1>4. LET n == [mg EXCEPT !.cold = Observe(@, Head(cold).seq)]
      IN  /\ n \in Merger(FastMsg) /\ Seen(n)
          /\ n.cold.miss # 0 => mg.cold.miss # 0 \/ ~Contiguous(mg.cold, Head(cold).seq)
          /\ n.fast = mg.fast /\ n.coldApplied = mg.coldApplied /\ n.parked = mg.parked
          /\ n.fastApplied = mg.fastApplied /\ n.fastDone = mg.fastDone
    BY <1>3, TypeParts, ObserveCold
<1>5. Recorded(ColdSeen, lostF)
    BY <1>4, TypeParts, Zenon DEF FastSeen, Recorded, ColdSeen
<1> QED
    BY <1>2, <1>3, <1>4, <1>5 DEF ColdSeen, ColdHole

\* A cold message that needs no batch.
LEMMA DoneInlineStep ==
    ASSUME IInv, TakeCold, DoneInline, UNCHANGED hostVars
    PROVE  /\ MergerOK(mg') /\ HoleFlagged' /\ FastLane' /\ WireTypeOK'
           /\ scene' \in Scene /\ want' \in BOOLEAN /\ unknown' \in BOOLEAN
<1> DEFINE q == Head(cold).seq
           n == ColdDone(ColdSeen, q)
           due == Due(ColdSeen, q)
<1>1. UNCHANGED <<fast, lostC, lostF, boots, resyncs, seqF>>
    BY DEF TakeCold, hostVars
<1>2. /\ MergerOK(n) /\ n.fast = mg.fast /\ n.cold = ColdSeen.cold
      /\ due \in SUBSET FastMsg /\ \A p \in due : p.seq <= n.fast.last
    BY TakeColdProps, ColdDoneOK
<1>3. /\ Release(n, due, scene)
      /\ unknown' = (unknown \/ MeetsUnknown(scene, due))
      /\ want' = (want \/ ColdHole \/ MeetsUnknown(scene, due))
    BY DEF DoneInline
<1> HIDE DEF n, due
<1>4. MergerOK(mg') /\ scene' \in Scene /\ mg'.fast = n.fast /\ mg'.cold = n.cold
    BY <1>2, <1>3, TypeParts, ReleaseProps
<1>5. HoleFlagged'
    BY <1>2, <1>3, <1>4, TakeColdProps, Zenon DEF IInv, HoleFlagged
<1>6. FastLane'
    BY <1>1, <1>2, <1>4, FastLaneSame DEF IInv
<1>7. want' \in BOOLEAN /\ unknown' \in BOOLEAN
    BY <1>3, Zenon
<1>8. WireTypeOK'
    BY <1>1, TakeColdProps, TypeParts, Zenon DEF WireTypeOK
<1> QED
    BY <1>4, <1>5, <1>6, <1>7, <1>8

\* A library message keeps the invariant.
LEMMA TakeLinkStep ==
    ASSUME IInv, TakeLink, UNCHANGED hostVars
    PROVE  MergerOK(mg') /\ HoleFlagged' /\ FastLane' /\ WireTypeOK' /\ ReplicaTypeOK'
<1>1. TakeCold /\ DoneInline /\ UNCHANGED <<part, pending, boots, resyncs>>
    BY DEF TakeLink, TakeCold
<1> QED
    BY <1>1, DoneInlineStep, TypeParts, Zenon DEF ReplicaTypeOK, MergerOK

\* A middle chunk keeps the invariant.
LEMMA TakeChunkStep ==
    ASSUME IInv, TakeChunk, UNCHANGED hostVars
    PROVE  MergerOK(mg') /\ HoleFlagged' /\ FastLane' /\ WireTypeOK' /\ ReplicaTypeOK'
<1> DEFINE m == Head(cold)
<1>1. TakeCold /\ DoneInline /\ UNCHANGED <<pending, boots, resyncs>>
    BY DEF TakeChunk, TakeCold
<1>2. m.u \in U \cup {Boot} /\ m.id \in Nat /\ m.i \in Nat
    BY <1>1, TakeColdProps DEF ColdMsg
<1>3. part' = [part EXCEPT ![m.u] = [id |-> m.id, got |-> GotWith(m)]]
    BY DEF TakeChunk
<1> HIDE DEF m
<1>4. GotWith(m) \in SUBSET Nat
    BY <1>2, TypeParts DEF GotWith
<1>5. part' \in [U \cup {Boot} -> [id : Nat, got : SUBSET Nat]]
    BY <1>2, <1>3, <1>4, TypeParts
<1> QED
    BY <1>1, <1>5, DoneInlineStep, TypeParts, Zenon DEF ReplicaTypeOK, MergerOK

\* A chunk that completes a blob keeps the invariant.
LEMMA TakeLastChunkStep ==
    ASSUME IInv, TakeLastChunk, UNCHANGED hostVars
    PROVE  MergerOK(mg') /\ HoleFlagged' /\ FastLane' /\ WireTypeOK' /\ ReplicaTypeOK'
<1> DEFINE m == Head(cold)
           item == [kind |-> m.kind, u |-> m.u, val |-> m.val, seq |-> m.seq]
<1>1. /\ TakeCold /\ UNCHANGED <<fast, lostC, lostF, boots, resyncs, scene, unknown, seqF>>
      /\ mg' = ColdSeen /\ want' = (want \/ ColdHole) /\ m.kind # "link"
    BY DEF TakeLastChunk, TakeCold, hostVars
<1>2. m \in ColdMsg
    BY <1>1, TakeColdProps
<1>3. item \in Item
    BY <1>1, <1>2 DEF ColdMsg, Item
<1>4. pending' = <<item>> \/ pending' = Append(pending, item)
    BY Zenon DEF TakeLastChunk
<1>5. part' = [part EXCEPT ![m.u] = NoPart] /\ m.u \in U \cup {Boot}
    BY <1>2 DEF TakeLastChunk, ColdMsg
<1> HIDE DEF item
<1>6. pending' \in Seq(Item)
  <2>1. <<item>> \in Seq(Item)
      BY <1>3
  <2>2. Append(pending, item) \in Seq(Item)
      BY <1>3, TypeParts
  <2> QED
      BY <1>4, <2>1, <2>2, Zenon
<1>7. part' \in [U \cup {Boot} -> [id : Nat, got : SUBSET Nat]]
    BY <1>5, TypeParts DEF NoPart
<1>8. MergerOK(mg')
    BY <1>1, TakeColdProps, TypeParts, Zenon DEF MergerOK
<1>9. HoleFlagged'
    BY <1>1, TakeColdProps, Zenon DEF IInv, HoleFlagged
<1>10. FastLane'
    BY <1>1, TakeColdProps, FastLaneSame DEF IInv
<1>11. want' \in BOOLEAN
    BY <1>1, Zenon
<1>12. WireTypeOK' /\ ReplicaTypeOK'
    BY <1>1, <1>6, <1>7, <1>11, TakeColdProps, TypeParts, Zenon DEF WireTypeOK, ReplicaTypeOK
<1> QED
    BY <1>8, <1>9, <1>10, <1>12

\* A file that applies keeps the invariant: it closes both holes and takes the
\* flag down, and what it releases may raise it again.
LEMMA ApplyBootStep ==
    ASSUME IInv, ApplyBoot, UNCHANGED hostVars
    PROVE  MergerOK(mg') /\ HoleFlagged' /\ FastLane' /\ WireTypeOK' /\ ReplicaTypeOK'
<1> DEFINE b == Head(pending)
           m1 == ClearFastGap(ClearColdGap(mg))
           due == Due(m1, b.seq)
           n == ColdDone(m1, b.seq)
<1>1. /\ UNCHANGED <<cold, fast, lostC, lostF, part, resyncs, seqF>>
      /\ boots' = boots + 1 /\ pending' = Tail(pending) /\ pending # <<>>
    BY DEF ApplyBoot, wireVars, hostVars
<1>2. b \in Item /\ pending' \in Seq(Item)
    BY <1>1, TypeParts
<1>3. b.seq \in Nat /\ b.val \in Scene
    BY <1>2 DEF Item
<1>4. /\ Release(n, due, b.val)
      /\ unknown' = MeetsUnknown(b.val, due) /\ want' = MeetsUnknown(b.val, due)
    BY DEF ApplyBoot
<1> HIDE DEF b
<1>5. /\ m1 \in Merger(FastMsg) /\ Seen(m1) /\ Recorded(m1, lostF)
      /\ m1.fast.last = mg.fast.last /\ m1.fast.miss = 0 /\ m1.cold.miss = 0
  <2> DEFINE m0 == ClearColdGap(mg)
  <2>1. /\ m0 \in Merger(FastMsg) /\ Seen(m0) /\ m0.fast = mg.fast /\ m0.cold.miss = 0
      BY TypeParts, ClearColdGapProps
  <2> HIDE DEF m0
  <2>2. LET m2 == ClearFastGap(m0)
        IN  /\ m2 \in Merger(FastMsg) /\ Seen(m2) /\ m2.fast.last = m0.fast.last
            /\ m2.fast.miss = 0 /\ m2.cold = m0.cold
            /\ \A lost \in SUBSET Nat : Recorded(m2, lost)
      BY <2>1, ClearFastGapProps
  <2> QED
      BY <2>1, <2>2, TypeParts DEF m0
<1> HIDE DEF m1
<1>6. /\ MergerOK(n) /\ n.fast = m1.fast /\ n.cold = m1.cold
      /\ due \in SUBSET FastMsg /\ \A p \in due : p.seq <= m1.fast.last
    BY <1>3, <1>5, ColdDoneOK
<1> HIDE DEF n, due
<1>7. MergerOK(mg') /\ scene' \in Scene /\ mg'.fast = n.fast /\ mg'.cold = n.cold
    BY <1>3, <1>4, <1>6, TypeParts, ReleaseProps
<1>8. HoleFlagged'
    BY <1>4, <1>5, <1>6, <1>7, Zenon DEF HoleFlagged
<1>9. FastLane'
    BY <1>1, <1>5, <1>6, <1>7 DEF IInv, FastLane
<1>10. WireTypeOK' /\ ReplicaTypeOK'
  <2>1. want' \in BOOLEAN /\ unknown' \in BOOLEAN
      BY <1>4, MeetsUnknownBool, Zenon
  <2>2. boots' \in Nat
      BY <1>1, TypeParts
  <2>3. mg' \in Merger(FastMsg)
      BY <1>7 DEF MergerOK
  <2> QED
      BY <1>1, <1>2, <1>7, <2>1, <2>2, <2>3, TypeParts, Zenon DEF WireTypeOK, ReplicaTypeOK
<1> QED
    BY <1>7, <1>8, <1>9, <1>10

\* A batch leaves the scene a scene.
LEMMA BatchedScene ==
    ASSUME pending \in Seq(Item), scene \in Scene, NEW k \in 1..Len(pending), NEW bad
    PROVE  Batched(k, bad) \in Scene
<1> SUFFICES ASSUME NEW u \in U PROVE Batched(k, bad)[u] \in Block
    BY DEF Batched, Scene
<1> DEFINE js == {j \in (1..k) \ bad : pending[j].u = u}
           last == CHOOSE j \in js : \A i \in js : i <= j
<1>1. CASE js = {}
  <2>1. Batched(k, bad)[u] = scene[u]
      BY <1>1, Zenon DEF Batched
  <2> QED
      BY <2>1 DEF Scene
<1>2. CASE js # {}
  <2>1. js \in SUBSET Nat /\ k \in Nat /\ \A j \in js : j <= k
      OBVIOUS
  <2>2. \E j \in js : \A i \in js : i <= j
      BY <1>2, <2>1, NatMax
  <2>3. last \in js
      BY <2>2
  <2>4. Batched(k, bad)[u] = pending[last].val[u]
      BY <1>2, Zenon DEF Batched
  <2>5. last \in 1..Len(pending)
      BY <2>3
  <2> HIDE DEF last
  <2>6. pending[last] \in Item
      BY <2>5
  <2> QED
      BY <2>4, <2>6 DEF Item, Scene
<1> QED
    BY <1>1, <1>2

\* A batch of blobs that applies keeps the invariant.
LEMMA ApplyBatchStep ==
    ASSUME IInv, NEW k \in 1..Len(pending), NEW bad, ApplyBatch(k, bad), UNCHANGED hostVars
    PROVE  MergerOK(mg') /\ HoleFlagged' /\ FastLane' /\ WireTypeOK' /\ ReplicaTypeOK'
<1> DEFINE q == pending[k].seq
           due == Due(mg, q)
           n == ColdDone(mg, q)
           s1 == Batched(k, bad)
<1>1. /\ UNCHANGED <<cold, fast, lostC, lostF, part, boots, resyncs, seqF>>
      /\ pending' = SubSeq(pending, k + 1, Len(pending))
    BY DEF ApplyBatch, wireVars, hostVars
<1>2. q \in Nat
  <2>1. pending[k] \in Item
      BY TypeParts
  <2> QED
      BY <2>1 DEF Item
<1>3. pending' \in Seq(Item)
  <2>1. pending \in Seq(Item) /\ k \in Nat /\ k >= 1 /\ Len(pending) \in Nat
      BY TypeParts
  <2>2. \A i \in (k + 1)..Len(pending) : pending[i] \in Item
      BY <2>1
  <2> QED
      BY <1>1, <2>1, <2>2
<1>4. s1 \in Scene
    BY TypeParts, BatchedScene
<1>5. /\ Release(n, due, s1)
      /\ unknown' = (unknown \/ MeetsUnknown(s1, due))
      /\ want' = (want \/ MeetsUnknown(s1, due))
    BY DEF ApplyBatch
<1> HIDE DEF q, s1
<1>6. /\ MergerOK(n) /\ n.fast = mg.fast /\ n.cold = mg.cold
      /\ due \in SUBSET FastMsg /\ \A p \in due : p.seq <= mg.fast.last
    BY <1>2, TypeParts, ColdDoneOK
<1> HIDE DEF n, due
<1>7. MergerOK(mg') /\ scene' \in Scene /\ mg'.fast = n.fast /\ mg'.cold = n.cold
    BY <1>4, <1>5, <1>6, TypeParts, ReleaseProps
<1>8. HoleFlagged'
    BY <1>5, <1>6, <1>7, Zenon DEF IInv, HoleFlagged
<1>9. FastLane'
    BY <1>1, <1>6, <1>7, FastLaneSame DEF IInv
<1>10. WireTypeOK' /\ ReplicaTypeOK'
  <2>1. want' \in BOOLEAN /\ unknown' \in BOOLEAN
      BY <1>5, Zenon
  <2>3. mg' \in Merger(FastMsg)
      BY <1>7 DEF MergerOK
  <2> QED
      BY <1>1, <1>3, <1>7, <2>1, <2>3, TypeParts, Zenon DEF WireTypeOK, ReplicaTypeOK
<1> QED
    BY <1>7, <1>8, <1>9, <1>10

\* A file that could not be applied is done, and every hole stays flagged.
LEMMA ApplyBootFailsStep ==
    ASSUME IInv, ApplyBootFails, UNCHANGED hostVars
    PROVE  MergerOK(mg') /\ HoleFlagged' /\ FastLane' /\ WireTypeOK' /\ ReplicaTypeOK'
<1> DEFINE q == Head(pending).seq
           due == Due(mg, q)
           n == ColdDone(mg, q)
           s1 == scene
<1>1. /\ UNCHANGED <<cold, fast, lostC, lostF, part, boots, resyncs, seqF>>
      /\ pending # <<>> /\ pending' = Tail(pending)
    BY DEF ApplyBootFails, wireVars, hostVars
<1>2. q \in Nat
  <2>1. Head(pending) \in Item
      BY <1>1, TypeParts
  <2> QED
      BY <2>1 DEF Item
<1>3. pending' \in Seq(Item)
    BY <1>1, TypeParts
<1>4. s1 \in Scene
    BY TypeParts
<1>5. /\ Release(n, due, s1)
      /\ unknown' = (unknown \/ MeetsUnknown(s1, due))
      /\ want' = (want \/ MeetsUnknown(s1, due))
    BY DEF ApplyBootFails
<1> HIDE DEF q, s1
<1>6. /\ MergerOK(n) /\ n.fast = mg.fast /\ n.cold = mg.cold
      /\ due \in SUBSET FastMsg /\ \A p \in due : p.seq <= mg.fast.last
    BY <1>2, TypeParts, ColdDoneOK
<1> HIDE DEF n, due
<1>7. MergerOK(mg') /\ scene' \in Scene /\ mg'.fast = n.fast /\ mg'.cold = n.cold
    BY <1>4, <1>5, <1>6, TypeParts, ReleaseProps
<1>8. HoleFlagged'
    BY <1>5, <1>6, <1>7, Zenon DEF IInv, HoleFlagged
<1>9. FastLane'
    BY <1>1, <1>6, <1>7, FastLaneSame DEF IInv
<1>10. WireTypeOK' /\ ReplicaTypeOK'
  <2>1. want' \in BOOLEAN /\ unknown' \in BOOLEAN
      BY <1>5, Zenon
  <2>3. mg' \in Merger(FastMsg)
      BY <1>7 DEF MergerOK
  <2> QED
      BY <1>1, <1>3, <1>7, <2>1, <2>3, TypeParts, Zenon DEF WireTypeOK, ReplicaTypeOK
<1> QED
    BY <1>7, <1>8, <1>9, <1>10

-----------------------------------------------------------------------------
(* The host's actions leave the fast lane as it was, or put the next seq on it.            *)

\* A host step sends at most one fast frame, with the seq after the last.
LEMMA HostFast ==
    ASSUME UserEdit \/ FlushTick \/ SendLink \/ ForceBootstrap
    PROVE  \/ UNCHANGED <<fast, lostF, seqF>>
           \/ \E m : m.seq = seqF + 1 /\ SendFast(m) /\ seqF' = seqF + 1
<1>1. CASE UserEdit
    BY <1>1, Zenon DEF UserEdit, EditLight, EditHeavy, DeleteBlock, wireVars
<1>2. CASE SendLink \/ ForceBootstrap
    BY <1>2, Zenon DEF SendLink, ForceBootstrap, SendBootstrap, wireVars
<1>3. CASE FlushTick
  <2>1. CASE SendBootChunk \/ DrainDirty \/ \E u \in U : SendT2Chunk(u) \/ FlushT2(u)
      BY <2>1, Zenon DEF SendBootChunk, DrainDirty, SendT2Chunk, FlushT2, wireVars
  <2>2. ASSUME NEW kind, NEW u, NEW l, LaneOut(kind, u, l)
        PROVE  \E m : m.seq = seqF + 1 /\ SendFast(m) /\ seqF' = seqF + 1
    <3> DEFINE m == [kind |-> kind, u |-> u, l |-> l, seq |-> seqF + 1, after |-> AfterFor(u)]
    <3>1. SendFast(m) /\ seqF' = seqF + 1
        BY <2>2 DEF LaneOut
    <3>2. m.seq = seqF + 1
        OBVIOUS
    <3> QED
        BY <3>1, <3>2, Zenon
  <2>3. CASE \E u \in U : FlushT1(u) \/ SendTombstone(u)
      BY <2>2, <2>3, Zenon DEF FlushT1, SendTombstone
  <2>4. CASE \E e \in rq : Reassert(e)
      BY <2>2, <2>4, Zenon DEF Reassert
  <2>5. CASE ReassertEnd
    <3> DEFINE m == [kind |-> "resync_end", u |-> Boot, l |-> 0, seq |-> seqF + 1, after |-> 0]
    <3>1. SendFast(m) /\ seqF' = seqF + 1
        BY <2>5 DEF ReassertEnd
    <3>2. m.seq = seqF + 1
        OBVIOUS
    <3> QED
        BY <3>1, <3>2, Zenon
  <2> QED
      BY <1>3, <2>1, <2>3, <2>4, <2>5, Zenon DEF FlushTick
<1> QED
    BY <1>1, <1>2, <1>3

\* A step of the host keeps the fast lane in order and every loss accounted for.
LEMMA HostLane ==
    ASSUME IInv, UserEdit \/ FlushTick \/ SendLink \/ ForceBootstrap, UNCHANGED replicaVars
    PROVE  FastLane' /\ Recorded(mg', lostF')
<1>1. mg' = mg
    BY DEF replicaVars
<1>2. fast \in Seq(FastMsg) /\ seqF \in Nat /\ mg.fast.last \in Nat /\ lostF \in SUBSET Nat
    BY TypeParts
<1>3. CASE UNCHANGED <<fast, lostF, seqF>>
    BY <1>1, <1>3, FastLaneSame, TypeParts DEF IInv
<1>4. ASSUME NEW m, m.seq = seqF + 1, SendFast(m), seqF' = seqF + 1
      PROVE  FastLane' /\ Recorded(mg', lostF')
  <2>1. CASE fast' = Append(fast, m) /\ UNCHANGED lostF
    <3>1. /\ Len(fast') = Len(fast) + 1 /\ Len(fast) \in Nat
          /\ fast'[Len(fast) + 1] = m
          /\ \A i \in 1..Len(fast) : fast'[i] = fast[i]
        BY <1>2, <2>1
    <3>2. \A i \in 1..Len(fast) : fast[i].seq \in Nat
        BY <1>2, FastMsgFields
    <3>3. seqF + 1 \notin lostF
        BY <1>2 DEF IInv, FastLane
    <3>4. \A i \in 1..Len(fast') : i \in 1..Len(fast) \/ i = Len(fast) + 1
        BY <3>1
    <3>5. mg'.fast.last <= seqF' /\ \A s \in lostF' : s <= seqF'
        BY <1>1, <1>2, <1>4, <2>1 DEF IInv, FastLane
    <3>6. \A i \in 1..Len(fast') : /\ mg'.fast.last < fast'[i].seq /\ fast'[i].seq <= seqF'
                                   /\ fast'[i].seq \notin lostF'
        BY <1>1, <1>2, <1>4, <2>1, <3>1, <3>2, <3>3, <3>4 DEF IInv, FastLane
    <3>7. \A i, j \in 1..Len(fast') : i < j => fast'[i].seq < fast'[j].seq
        BY <1>1, <1>2, <1>4, <2>1, <3>1, <3>2, <3>4 DEF IInv, FastLane
    <3>8. Recorded(mg', lostF')
        BY <1>1, <2>1, TypeParts
    <3> QED
        BY <3>5, <3>6, <3>7, <3>8 DEF FastLane
  <2>2. CASE lostF' = lostF \cup {m.seq} /\ UNCHANGED fast
    <3>1. \A i \in 1..Len(fast) : fast[i].seq \in Nat
        BY <1>2, FastMsgFields
    <3>2. FastLane'
        BY <1>1, <1>2, <1>4, <2>2, <3>1 DEF IInv, FastLane
    <3>3. ~(seqF + 1 <= mg.fast.last)
        BY <1>2 DEF IInv, FastLane
    <3>4. Recorded(mg, lostF \cup {seqF + 1})
        BY <3>3, TypeParts DEF Recorded
    <3> QED
        BY <1>1, <1>4, <2>2, <3>2, <3>4
  <2> QED
      BY <1>4, <2>1, <2>2 DEF SendFast
<1> QED
    BY <1>3, <1>4, HostFast

-----------------------------------------------------------------------------
(* The policy                                                              *)

\* What a pong reports has the type of a status.
LEMMA StatusType ==
    ASSUME ReplicaTypeOK
    PROVE  StatusNow \in Status
<1>1. mg.fast.miss \in Nat /\ want \in BOOLEAN /\ boots \in Nat /\ resyncs \in Nat
    BY MergerFields DEF ReplicaTypeOK
<1>2. ReportedLane(mg, unknown) \in {"", "cold", "fast", "both", "unknown"}
    BY DEF ReportedLane, GapLane
<1> HIDE DEF ReportedLane
<1> QED
    BY <1>1, <1>2 DEF StatusNow, Status

\* The answer of the watch timer keeps the types.
LEMMA WatchTypes ==
    ASSUME TypeOK, Watch
    PROVE  TypeOK'
<1> USE WireAssumption
<1>1. WireTypeOK' /\ ReplicaTypeOK' /\ pong' \in Status
  <2>1. UNCHANGED <<wireVars, replicaVars, pong>>
      BY Zenon DEF Watch
  <2> QED
      BY <2>1, Zenon DEF TypeOK, WireTypeOK, ReplicaTypeOK, wireVars, replicaVars
<1>2. served' \in Nat \X Nat
    BY DEF Watch, TypeOK, Status
<1>3. CASE FastRepair
  <2>1. ResendFastWindow(pong.gapAt)
      BY <1>3, Zenon DEF Watch
  <2>2. WindowSince(pong.gapAt) \subseteq [u : U, kind : {"t1", "tomb"}]
      BY DEF TypeOK, HostTypeOK, WindowSince, LogEntry
  <2> HIDE DEF WindowSince
  <2>3. /\ rq' = rq \cup WindowSince(pong.gapAt)
        /\ UNCHANGED <<host, shadow, dirty, tombs, known, born, seqC, seqF, coldOf, bootSeq,
                       linkSeq, bootBox, t2Box, log, edits, forced, links>>
      BY <2>1, Zenon DEF ResendFastWindow
  <2>4. rend' \in BOOLEAN
      BY <2>1, Zenon DEF ResendFastWindow
  <2>5. HostTypeOK'
      BY <2>2, <2>3, <2>4, Zenon DEF TypeOK, HostTypeOK
  <2> QED
      BY <1>1, <1>2, <2>5, Zenon DEF TypeOK
<1>4. CASE ~FastRepair
  <2>1. SendBootstrap /\ UNCHANGED forced
      BY <1>4, Zenon DEF Watch
  <2>2. FileChunks(seqC + 1) \in Seq(Chunk)
      BY ChunkBlobSeq DEF FileChunks, TypeOK, HostTypeOK
  <2>3. HostTypeOK'
      BY <2>1, <2>2, Zenon DEF SendBootstrap, TypeOK, HostTypeOK
  <2> QED
      BY <1>1, <1>2, <2>3, Zenon DEF TypeOK
<1> QED
    BY <1>3, <1>4

-----------------------------------------------------------------------------
(* The invariant                                                           *)

\* A session starts in a state of the invariant.
LEMMA InitIInv == Init => IInv
<1> SUFFICES ASSUME Init PROVE IInv
    OBVIOUS
<1> USE WireAssumption
<1>1. host \in Scene /\ NoScene \in Scene /\ scene \in Scene
    BY DEF Init, HostInit, ReplicaInit, Scene, Block, Gone, NoScene
<1>2. bootBox \in Seq(Chunk)
  <2>1. FileChunks(1) \in Seq(Chunk)
      BY <1>1, ChunkBlobSeq DEF FileChunks
  <2> QED
      BY <2>1 DEF Init, HostInit
<1>3. HostTypeOK
  <2>1. rend \in BOOLEAN
      BY Zenon DEF Init, HostInit
  <2> QED
      BY <1>1, <1>2, <2>1 DEF Init, HostInit, HostTypeOK
<1>4. WireTypeOK
    BY DEF Init, WireTypeOK
<1>5. mg \in Merger(FastMsg) /\ mg.fast.last = 0 /\ mg.fast.miss = 0 /\ mg.cold.miss = 0
      /\ mg.parked = {} /\ mg.fastDone = {} /\ mg.fastApplied = 0
    BY DEF Init, ReplicaInit, Primed, Merger, Tracker
<1>6. ReplicaTypeOK
  <2>1. want \in BOOLEAN /\ unknown \in BOOLEAN
      BY Zenon DEF Init, ReplicaInit
  <2>2. part \in [U \cup {Boot} -> [id : Nat, got : SUBSET Nat]]
      BY DEF Init, ReplicaInit, NoPart
  <2>3. pending \in Seq(Item) /\ boots \in Nat /\ resyncs \in Nat
      BY DEF Init, ReplicaInit
  <2> QED
      BY <1>1, <1>5, <2>1, <2>2, <2>3, Zenon DEF ReplicaTypeOK
<1>7. TypeOK
  <2>1. served \in {NoState} \cup (Nat \X Nat)
      BY DEF Init
  <2>2. pong \in Status
      BY <1>6, StatusType DEF Init
  <2> QED
      BY <1>3, <1>4, <1>6, <2>1, <2>2, Zenon DEF TypeOK
<1>8. Seen(mg)
    BY <1>5 DEF Seen
<1>9. FastLane /\ Recorded(mg, lostF) /\ ParkedWaits
    BY <1>3, <1>5 DEF Init, FastLane, Recorded, ParkedWaits, HostTypeOK
<1>10. HoleFlagged
    BY <1>5, Zenon DEF Init, ReplicaInit, HoleFlagged
<1> QED
    BY <1>7, <1>8, <1>9, <1>10, Zenon DEF IInv

\* The invariant depends on the session's variables alone.
LEMMA IInvStutters == IInv /\ UNCHANGED vars => IInv'
<1> SUFFICES ASSUME IInv, UNCHANGED vars PROVE IInv'
    OBVIOUS
<1>1. UNCHANGED <<cold, fast, lostC, lostF, host, shadow, dirty, tombs, known, born, seqC, seqF,
                  coldOf, bootSeq, linkSeq, bootBox, t2Box, log, rq, rend, edits, forced, links,
                  mg, part, pending, scene, want, unknown, boots, resyncs, pong, served>>
    BY Zenon DEF vars, wireVars, hostVars, replicaVars, policyVars
<1>2. TypeOK'
    BY <1>1, Zenon DEF IInv, TypeOK, WireTypeOK, HostTypeOK, ReplicaTypeOK
<1>3. Seen(mg') /\ FastLane' /\ HoleFlagged' /\ ParkedWaits' /\ Recorded(mg', lostF')
    BY <1>1, Zenon DEF IInv, FastLane, HoleFlagged, ParkedWaits
<1> QED
    BY <1>2, <1>3, Zenon DEF IInv

\* Every step keeps the invariant.
LEMMA NextIInv == IInv /\ Next => IInv'
<1> SUFFICES ASSUME IInv, Next PROVE IInv'
    OBVIOUS
<1>1. CASE HostStep
  <2>1. UserEdit \/ FlushTick \/ SendLink \/ ForceBootstrap
      BY <1>1, Zenon DEF HostStep
  <2>2. UNCHANGED <<mg, part, pending, scene, want, unknown, boots, resyncs, pong, served>>
        /\ UNCHANGED replicaVars
      BY <1>1, Zenon DEF HostStep, replicaVars, policyVars
  <2>3. WireTypeOK' /\ HostTypeOK'
      BY <2>1, HostTypes DEF IInv, TypeOK
  <2>4. FastLane' /\ Recorded(mg', lostF')
      BY <2>1, <2>2, HostLane
  <2>5. ReplicaTypeOK' /\ pong' \in Status /\ served' \in {NoState} \cup (Nat \X Nat)
      BY <2>2, Zenon DEF IInv, TypeOK, ReplicaTypeOK
  <2>6. Seen(mg') /\ HoleFlagged' /\ ParkedWaits'
      BY <2>2, Zenon DEF IInv, HoleFlagged, ParkedWaits
  <2> QED
      BY <2>3, <2>4, <2>5, <2>6, Zenon DEF IInv, TypeOK
<1>2. CASE ReplicaStep
  <2>1. ReplicaTick /\ UNCHANGED hostVars /\ UNCHANGED <<pong, served>>
      BY <1>2, Zenon DEF ReplicaStep, policyVars
  <2>2. MergerOK(mg') /\ HoleFlagged' /\ FastLane' /\ WireTypeOK' /\ ReplicaTypeOK'
      BY <2>1, EndResyncStep, ApplyFastStep, ParkFastStep, TakeLinkStep, TakeChunkStep,
         TakeLastChunkStep, ApplyBootStep, ApplyBatchStep, ApplyBootFailsStep DEF ReplicaTick
  <2>3. UNCHANGED lostF
      BY <2>1, Zenon DEF ReplicaTick, EndResync, ApplyFast, ParkFast, TakeFast, TakeLink, TakeChunk,
                  TakeLastChunk, TakeCold, ApplyBoot, ApplyBatch, ApplyBootFails, wireVars
  <2>4. UNCHANGED <<host, shadow, dirty, tombs, known, born, seqC, seqF, coldOf, bootSeq, linkSeq,
                    bootBox, t2Box, log, rq, rend, edits, forced, links>>
      BY <2>1, Zenon DEF hostVars
  <2>5. HostTypeOK' /\ pong' \in Status /\ served' \in {NoState} \cup (Nat \X Nat)
      BY <2>1, <2>4, Zenon DEF IInv, TypeOK, HostTypeOK
  <2>6. Seen(mg') /\ Recorded(mg', lostF') /\ ParkedWaits'
      BY <2>2, <2>3, Zenon DEF MergerOK, ParkedWaits
  <2> QED
      BY <2>2, <2>5, <2>6, Zenon DEF IInv, TypeOK
<1>3. ASSUME UNCHANGED <<wireVars, replicaVars, seqF>>, TypeOK' PROVE IInv'
  <2>1. UNCHANGED <<fast, lostF, mg, want, unknown, seqF>>
      BY <1>3, Zenon DEF wireVars, replicaVars
  <2> QED
      BY <1>3, <2>1, Zenon DEF IInv, FastLane, HoleFlagged, ParkedWaits
<1>4. CASE Pong
  <2>1. UNCHANGED <<wireVars, replicaVars, seqF>>
      BY <1>4, Zenon DEF Pong, hostVars
  <2>2. pong' \in Status
      BY <1>4, StatusType DEF Pong, IInv, TypeOK
  <2>3. WireTypeOK' /\ HostTypeOK' /\ ReplicaTypeOK' /\ served' = served
      BY <1>4, Zenon DEF Pong, IInv, TypeOK, WireTypeOK, HostTypeOK, ReplicaTypeOK,
                         wireVars, hostVars, replicaVars
  <2>4. TypeOK'
      BY <2>2, <2>3, Zenon DEF IInv, TypeOK
  <2> QED
      BY <1>3, <2>1, <2>4
<1>5. CASE Watch
  <2>1. UNCHANGED <<wireVars, replicaVars, seqF>>
      BY <1>5, Zenon DEF Watch, ResendFastWindow, SendBootstrap
  <2>2. TypeOK'
      BY <1>5, WatchTypes DEF IInv
  <2> QED
      BY <1>3, <2>1, <2>2
<1> QED
    BY <1>1, <1>2, <1>4, <1>5 DEF Next

\* The inductive invariant holds throughout every session.
THEOREM SpecIInv == Spec => []IInv
<1>1. IInv /\ [Next]_vars => IInv'
    BY NextIInv, IInvStutters
<1> QED
    BY InitIInv, <1>1, PTL DEF Spec

\* Every variable of a session keeps its type.
THEOREM TypeCorrect == Spec => []TypeOK
<1>1. IInv => TypeOK
    BY DEF IInv
<1> QED
    BY SpecIInv, <1>1, PTL

\* A hole the replica knows of, on either lane or as a delta for an unknown
\* datablock, always has want_resync up (_process_cold, _end_resync,
\* _apply_one).
THEOREM HolesFlagged == Spec => []HoleFlagged
<1>1. IInv => HoleFlagged
    BY DEF IInv
<1> QED
    BY SpecIInv, <1>1, PTL

\* No fast message stays parked behind a cold seq that has applied
\* (LaneMerger.cold_done).
THEOREM NoneStranded == Spec => []ParkedWaits
<1>1. IInv => ParkedWaits
    BY DEF IInv
<1> QED
    BY SpecIInv, <1>1, PTL

\* However many fast frames the agent discards, and whatever the re-asserts
\* and files close meanwhile, first_missing never lies beyond a frame that
\* was lost and is still owed (SeqTracker.observe, LaneMerger.fast_done).
THEOREM HolesRecorded == Spec => []HoleRecorded
<1>1. IInv => HoleRecorded
    BY Zenon DEF IInv, Recorded, HoleRecorded
<1> QED
    BY SpecIInv, <1>1, PTL
=============================================================================
