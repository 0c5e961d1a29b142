----------------------------- MODULE LaneMerge ------------------------------
(***************************************************************************)
(* protocol.SeqTracker and merge.LaneMerger as operators on records: one   *)
(* apply order out of two ordered lanes.                                   *)
(*                                                                         *)
(* A tracker remembers the highest seq seen and the first seq of the       *)
(* oldest unresolved hole (0: no hole; seqs start at 1).  The handshake    *)
(* primes `last` before the first frame of a session, so the tracker's     *)
(* "nothing seen yet" value never meets a frame and is left out.           *)
(*                                                                         *)
(* `parked` is a set: its messages carry distinct seqs of one ordered      *)
(* lane, so arrival order is seq order.                                    *)
(***************************************************************************)
EXTENDS Naturals, FiniteSets

Tracker == [last : Nat, miss : Nat]

Contiguous(t, seq) == seq = t.last + 1

\* (A wrong observe: the hole is noted at the frame that showed it.)
ObserveLate(t, seq) ==
    [last |-> IF seq > t.last THEN seq ELSE t.last,
     miss |-> IF t.miss = 0 /\ seq > t.last + 1 THEN seq ELSE t.miss]

\* SeqTracker.observe without its result
Observe(t, seq) ==
    [last |-> IF seq > t.last THEN seq ELSE t.last,
     miss |-> IF t.miss = 0 /\ seq > t.last + 1 THEN t.last + 1 ELSE t.miss]

\* (A wrong clear: another sentinel than the one the pong reports.)
ClearGapSentinel(t) == [t EXCEPT !.miss = 0 - 1]

ClearGap(t) == [t EXCEPT !.miss = 0]

Merger(Msgs) == [cold : Tracker, fast : Tracker, coldApplied : Nat, fastApplied : Nat,
                 fastDone : SUBSET Nat, parked : SUBSET Msgs]

\* A merger primed with the lane counters a hello reports.
Primed(seqC, seqF) ==
    [cold |-> [last |-> seqC, miss |-> 0], fast |-> [last |-> seqF, miss |-> 0],
     coldApplied |-> seqC, fastApplied |-> seqF, fastDone |-> {}, parked |-> {}]

GapLane(m) ==
    LET c == m.cold.miss # 0
        f == m.fast.miss # 0
    IN  IF c /\ f THEN "both" ELSE IF c THEN "cold" ELSE IF f THEN "fast" ELSE ""

\* (A wrong admit: the blob has been seen, not applied.)
AdmissibleSeen(m, msg) == msg.after <= m.cold.last

\* LaneMerger.admit: apply now, or park behind the cold seq it names.
Admissible(m, msg) == msg.after <= m.coldApplied
Park(m, msg) == [m EXCEPT !.parked = @ \cup {msg}]

\* LaneMerger.cold_done: the new merger, and the parked messages it frees.
AppliedUpTo(m, seq) == IF seq > m.coldApplied THEN seq ELSE m.coldApplied
\* (A wrong release: one seq short.)
DueStrict(m, seq) == {p \in m.parked : p.after < AppliedUpTo(m, seq)}
Due(m, seq) == {p \in m.parked : p.after <= AppliedUpTo(m, seq)}
ColdDone(m, seq) ==
    [m EXCEPT !.coldApplied = AppliedUpTo(m, seq), !.parked = @ \ Due(m, seq)]

\* LaneMerger.fast_done for each of a set of seqs: fastApplied moves only
\* over seqs that are all done.
DoneWith(m, seqs) == m.fastDone \cup {s \in seqs : s > m.fastApplied}
Runs(at, done) == {s \in done \cup {at} : \A r \in 1..s : r > at => r \in done}
EndOfRun(at, done) == CHOOSE s \in Runs(at, done) : \A r \in Runs(at, done) : r <= s
FastDone(m, seqs) ==
    LET done == DoneWith(m, seqs)
        top  == EndOfRun(m.fastApplied, done)
    IN  [m EXCEPT !.fastApplied = top, !.fastDone = {s \in done : s > top}]

ClearFastGap(m) ==
    LET top == IF m.fast.last > m.fastApplied THEN m.fast.last ELSE m.fastApplied
    IN  [m EXCEPT !.fast = ClearGap(@), !.fastApplied = top,
                  !.fastDone = {s \in @ : s > top}]

ClearColdGap(m) == [m EXCEPT !.cold = ClearGap(@)]
=============================================================================
