------------------------------ MODULE FrameRing -----------------------------
(***************************************************************************)
(* One shared-memory frame ring: Blender publishes pictures into its slots *)
(* (ring0/frame_ring), the encode helper copies the newest one out         *)
(* (encode-win ring_loop, and the reader loop of encode-mac).              *)
(*                                                                         *)
(* The two processes share memory and no lock, so every load and store of  *)
(* a control word is a step of its own.  A slot's pixels are two halves    *)
(* (lo, hi), which is enough for a copy to be torn.  A picture too tall    *)
(* for the ring retires it; the next ring is another instance of this one. *)
(***************************************************************************)
EXTENDS Naturals, FiniteSets

CONSTANTS
    Slots,      \* slots of the ring (the code's default is 3)
    Sizes,      \* frame sizes
    InFlight,   \* frames the encoder may hold (3)
    Orders,     \* TRUE: stores become visible in program order; FALSE: late
    MaxPics,    \* bound: pictures the producer starts to publish
    MaxLate,    \* the same bound where pixel stores are late
    MaxFaults   \* bound: deaths of the helper and conversions that fail

ASSUME RingAssumption ==
    /\ Slots \in Nat /\ Slots >= 3
    /\ Sizes # {} /\ "none" \notin Sizes
    /\ InFlight \in Nat \ {0}
    /\ Orders \subseteq BOOLEAN
    /\ MaxPics \in Nat /\ MaxLate \in Nat /\ MaxFaults \in Nat

VARIABLES
    \* the shared block
    lock,     \* seqlock per slot: odd while the writer is inside
    lo, hi,   \* the halves of each slot's pixels
    desc,     \* the size in each slot's descriptor
    latest,   \* the newest published frame: its seq and slot
    claim,    \* reader_claim: 0, or the slot the reader holds plus 1
    retired,  \* state = STATE_RETIRED
    \* the writer
    wpc, pic, wslot, last, seq,
    buffered, \* pixel stores not visible yet
    ordered,  \* which kind of machine this is: see Orders
    \* the helper
    rpc, got, before, copy, cursor, session, tex,
    inFlight, \* frames the encoder has taken and not returned
    shown,    \* the last picture given to the encoder
    crashes, fails  \* counters for the bounds

shared == <<lock, lo, hi, desc, latest, retired>>
writer == <<wpc, pic, wslot, last, seq, buffered, ordered>>
reader == <<rpc, got, before, copy, cursor, session, tex, inFlight, shown, crashes, fails>>
vars == <<shared, claim, writer, reader>>

Slot == 0..(Slots - 1)
Picture == [id : Nat, size : Sizes]
NoPic == [id |-> 0, size |-> CHOOSE s \in Sizes : TRUE]
NoTex == [lo |-> NoPic, hi |-> NoPic, size |-> NoPic.size]
Texture == [lo : Picture, hi : Picture, size : Sizes]
NoSize == "none"

Odd(n) == n % 2 = 1

\* ring_layout.next_slot: the slot after the last, stepping over the held one.
Succ(s) == IF s + 1 = Slots THEN 0 ELSE s + 1

\* (Wrong steps: the claim is not looked at; the held slot is answered by
\* writing the last one again.)
NextSlotBlind(from, held) == Succ(from)
NextSlotBack(from, held) == IF Succ(from) + 1 = held THEN from ELSE Succ(from)

NextSlot(from, held) == IF Succ(from) + 1 = held THEN Succ(Succ(from)) ELSE Succ(from)

\* A fresh ring.  The writer's last slot is -1 in the code, which has the
\* same successor as the last slot.
Init ==
    /\ lock = [s \in Slot |-> 0] /\ lo = [s \in Slot |-> NoPic] /\ hi = [s \in Slot |-> NoPic]
    /\ desc = [s \in Slot |-> NoPic.size]
    /\ latest = [seq |-> 0, slot |-> 0] /\ claim = 0 /\ retired = FALSE
    /\ wpc = "idle" /\ pic = NoPic /\ wslot = 0 /\ last = Slots - 1 /\ seq = 0 /\ buffered = {}
    /\ ordered \in Orders
    /\ rpc = "poll" /\ got = latest /\ before = 0 /\ copy = NoTex
    /\ cursor = 0 /\ session = NoSize /\ tex = NoTex /\ inFlight = 0 /\ shown = NoTex
    /\ crashes = 0 /\ fails = 0

-----------------------------------------------------------------------------
(* FrameRing.publish, store by store                                       *)

\* The claim is read once, before the first store.
Choose(size) ==
    /\ wpc = "idle" /\ ~retired /\ pic.id < (IF ordered THEN MaxPics ELSE MaxLate)
    /\ wslot' = NextSlot(last, claim)
    /\ pic' = [id |-> pic.id + 1, size |-> size]
    /\ wpc' = "enter"
    /\ UNCHANGED <<shared, claim, last, seq, buffered, ordered, reader>>

\* seqlock | 1: a slot that an earlier publish left odd stays odd.
Enter ==
    /\ wpc = "enter"
    /\ lock' = [lock EXCEPT ![wslot] = IF Odd(@) THEN @ ELSE @ + 1]
    /\ wpc' = "lo"
    /\ UNCHANGED <<lo, hi, desc, latest, retired, claim, pic, wslot, last, seq, buffered, ordered, reader>>

\* A pixel store: visible at once, or some time later.
Store(half, at) ==
    IF ordered THEN half' = [half EXCEPT ![wslot] = pic] /\ UNCHANGED buffered
    ELSE /\ buffered' = {b \in buffered : b.at # at \/ b.slot # wslot}
                            \cup {[at |-> at, slot |-> wslot, pic |-> pic]}
         /\ UNCHANGED half

WriteLo ==
    /\ wpc = "lo" /\ Store(lo, "lo") /\ wpc' = "hi"
    /\ UNCHANGED <<lock, hi, desc, latest, retired, claim, pic, wslot, last, seq, ordered, reader>>

WriteHi ==
    /\ wpc = "hi" /\ Store(hi, "hi") /\ wpc' = "desc"
    /\ UNCHANGED <<lock, lo, desc, latest, retired, claim, pic, wslot, last, seq, ordered, reader>>

Drain(b) ==
    /\ b \in buffered
    /\ buffered' = buffered \ {b}
    /\ IF b.at = "lo" THEN lo' = [lo EXCEPT ![b.slot] = b.pic] /\ UNCHANGED hi
                      ELSE hi' = [hi EXCEPT ![b.slot] = b.pic] /\ UNCHANGED lo
    /\ UNCHANGED <<lock, desc, latest, retired, claim, wpc, pic, wslot, last, seq, ordered, reader>>

\* An exception inside publish: the draw handler counts it and goes on.
\* The slot is left odd.
Abort ==
    /\ wpc \in {"lo", "hi", "desc"}
    /\ wpc' = "idle"
    /\ UNCHANGED <<shared, claim, pic, wslot, last, seq, buffered, ordered, reader>>

Describe ==
    /\ wpc = "desc"
    /\ seq' = seq + 1
    /\ desc' = [desc EXCEPT ![wslot] = pic.size]
    /\ wpc' = "leave"
    /\ UNCHANGED <<lock, lo, hi, latest, retired, claim, pic, wslot, last, buffered, ordered, reader>>

Leave ==
    /\ wpc = "leave"
    /\ lock' = [lock EXCEPT ![wslot] = @ + 1]
    /\ wpc' = "announce"
    /\ UNCHANGED <<lo, hi, desc, latest, retired, claim, pic, wslot, last, seq, buffered, ordered, reader>>

Announce ==
    /\ wpc = "announce"
    /\ latest' = [seq |-> seq, slot |-> wslot]
    /\ last' = wslot
    /\ wpc' = "idle"
    /\ UNCHANGED <<lock, lo, hi, desc, retired, claim, pic, wslot, seq, buffered, ordered, reader>>

\* engine_qcb._regrow, stop: FrameRing.close.
Retire ==
    /\ wpc = "idle" /\ ~retired
    /\ retired' = TRUE
    /\ UNCHANGED <<lock, lo, hi, desc, latest, claim, writer, reader>>

-----------------------------------------------------------------------------
(* The helper's loop, load by load                                         *)

\* A frame that is not the last one taken; the cursor moves only when it
\* has been copied whole.
Poll ==
    /\ rpc = "poll" /\ ~retired /\ latest.seq # cursor
    /\ got' = latest
    /\ rpc' = "claim"
    /\ UNCHANGED <<shared, claim, writer, before, copy, cursor, session, tex, inFlight, shown, crashes, fails>>

\* Exit 7: the pixel path respawns the helper on the next ring.
Exit ==
    /\ rpc = "poll" /\ retired
    /\ rpc' = "gone"
    /\ UNCHANGED <<shared, claim, writer, got, before, copy, cursor, session, tex, inFlight, shown, crashes, fails>>

Claim ==
    /\ rpc = "claim"
    /\ claim' = got.slot + 1
    /\ rpc' = "check"
    /\ UNCHANGED <<shared, writer, got, before, copy, cursor, session, tex, inFlight, shown, crashes, fails>>

\* (A wrong check: an odd seqlock is taken for any other.)
CheckAny ==
    /\ rpc = "check"
    /\ before' = lock[got.slot]
    /\ rpc' = "desc"
    /\ UNCHANGED <<shared, claim, writer, got, copy, cursor, session, tex, inFlight, shown, crashes, fails>>

\* Writer inside: let go and come back for this frame.
Check ==
    /\ rpc = "check"
    /\ before' = lock[got.slot]
    /\ IF Odd(lock[got.slot]) THEN rpc' = "poll" /\ claim' = 0
                              ELSE rpc' = "desc" /\ UNCHANGED claim
    /\ UNCHANGED <<shared, writer, got, copy, cursor, session, tex, inFlight, shown, crashes, fails>>

\* What a fresh process starts with.
Respawn ==
    /\ rpc' = "poll" /\ cursor' = 0 /\ session' = NoSize /\ tex' = NoTex /\ inFlight' = 0
    /\ UNCHANGED <<got, before, copy, shown>>

\* The first frame's size makes the session; exit 8 on another size.
ReadDesc ==
    /\ rpc = "desc"
    /\ \/ /\ session \in {NoSize, desc[got.slot]}
          /\ session' = desc[got.slot]
          /\ rpc' = "lo"
          /\ UNCHANGED <<claim, got, before, copy, cursor, tex, inFlight, shown>>
       \/ /\ session \notin {NoSize, desc[got.slot]}
          /\ claim' = 0
          /\ Respawn
    /\ UNCHANGED <<shared, writer, crashes, fails>>

CopyLo ==
    /\ rpc = "lo"
    /\ copy' = [copy EXCEPT !.lo = lo[got.slot]]
    /\ rpc' = "hi"
    /\ UNCHANGED <<shared, claim, writer, got, before, cursor, session, tex, inFlight, shown, crashes, fails>>

CopyHi ==
    /\ rpc = "hi"
    /\ copy' = [lo |-> copy.lo, hi |-> hi[got.slot], size |-> session]
    /\ rpc' = "verify"
    /\ UNCHANGED <<shared, claim, writer, got, before, cursor, session, tex, inFlight, shown, crashes, fails>>

\* A full encoder drops the submission, not the picture.
Submit(t) ==
    IF inFlight < InFlight THEN inFlight' = inFlight + 1 /\ shown' = t
                           ELSE UNCHANGED <<inFlight, shown>>

\* (A wrong drop: a full encoder loses the picture too.)
VerifyDrops ==
    /\ rpc = "verify"
    /\ claim' = 0
    /\ rpc' = "poll"
    /\ IF lock[got.slot] = before
       THEN /\ cursor' = got.seq /\ Submit(copy)
            /\ tex' = IF inFlight < InFlight THEN copy ELSE tex
       ELSE UNCHANGED <<cursor, tex, inFlight, shown>>
    /\ UNCHANGED <<shared, writer, got, before, copy, session, crashes, fails>>

\* The seqlock again, then the release: overwritten mid-copy is a retry.
Verify ==
    /\ rpc = "verify"
    /\ claim' = 0
    /\ rpc' = "poll"
    /\ IF lock[got.slot] = before
       THEN cursor' = got.seq /\ tex' = copy /\ Submit(copy)
       ELSE UNCHANGED <<cursor, tex, inFlight, shown>>
    /\ UNCHANGED <<shared, writer, got, before, copy, session, crashes, fails>>

\* The conversion failed: the frame counts as taken and nothing is shown.
ConvertFails ==
    /\ rpc = "verify" /\ crashes + fails < MaxFaults
    /\ fails' = fails + 1
    /\ claim' = 0
    /\ rpc' = "poll"
    /\ cursor' = got.seq
    /\ UNCHANGED <<shared, writer, got, before, copy, session, tex, inFlight, shown, crashes>>

\* Nothing new for a while: the last picture again.
Resend ==
    /\ rpc = "poll" /\ tex # NoTex /\ inFlight < InFlight
    /\ Submit(tex)
    /\ UNCHANGED <<shared, claim, writer, rpc, got, before, copy, cursor, session, tex, crashes, fails>>

\* encode_loop: an access unit is out, or the encoder refused the sample.
Encoded ==
    /\ inFlight > 0
    /\ inFlight' = inFlight - 1
    /\ UNCHANGED <<shared, claim, writer, rpc, got, before, copy, cursor, session, tex, shown, crashes, fails>>

\* The helper dies anywhere and is respawned; its claim stays in the block.
Crash ==
    /\ crashes + fails < MaxFaults /\ rpc # "gone"
    /\ crashes' = crashes + 1
    /\ Respawn
    /\ UNCHANGED <<shared, claim, writer, fails>>

-----------------------------------------------------------------------------
Publish == Enter \/ WriteLo \/ WriteHi \/ Describe \/ Leave \/ Announce
ReadFrame == Poll \/ Exit \/ Claim \/ Check \/ ReadDesc \/ CopyLo \/ CopyHi \/ Verify

Next ==
    \/ \E size \in Sizes : Choose(size)
    \/ Publish \/ Abort \/ Retire
    \/ \E b \in buffered : Drain(b)
    \/ ReadFrame \/ ConvertFails \/ Resend \/ Encoded \/ Crash

Spec == Init /\ [][Next]_vars

\* A publish that has begun goes on, the helper's loop spins and the
\* encoder returns what it took.  Nothing is assumed of when pictures come.
FairSpec ==
    /\ Spec
    /\ WF_vars(Publish) /\ WF_vars(ReadFrame) /\ WF_vars(Resend) /\ WF_vars(Encoded)
    /\ WF_vars(\E b \in buffered : Drain(b))

-----------------------------------------------------------------------------
(* Properties                                                              *)

\* Every variable keeps its type.
TypeOK ==
    /\ lock \in [Slot -> Nat] /\ lo \in [Slot -> Picture] /\ hi \in [Slot -> Picture]
    /\ desc \in [Slot -> Sizes] /\ latest \in [seq : Nat, slot : Slot]
    /\ claim \in 0..Slots /\ retired \in BOOLEAN
    /\ wpc \in {"idle", "enter", "lo", "hi", "desc", "leave", "announce"}
    /\ pic \in Picture /\ wslot \in Slot /\ last \in Slot /\ seq \in Nat
    /\ ordered \in BOOLEAN /\ buffered \in SUBSET [at : {"lo", "hi"}, slot : Slot, pic : Picture]
    /\ rpc \in {"poll", "claim", "check", "desc", "lo", "hi", "verify", "gone"}
    /\ got \in [seq : Nat, slot : Slot] /\ before \in Nat
    /\ copy \in Texture /\ tex \in Texture /\ shown \in Texture
    /\ cursor \in Nat /\ session \in Sizes \cup {NoSize}
    /\ inFlight \in 0..InFlight /\ crashes \in Nat /\ fails \in Nat

\* A torn frame is impossible: what the helper takes over as a picture is
\* one picture, whole, at the size it was published with, however the
\* writer's stores and the helper's copy interleave (publish, ring_loop).
\* It takes stores that become visible in program order: the writer has no
\* barrier between the pixels and the seqlock.
NoTornFrame == ordered => tex.lo = tex.hi /\ tex.size = tex.lo.size

\* The writer is never inside the slot that `latest` names: the newest
\* picture stays readable until the next one is out (next_slot).
NewestIntact == wpc \notin {"idle", "announce"} /\ latest.seq > 0 => wslot # latest.slot

\* The helper has claimed the slot and has not let go.
Held == rpc \in {"check", "desc", "lo", "hi", "verify"}

\* A claim shields a copy: once the helper holds a slot no publish is given
\* it, so at most the one chosen before the claim can run over the copy and
\* a fast producer cannot starve the helper (reader_claim, next_slot).
ClaimShields == [][Held /\ wpc = "idle" /\ wpc' = "enter" => wslot' # got.slot]_vars

\* A still scene's only new frame is shown: when the producer stops, the
\* helper ends up showing the newest published picture, whatever retries,
\* encoder drops, size changes and deaths came before (ring_loop's cursor,
\* the idle re-send).  A conversion that fails is the exception: it loses
\* its frame; so is a machine where a stale copy passes for the frame.
NewestShown ==
    <>[](retired \/ latest.seq = 0 \/ ~ordered \/ fails > 0 \/ (shown.lo = lo[latest.slot] /\ shown.hi = hi[latest.slot]))
=============================================================================
