-------------------------- MODULE FrameRing_proofs --------------------------
(***************************************************************************)
(* FrameRing for every number of slots, sizes, pictures and crashes.       *)
(***************************************************************************)
EXTENDS FrameRing, TLAPS

-----------------------------------------------------------------------------
(* next_slot and the parity of a seqlock                                   *)

\* next_slot names a slot of the ring, never the last one written and never
\* the one the reader holds.
LEMMA NextSlotProps ==
    ASSUME NEW from \in Slot, NEW held \in 0..Slots
    PROVE  /\ NextSlot(from, held) \in Slot
           /\ NextSlot(from, held) # from
           /\ NextSlot(from, held) + 1 # held
BY RingAssumption DEF NextSlot, Succ, Slot

\* Entering an even slot makes it odd, leaving an odd one makes it even.
LEMMA Parity ==
    ASSUME NEW n \in Nat
    PROVE  Odd(n) <=> ~Odd(n + 1)
BY DEF Odd

-----------------------------------------------------------------------------
(* Types and places                                                        *)

\* The writer is not in the slot it wrote last, which is the one `latest`
\* names; the helper's claim is on the slot it is looking at, and it copies
\* only inside a session.
Places ==
    /\ latest.seq > 0 => latest.slot = last
    /\ wpc # "idle" => wslot # last
    /\ Held => claim = got.slot + 1
    /\ rpc \in {"lo", "hi"} => session \in Sizes

Inv1 == TypeOK /\ Places

\* A fresh ring has the types and the places right.
LEMMA InitInv1 == Init => Inv1
<1> SUFFICES ASSUME Init PROVE Inv1
    OBVIOUS
<1> USE RingAssumption
<1>1. NoPic \in Picture /\ NoTex \in Texture /\ NoPic.size \in Sizes
    BY DEF NoPic, NoTex, Picture, Texture
<1>2. 0 \in Slot /\ Slots - 1 \in Slot /\ 0 \in 0..Slots /\ 0 \in 0..InFlight
    BY DEF Slot
<1>3. latest = [seq |-> 0, slot |-> 0] /\ latest \in [seq : Nat, slot : Slot]
    BY <1>2 DEF Init
<1>4. retired \in BOOLEAN
    BY Zenon DEF Init
<1>5. TypeOK
    BY <1>1, <1>2, <1>3, <1>4 DEF Init, TypeOK
<1>6. Places
    BY <1>3 DEF Init, Places, Held
<1> QED
    BY <1>5, <1>6 DEF Inv1

\* Every step keeps them.
LEMMA NextInv1 == Inv1 /\ [Next]_vars => Inv1'
<1> SUFFICES ASSUME Inv1, [Next]_vars PROVE Inv1'
    OBVIOUS
<1> USE RingAssumption DEF Inv1
<1>0. CASE UNCHANGED vars
    BY <1>0 DEF vars, shared, writer, reader, TypeOK, Places, Held
<1>1. ASSUME NEW size \in Sizes, Choose(size) PROVE Inv1'
  <2>1. /\ wslot' = NextSlot(last, claim) /\ last \in Slot /\ claim \in 0..Slots
        /\ pic' = [id |-> pic.id + 1, size |-> size]
      BY <1>1 DEF Choose, TypeOK
  <2>2. wslot' \in Slot /\ wslot' # last
      BY <2>1, NextSlotProps
  <2>3. pic' \in Picture
      BY <2>1 DEF TypeOK, Picture
  <2>4. /\ wpc' = "enter"
        /\ UNCHANGED <<shared, claim, last, seq, buffered, ordered, reader>>
      BY <1>1, Zenon DEF Choose
  <2> QED
      BY <2>2, <2>3, <2>4 DEF shared, reader, TypeOK, Places, Held
<1>2. CASE Enter
    BY <1>2 DEF Enter, shared, writer, reader, TypeOK, Places, Held
<1>3. CASE Abort
    BY <1>3 DEF Abort, shared, writer, reader, TypeOK, Places, Held
<1>4. CASE Describe
    BY <1>4 DEF Describe, Picture, shared, writer, reader, TypeOK, Places, Held
<1>5. CASE Leave
    BY <1>5 DEF Leave, shared, writer, reader, TypeOK, Places, Held
<1>6. CASE Announce
    BY <1>6 DEF Announce, shared, writer, reader, TypeOK, Places, Held
<1>7. CASE Retire
    BY <1>7 DEF Retire, shared, writer, reader, TypeOK, Places, Held
<1>8. CASE Poll
    BY <1>8 DEF Poll, shared, writer, reader, TypeOK, Places, Held
<1>9. CASE Exit
    BY <1>9 DEF Exit, shared, writer, reader, TypeOK, Places, Held
<1>10. CASE Claim
    BY <1>10, SMTT(30) DEF Claim, Slot, shared, writer, reader, TypeOK, Places, Held
<1>11. CASE Check
    BY <1>11 DEF Check, shared, writer, reader, TypeOK, Places, Held
<1>12. CASE CopyLo
    BY <1>12 DEF CopyLo, shared, writer, reader, TypeOK, Places, Held, NoTex, NoPic, Texture, Picture
<1>13. CASE CopyHi
    BY <1>13 DEF CopyHi, shared, writer, reader, TypeOK, Places, Held, NoTex, NoPic, Texture, Picture
<1>14. CASE Encoded
    BY <1>14 DEF Encoded, shared, writer, reader, TypeOK, Places, Held
<1>15. CASE Crash
    BY <1>15 DEF Crash, shared, writer, reader, TypeOK, Places, Held, Respawn, NoTex, NoPic, Texture, Picture
<1>16. CASE WriteLo
    BY <1>16 DEF WriteLo, Store, TypeOK, Places, Held, reader
<1>17. CASE WriteHi
    BY <1>17 DEF WriteHi, Store, TypeOK, Places, Held, reader
<1>18. ASSUME NEW b \in buffered, Drain(b) PROVE Inv1'
    BY <1>18 DEF Drain, TypeOK, Places, Held, reader
<1>19. CASE ReadDesc
    BY <1>19 DEF ReadDesc, Respawn, shared, writer, TypeOK, Places, Held, NoTex, NoPic, Texture, Picture
<1>20. CASE Verify
    BY <1>20 DEF Verify, Submit, shared, writer, TypeOK, Places, Held
<1>21. CASE Resend
    BY <1>21 DEF Resend, Submit, shared, writer, TypeOK, Places, Held
<1>22. CASE ConvertFails
    BY <1>22 DEF ConvertFails, shared, writer, TypeOK, Places, Held
<1> QED
    BY <1>0, <1>1, <1>2, <1>3, <1>4, <1>5, <1>6, <1>7, <1>8, <1>9, <1>10, <1>11, <1>12, <1>13, <1>14, <1>15, <1>16, <1>17, <1>18, <1>19, <1>20, <1>21, <1>22
    DEF Next, Publish, ReadFrame

\* The types and the places hold throughout.
THEOREM SpecInv1 == Spec => []Inv1
BY InitInv1, NextInv1, PTL DEF Spec

\* Every variable of the ring, the writer and the helper keeps its type.
THEOREM RingTypes == Spec => []TypeOK
<1>1. Inv1 => TypeOK
    BY DEF Inv1
<1> QED
    BY SpecInv1, <1>1, PTL

\* With three slots or more the writer never enters the slot that `latest`
\* names (next_slot, publish).
THEOREM NewestStaysIntact == Spec => []NewestIntact
<1>1. Inv1 => NewestIntact
    BY DEF Inv1, Places, NewestIntact
<1> QED
    BY SpecInv1, <1>1, PTL

\* No publish that begins after the helper's claim is given the claimed
\* slot (next_slot, ring_loop).
THEOREM ClaimsShield == Spec => ClaimShields
<1> DEFINE Shield == Held /\ wpc = "idle" /\ wpc' = "enter" => wslot' # got.slot
<1>1. Inv1 /\ [Next]_vars => [Shield]_vars
  <2> SUFFICES ASSUME Inv1, Next, Held, wpc = "idle", wpc' = "enter" PROVE wslot' # got.slot
      OBVIOUS
  <2>1. PICK size \in Sizes : Choose(size)
      BY DEF Next, Publish, ReadFrame, Enter, WriteLo, WriteHi, Describe, Leave, Announce, Abort,
             Retire, Drain, Poll, Exit, Claim, Check, ReadDesc, CopyLo, CopyHi, Verify, Resend,
             Encoded, ConvertFails, Crash, writer
  <2>2. wslot' = NextSlot(last, claim) /\ claim = got.slot + 1 /\ last \in Slot /\ claim \in 0..Slots
      BY <2>1 DEF Choose, Inv1, Places, TypeOK
  <2>3. wslot' \in Slot /\ wslot' + 1 # got.slot + 1 /\ got.slot \in Slot
      BY <2>2, NextSlotProps DEF Inv1, TypeOK
  <2> QED
      BY <2>3
<1> QED
    BY SpecInv1, <1>1, PTL DEF Spec, ClaimShields

-----------------------------------------------------------------------------
(* Whole pictures                                                          *)

\* With stores in order: an even slot holds one picture whole; the writer is
\* inside an odd slot and how far it has come shows in the pixels; what the
\* helper has copied of a slot whose seqlock has not moved is what is there.
Pixels ==
    /\ \A s \in Slot : ~Odd(lock[s]) => lo[s] = hi[s] /\ desc[s] = lo[s].size
    /\ wpc \in {"lo", "hi", "desc", "leave"} => Odd(lock[wslot])
    /\ wpc \in {"hi", "desc", "leave"} => lo[wslot] = pic
    /\ wpc \in {"desc", "leave"} => hi[wslot] = pic
    /\ wpc = "leave" => desc[wslot] = pic.size
    /\ rpc \in {"desc", "lo", "hi", "verify"} => ~Odd(before) /\ before <= lock[got.slot]
    /\ lock[got.slot] = before =>
         /\ rpc \in {"lo", "hi"} => session = desc[got.slot]
         /\ rpc \in {"hi", "verify"} => copy.lo = lo[got.slot]
         /\ rpc = "verify" => copy.hi = hi[got.slot] /\ copy.size = desc[got.slot]
    /\ buffered = {}
    /\ NoTornFrame

\* A fresh ring is whole.
LEMMA InitPixels == Init => Pixels
BY RingAssumption DEF Init, Pixels, NoTornFrame, NoTex, NoPic, Slot, Odd

\* Every step keeps the pictures whole when stores are in order.
LEMMA NextPixels ==
    ASSUME ordered, Inv1, Pixels, [Next]_vars
    PROVE  Pixels'
<1> USE DEF Inv1
<1>t. /\ lock \in [Slot -> Nat] /\ lo \in [Slot -> Picture] /\ hi \in [Slot -> Picture]
      /\ desc \in [Slot -> Sizes] /\ wslot \in Slot /\ got.slot \in Slot /\ before \in Nat
      /\ lock[got.slot] \in Nat /\ lock[wslot] \in Nat
    BY DEF TypeOK
<1>0. CASE UNCHANGED vars
    BY <1>0 DEF vars, shared, writer, reader, Pixels, NoTornFrame
<1>1. ASSUME NEW size \in Sizes, Choose(size) PROVE Pixels'
  <2>1. wpc' = "enter" /\ UNCHANGED <<shared, buffered, ordered, reader>>
      BY <1>1, Zenon DEF Choose
  <2> QED
      BY <2>1 DEF shared, reader, Pixels, NoTornFrame
<1>2. CASE Abort
    BY <1>2, <1>t DEF Abort, shared, writer, reader, Pixels, NoTornFrame
<1>3. CASE Retire
    BY <1>3, <1>t DEF Retire, shared, writer, reader, Pixels, NoTornFrame
<1>4. CASE Poll
    BY <1>4, <1>t DEF Poll, shared, writer, reader, Pixels, NoTornFrame
<1>5. CASE Exit
    BY <1>5, <1>t DEF Exit, shared, writer, reader, Pixels, NoTornFrame
<1>6. CASE Claim
    BY <1>6, <1>t DEF Claim, shared, writer, reader, Pixels, NoTornFrame
<1>7. CASE CopyLo
    BY <1>7, <1>t DEF CopyLo, shared, writer, reader, Pixels, NoTornFrame
<1>8. CASE CopyHi
    BY <1>8, <1>t DEF CopyHi, shared, writer, reader, Pixels, NoTornFrame
<1>9. CASE Encoded
    BY <1>9, <1>t DEF Encoded, shared, writer, reader, Pixels, NoTornFrame
<1>10. CASE Crash
    BY <1>10, <1>t DEF Crash, Respawn, NoTex, NoPic, shared, writer, reader, Pixels, NoTornFrame
<1>11. CASE ReadDesc
  <2>1. UNCHANGED <<shared, writer, got, before, copy>>
      BY <1>11, Zenon DEF ReadDesc, Respawn
  <2>2. \/ rpc' = "poll" /\ tex' = NoTex
        \/ rpc = "desc" /\ rpc' = "lo" /\ tex' = tex /\ session' = desc[got.slot]
      BY <1>11, Zenon DEF ReadDesc, Respawn
  <2>3. CASE rpc' = "poll" /\ tex' = NoTex
      BY <2>1, <2>3, <1>t DEF NoTex, NoPic, shared, writer, Pixels, NoTornFrame
  <2>4. CASE rpc = "desc" /\ rpc' = "lo" /\ tex' = tex /\ session' = desc[got.slot]
      BY <2>1, <2>4, <1>t DEF shared, writer, Pixels, NoTornFrame
  <2> QED
      BY <2>3, <2>4, <2>2
<1>12. CASE Check
    BY <1>12, <1>t DEF Check, shared, writer, reader, Pixels, NoTornFrame
<1>13. CASE Verify
    BY <1>13, <1>t DEF Verify, Submit, shared, writer, reader, Pixels, NoTornFrame
<1>14. CASE Resend
    BY <1>14, <1>t DEF Resend, Submit, shared, writer, reader, Pixels, NoTornFrame
<1>15. CASE Announce
    BY <1>15, <1>t DEF Announce, shared, writer, reader, Pixels, NoTornFrame
<1>16. CASE Enter
  <2>1. /\ wpc' = "lo" /\ lock' = [lock EXCEPT ![wslot] = IF Odd(@) THEN @ ELSE @ + 1]
        /\ UNCHANGED <<lo, hi, desc, wslot, pic, buffered, ordered, reader>>
      BY <1>16 DEF Enter
  <2>2. Odd(lock'[wslot]) /\ lock'[wslot] >= lock[wslot]
        /\ (~Odd(lock[wslot]) => lock'[wslot] = lock[wslot] + 1)
        /\ (Odd(lock[wslot]) => lock'[wslot] = lock[wslot])
      BY <2>1, <1>t, Parity
  <2>3. \A s \in Slot : s # wslot => lock'[s] = lock[s]
      BY <2>1, <1>t
  <2> QED
      BY <2>1, <2>2, <2>3, <1>t DEF reader, Pixels, NoTornFrame
<1>17. CASE Leave
  <2>1. /\ wpc = "leave" /\ wpc' = "announce" /\ lock' = [lock EXCEPT ![wslot] = @ + 1]
        /\ UNCHANGED <<lo, hi, desc, wslot, pic, buffered, ordered, reader>>
      BY <1>17 DEF Leave
  <2>2. lock'[wslot] = lock[wslot] + 1 /\ \A s \in Slot : s # wslot => lock'[s] = lock[s]
      BY <2>1, <1>t
  <2> QED
      BY <2>1, <2>2, <1>t DEF reader, Pixels, NoTornFrame
<1>18. CASE WriteLo
  <2>1. /\ wpc = "lo" /\ wpc' = "hi" /\ lo' = [lo EXCEPT ![wslot] = pic]
        /\ UNCHANGED <<lock, hi, desc, wslot, pic, buffered, ordered, reader>>
      BY <1>18 DEF WriteLo, Store
  <2>2. lo'[wslot] = pic /\ \A s \in Slot : s # wslot => lo'[s] = lo[s]
      BY <2>1, <1>t
  <2> QED
      BY <2>1, <2>2, <1>t DEF reader, Pixels, NoTornFrame
<1>19. CASE WriteHi
  <2>1. /\ wpc = "hi" /\ wpc' = "desc" /\ hi' = [hi EXCEPT ![wslot] = pic]
        /\ UNCHANGED <<lock, lo, desc, wslot, pic, buffered, ordered, reader>>
      BY <1>19 DEF WriteHi, Store
  <2>2. hi'[wslot] = pic /\ \A s \in Slot : s # wslot => hi'[s] = hi[s]
      BY <2>1, <1>t
  <2> QED
      BY <2>1, <2>2, <1>t DEF reader, Pixels, NoTornFrame
<1>20. CASE Describe
  <2>1. /\ wpc = "desc" /\ wpc' = "leave" /\ desc' = [desc EXCEPT ![wslot] = pic.size]
        /\ UNCHANGED <<lock, lo, hi, wslot, pic, buffered, ordered, reader>>
      BY <1>20 DEF Describe
  <2>2. desc'[wslot] = pic.size /\ \A s \in Slot : s # wslot => desc'[s] = desc[s]
      BY <2>1, <1>t
  <2> QED
      BY <2>1, <2>2, <1>t DEF reader, Pixels, NoTornFrame
<1>21. ~\E b \in buffered : Drain(b)
    BY DEF Pixels
<1>22. CASE ConvertFails
    BY <1>22, <1>t DEF ConvertFails, shared, writer, Pixels, NoTornFrame
<1> QED
    BY <1>0, <1>1, <1>2, <1>3, <1>4, <1>5, <1>6, <1>7, <1>8, <1>9, <1>10, <1>11, <1>12, <1>13, <1>14, <1>15, <1>16, <1>17, <1>18, <1>19, <1>20, <1>21, <1>22
    DEF Next, Publish, ReadFrame

\* No step turns one kind of machine into the other.
LEMMA OrderStays == [Next]_vars => ordered' = ordered
BY DEF Next, Publish, ReadFrame, Choose, Enter, WriteLo, WriteHi, Describe, Leave, Announce, Abort,
       Retire, Drain, Poll, Exit, Claim, Check, ReadDesc, CopyLo, CopyHi, Verify, Resend,
       Encoded, ConvertFails, Crash, writer, vars

\* A torn frame is impossible wherever the writer's stores become visible in
\* program order (publish's two seqlock stores, ring_loop's two loads).
THEOREM FramesWhole == Spec => []NoTornFrame
<1> DEFINE Whole == ordered => Pixels
<1>1. Init => Whole
    BY InitPixels
<1>2. Inv1 /\ Whole /\ [Next]_vars => Whole'
  <2> SUFFICES ASSUME Inv1, Whole, [Next]_vars, ordered' PROVE Pixels'
      OBVIOUS
  <2>1. ordered
      BY OrderStays
  <2> QED
      BY <2>1, NextPixels
<1>3. Whole => NoTornFrame
    BY DEF Pixels, NoTornFrame
<1> QED
    BY SpecInv1, <1>1, <1>2, <1>3, PTL DEF Spec
=============================================================================
