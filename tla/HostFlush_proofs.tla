-------------------------- MODULE HostFlush_proofs --------------------------
(* No delta makes the replica's scene name a world it was never sent, for  *)
(* any datablocks, chunks and budgets, any number of edits and files, and  *)
(* all that Unusual lists: TargetsKnown needs none of those restrictions.  *)
(* Without them (Allowed = {}) no edit is forgotten: NothingForgotten,     *)
(* from what every place of HostSync holds of a datablock (Accounted).     *)
EXTENDS HostFlush, TLAPS

Block == [alive : BOOLEAN, used : BOOLEAN, light : Values, heavy : Values, swept : Values, ptr : BOOLEAN]

\* A world or a scene is never deleted, and a world that a scene points at has a user.
SceneOK(s) ==
    /\ s \in [D -> Block]
    /\ \A u \in Scenes \union Worlds : s[u].alive
    /\ \A u \in Scenes : s[u].ptr => \A w \in Worlds : s[w].used

\* With the pointer of a scene, the world it names.
Closed(f) == \A s \in Scenes : f[s] # None /\ f[s].ptr => \A w \in Worlds : f[w] # None

Keys == {"pc", "reg", "shadow", "dirty", "shipped", "box", "boot", "rep"}

\* What HostSync holds of the replica: the file under way and the replica are
\* closed, and what counts as shipped is in the one or on the other.  A file
\* goes between ticks; no blob of a scene does; no world has a tombstone.
HostOK(y) ==
    /\ Keys \subseteq DOMAIN y
    /\ y.rep \in File /\ y.shadow \in File /\ y.box \in [D -> Box \union {None}] /\ y.dirty \in [D -> Int]
    /\ \A s \in Scenes : y.box[s] = None
    /\ \A w \in Worlds : y.dirty[w] # Tomb
    /\ Closed(y.rep)
    /\ y.boot = None => \A w \in Worlds : w \in y.shipped => y.rep[w] # None
    /\ y.boot # None => /\ y.pc = "idle" /\ y.boot \in Boot /\ Closed(y.boot.file)
                        /\ \A w \in Worlds : w \in y.shipped => y.boot.file[w] # None

Counts == used \in [edit : 0..MaxEdits, boot : 0..MaxBoots]

Inv == SceneOK(scene) /\ HostOK(x) /\ Counts

-----------------------------------------------------------------------------
(* The operators on HostSync.                                              *)

\* The kinds of datablocks are apart.
LEMMA Parts == /\ Scenes \subseteq D /\ Worlds \subseteq D /\ Scenes \cap Worlds = {}
               /\ \A u \in Meshes \union Objects : u \notin Scenes \union Worlds
               /\ MaxEdits \in Nat /\ MaxBoots \in Nat /\ Chunks \in Nat \ {0}
               /\ \A v, w \in Worlds : v = w
BY FlushAssumption DEF FlushAssumption, D

\* A snapshot carries the pointer of its datablock.
LEMMA SnapshotOf == ASSUME NEW s, SceneOK(s), NEW u \in D PROVE BuildSnapshot(s, u) \in Snapshot /\ BuildSnapshot(s, u).ptr = s[u].ptr
BY DEF SceneOK, Block, BuildSnapshot, Snapshot

\* So does one taken now.
LEMMA SnapshotNow == ASSUME SceneOK(scene), NEW u \in D PROVE Now(u) \in Snapshot /\ Now(u).ptr = scene[u].ptr /\ Now(u) # None
BY SnapshotOf, NoneAssumption DEF Now, NoneAssumption

\* A step that leaves the file, the boxes and the replica alone.
LEMMA Kept ==
    ASSUME NEW y, HostOK(y), NEW z, Keys \subseteq DOMAIN z,
           z.rep = y.rep, z.box = y.box, z.boot = y.boot, z.shipped = y.shipped,
           z.boot # None => z.pc = "idle",
           z.shadow \in File, z.dirty \in [D -> Int], \A w \in Worlds : z.dirty[w] # Tomb
    PROVE  HostOK(z)
BY DEF HostOK

\* A dirty mark never becomes a tombstone.
LEMMA RatchetOK == \A d \in Int, t \in 0..2 : Ratchet(d, t) \in Int /\ (d # Tomb => Ratchet(d, t) # Tomb)
BY DEF Ratchet, Tomb

\* DirtySet.mark.
LEMMA MarkOK == ASSUME NEW y, HostOK(y), NEW u \in D, NEW t \in 0..2
                PROVE  LET z == Mark(y, u, t) IN
                       HostOK(z) /\ z.pc = y.pc /\ z.boot = y.boot /\ z.reg = y.reg /\ z.rep = y.rep
<1> DEFINE z == Mark(y, u, t)
           e == Ratchet(y.dirty[u], t)
<1>1. Keys \subseteq DOMAIN y /\ y.dirty \in [D -> Int] /\ \A w \in Worlds : y.dirty[w] # Tomb
    BY DEF HostOK
<1>2. e \in Int /\ (u \in Worlds => e # Tomb)
    BY <1>1, RatchetOK
<1> HIDE DEF e
<1>3. z = [y EXCEPT !.dirty = [y.dirty EXCEPT ![u] = e]]
    BY DEF Mark, e
<1> HIDE DEF z
<1>4. /\ Keys \subseteq DOMAIN z /\ z.rep = y.rep /\ z.box = y.box /\ z.boot = y.boot /\ z.shipped = y.shipped
      /\ z.pc = y.pc /\ z.reg = y.reg /\ z.shadow = y.shadow /\ z.dirty = [y.dirty EXCEPT ![u] = e]
    BY <1>1, <1>3 DEF Keys
<1>5. z.dirty \in [D -> Int] /\ \A w \in Worlds : z.dirty[w] # Tomb
    BY <1>1, <1>2, <1>4, Parts
<1>6. HostOK(z)
    BY <1>4, <1>5, Kept DEF HostOK
<1> QED
    BY <1>4, <1>6 DEF z

\* A datablock's blob, with the pointer's target it may be.
LEMMA DeliveredOK ==
    ASSUME NEW y, HostOK(y), y.boot = None, NEW u \in D \ Scenes, NEW v \in Snapshot
    PROVE  LET z == Delivered(y, u, v) IN
           HostOK(z) /\ z.pc = y.pc /\ z.boot = None /\ z.rep[u] = v /\ z.rep[u] # None /\ z.box[u] = None
<1> DEFINE z == Delivered(y, u, v)
<1>1. /\ Keys \subseteq DOMAIN y /\ y.dirty \in [D -> Int] /\ (\A w \in Worlds : y.dirty[w] # Tomb)
      /\ y.rep \in File /\ y.shadow \in File /\ y.box \in [D -> Box \union {None}] /\ (\A s \in Scenes : y.box[s] = None)
      /\ Closed(y.rep) /\ \A w \in Worlds : w \in y.shipped => y.rep[w] # None
    BY DEF HostOK
<1>2. /\ Keys \subseteq DOMAIN z /\ z.pc = y.pc /\ z.boot = None /\ z.dirty = y.dirty /\ z.shadow = y.shadow
      /\ z.box = [y.box EXCEPT ![u] = None] /\ z.shipped = y.shipped \union {u} /\ z.rep = [y.rep EXCEPT ![u] = v]
    BY <1>1 DEF Keys, Delivered
<1> HIDE DEF z
<1>3. v # None
    BY NoneAssumption DEF NoneAssumption
<1>4. z.rep \in File /\ z.box \in [D -> Box \union {None}] /\ (\A s \in Scenes : z.box[s] = None)
    BY <1>1, <1>2, Parts DEF File
<1>5. /\ z.rep[u] = v /\ z.box[u] = None /\ (\A d \in D \ {u} : z.rep[d] = y.rep[d])
    BY <1>1, <1>2 DEF File
<1>6. Closed(z.rep) /\ \A w \in Worlds : w \in z.shipped => z.rep[w] # None
    BY <1>1, <1>2, <1>3, <1>5, Parts DEF Closed
<1>7. HostOK(z)
    BY <1>1, <1>2, <1>4, <1>6 DEF HostOK
<1> QED
    BY <1>2, <1>3, <1>5, <1>7 DEF z

\* _flush_t2: afterwards a world is shipped or its blob is in its box.
LEMMA FlushT2OK ==
    ASSUME SceneOK(scene), NEW y, HostOK(y), y.boot = None, NEW u \in D, NEW left \in 0..Chunks
    PROVE  LET z == FlushT2(y, u, left) IN
           /\ HostOK(z) /\ z.pc = y.pc /\ z.boot = None
           /\ u \in Worlds /\ u \in y.reg => z.rep[u] # None \/ z.box[u] # None
<1> DEFINE z == FlushT2(y, u, left)
           t == [y EXCEPT !.shadow[u] = IF u \in Tracked THEN Now(u) ELSE @]
           h == [t EXCEPT !.hash[u] = BlobDigest(u)]
           b == [left |-> left, val |-> Now(u)]
           q == [h EXCEPT !.box[u] = b]
<1>1. /\ Keys \subseteq DOMAIN y /\ y.dirty \in [D -> Int] /\ (\A w \in Worlds : y.dirty[w] # Tomb)
      /\ y.box \in [D -> Box \union {None}] /\ (\A s \in Scenes : y.box[s] = None) /\ y.shadow \in File
      /\ \A w \in Worlds : w \in y.shipped => y.rep[w] # None
    BY DEF HostOK
<1>2. /\ Keys \subseteq DOMAIN t /\ t.pc = y.pc /\ t.boot = None /\ t.dirty = y.dirty /\ t.rep = y.rep
      /\ t.box = y.box /\ t.shipped = y.shipped /\ t.reg = y.reg
      /\ t.shadow = [y.shadow EXCEPT ![u] = IF u \in Tracked THEN Now(u) ELSE @]
    BY <1>1 DEF Keys
<1>3. t.shadow \in File
    BY <1>1, <1>2, SnapshotNow DEF File
<1>4. /\ Keys \subseteq DOMAIN h /\ h.pc = y.pc /\ h.boot = None /\ h.dirty = y.dirty /\ h.rep = y.rep
      /\ h.box = y.box /\ h.shipped = y.shipped /\ h.reg = y.reg /\ h.shadow = t.shadow
  <2> HIDE DEF t
  <2> QED
      BY <1>2 DEF Keys
<1>5. HostOK(t) /\ HostOK(h)
  <2> HIDE DEF t, h
  <2> QED
      BY <1>1, <1>2, <1>3, <1>4, Kept
<1>6. Now(u) \in Snapshot /\ Now(u) # None
    BY SnapshotNow
<1>7. CASE ~Seen(y, u)
  <2>1. z = y
      BY <1>7 DEF FlushT2
  <2>2. u \in Worlds => u \notin y.reg
      BY <1>7, Parts DEF Seen, SceneOK
  <2> QED
      BY <2>1, <2>2
<1>8. CASE Seen(y, u) /\ u \in Scenes
  <2>1. z = [y EXCEPT !.auto = TRUE]
      BY <1>8 DEF FlushT2
  <2>2. /\ Keys \subseteq DOMAIN z /\ z.pc = y.pc /\ z.boot = None /\ z.dirty = y.dirty /\ z.rep = y.rep
        /\ z.box = y.box /\ z.shipped = y.shipped /\ z.shadow = y.shadow
    <3> HIDE DEF z
    <3> QED
      BY <1>1, <2>1 DEF Keys
  <2> HIDE DEF z
  <2>3. HostOK(z)
      BY <1>1, <2>2, Kept
  <2> QED
      BY <1>8, <2>2, <2>3, Parts DEF z
<1>9. CASE Seen(y, u) /\ u \notin Scenes /\ u \in y.shipped /\ y.hash[u] = BlobDigest(u)
  <2>1. z = t
      BY <1>9 DEF FlushT2
  <2> HIDE DEF z, t
  <2>2. u \in Worlds => t.rep[u] # None
      BY <1>1, <1>2, <1>9
  <2> QED
      BY <1>2, <1>5, <2>1, <2>2 DEF z
<1>10. CASE Seen(y, u) /\ u \notin Scenes /\ ~(u \in y.shipped /\ y.hash[u] = BlobDigest(u)) /\ left = 0
  <2>1. z = Delivered(h, u, Now(u))
      BY <1>10 DEF FlushT2
  <2> HIDE DEF z, t, h
  <2>2. HostOK(Delivered(h, u, Now(u))) /\ Delivered(h, u, Now(u)).pc = h.pc /\ Delivered(h, u, Now(u)).boot = None
        /\ Delivered(h, u, Now(u)).rep[u] # None
      BY <1>4, <1>5, <1>6, <1>10, DeliveredOK
  <2> QED
      BY <1>4, <2>1, <2>2 DEF z
<1>11. CASE Seen(y, u) /\ u \notin Scenes /\ ~(u \in y.shipped /\ y.hash[u] = BlobDigest(u)) /\ left # 0
  <2>1. z = q
      BY <1>11 DEF FlushT2
  <2> HIDE DEF h
  <2>2. /\ Keys \subseteq DOMAIN q /\ q.pc = y.pc /\ q.boot = None /\ q.dirty = y.dirty /\ q.rep = y.rep
        /\ q.shipped = y.shipped /\ q.shadow = h.shadow /\ q.box = [y.box EXCEPT ![u] = b]
      BY <1>4 DEF Keys
  <2>3. b \in Box /\ b # None
    <3>1. b \in Box
        BY <1>6, <1>11, Parts DEF Box
    <3> QED
        BY <3>1, NoneAssumption DEF NoneAssumption
  <2> HIDE DEF z, b, q
  <2>4. q.box \in [D -> Box \union {None}] /\ (\A s \in Scenes : q.box[s] = None) /\ q.box[u] # None
      BY <1>1, <1>11, <2>2, <2>3, Parts
  <2>5. HostOK(q)
      BY <1>1, <1>5, <2>2, <2>4 DEF HostOK
  <2> QED
      BY <2>1, <2>2, <2>4, <2>5 DEF z
<1> QED
    BY <1>7, <1>8, <1>9, <1>10, <1>11

\* A delta makes the replica's scene name the world only if the host's scene
\* does and the last snapshot did not.
LEMMA AppliedOK ==
    ASSUME SceneOK(scene), NEW y, HostOK(y), y.boot = None, NEW u \in D, NEW was \in Snapshot,
           scene[u].ptr /\ ~was.ptr => \A w \in Worlds : y.rep[w] # None
    PROVE  LET z == Applied(y, u, was) IN HostOK(z) /\ z.pc = y.pc /\ z.boot = None
<1> DEFINE z == Applied(y, u, was)
           r == y.rep[u]
           d == [f \in DOMAIN r |-> IF f # "heavy" /\ was[f] # Now(u)[f] THEN Now(u)[f] ELSE r[f]]
<1>1. /\ Keys \subseteq DOMAIN y /\ y.rep \in File /\ Closed(y.rep)
      /\ \A w \in Worlds : w \in y.shipped => y.rep[w] # None
    BY DEF HostOK
<1>2. CASE r = None
    BY <1>2 DEF Applied
<1>3. CASE r # None
  <2>1. r \in Snapshot
      BY <1>1, <1>3 DEF File
  <2>2. Now(u) \in Snapshot /\ Now(u).ptr = scene[u].ptr
      BY SnapshotNow
  <2> HIDE DEF r
  <2>3. d \in Snapshot /\ d.ptr = IF was.ptr # Now(u).ptr THEN Now(u).ptr ELSE r.ptr
      BY <2>1, <2>2 DEF Snapshot
  <2>4. d.ptr => r.ptr \/ (scene[u].ptr /\ ~was.ptr)
    <3>1. was.ptr \in BOOLEAN /\ Now(u).ptr \in BOOLEAN /\ r.ptr \in BOOLEAN
        BY <2>1, <2>2 DEF Snapshot
    <3> QED
        BY <2>2, <2>3, <3>1
  <2>5. z = [y EXCEPT !.rep[u] = d]
      BY <1>3 DEF Applied, r
  <2> HIDE DEF d, z
  <2>6. /\ Keys \subseteq DOMAIN z /\ z.pc = y.pc /\ z.boot = y.boot /\ z.dirty = y.dirty /\ z.box = y.box
        /\ z.shipped = y.shipped /\ z.shadow = y.shadow /\ z.rep = [y.rep EXCEPT ![u] = d]
      BY <1>1, <2>5 DEF Keys
  <2>7. z.rep \in File /\ z.rep[u] = d /\ d # None /\ \A e \in D \ {u} : z.rep[e] = y.rep[e]
      BY <1>1, <2>3, <2>6, NoneAssumption DEF File, NoneAssumption
  <2>8. \A e \in D : y.rep[e] # None => z.rep[e] # None
      BY <2>7
  <2>9. Closed(z.rep)
    <3> SUFFICES ASSUME NEW s \in Scenes, z.rep[s] # None, z.rep[s].ptr, NEW w \in Worlds PROVE z.rep[w] # None
        BY DEF Closed
    <3>1. CASE s # u
        BY <1>1, <2>7, <2>8, <3>1, Parts DEF Closed
    <3>2. CASE s = u
        BY <1>1, <1>3, <2>4, <2>7, <2>8, <3>2, Parts DEF Closed, r
    <3> QED
        BY <3>1, <3>2
  <2>10. HostOK(z)
      BY <1>1, <2>6, <2>7, <2>8, <2>9, Parts DEF HostOK
  <2> QED
      BY <2>6, <2>10 DEF z
<1> QED
    BY <1>2, <1>3

\* A delta that is refused gives its shadow back.
LEMMA RefusedOK ==
    ASSUME NEW y, HostOK(y), NEW u \in D, NEW old \in Snapshot \union {None}
    PROVE  LET z == Refused(y, u, old) IN HostOK(z) /\ z.pc = y.pc /\ z.boot = y.boot
<1> DEFINE m == Mark(y, u, 1)
           z == Refused(y, u, old)
<1>1. HostOK(m) /\ m.pc = y.pc /\ m.boot = y.boot
    BY MarkOK
<1>2. z = [m EXCEPT !.shadow[u] = IF old = None THEN @ ELSE old, !.stuck = @ \union {u}]
    BY DEF Refused
<1> HIDE DEF m, z
<1>3. Keys \subseteq DOMAIN m /\ m.shadow \in File /\ m.dirty \in [D -> Int] /\ \A w \in Worlds : m.dirty[w] # Tomb
    BY <1>1 DEF HostOK
<1>4. /\ Keys \subseteq DOMAIN z /\ z.pc = m.pc /\ z.boot = m.boot /\ z.dirty = m.dirty /\ z.box = m.box
      /\ z.shipped = m.shipped /\ z.rep = m.rep /\ z.shadow = [m.shadow EXCEPT ![u] = IF old = None THEN @ ELSE old]
    BY <1>2, <1>3 DEF Keys
<1>5. z.shadow \in File
    BY <1>3, <1>4 DEF File
<1>6. HostOK(z)
    BY <1>1, <1>3, <1>4, <1>5, Kept DEF HostOK
<1> QED
    BY <1>1, <1>4, <1>6 DEF z

\* _send_t1: the delta leaves only behind its target.
LEMMA SendT1OK ==
    ASSUME SceneOK(scene), NEW y, HostOK(y), y.boot = None, NEW u \in D, NEW was \in Snapshot,
           NEW old \in Snapshot \union {None}, NEW ok \in BOOLEAN, NEW left \in 0..Chunks
    PROVE  LET z == SendT1(y, u, was, old, ok, left) IN HostOK(z) /\ z.pc = y.pc /\ z.boot = None
<1> DEFINE ws == Targets(y, u, was)
           w0 == CHOOSE w \in ws : TRUE
           e == EnsureUuid(y, ws)
           t == IF ws = {} THEN y ELSE FlushT2(e, w0, left)
           z == SendT1(y, u, was, old, ok, left)
<1>1. z = IF ~ok \/ \E w \in ws : t.box[w] # None THEN Refused(t, u, old) ELSE Applied(t, u, was)
    BY DEF SendT1
<1>2. ws \subseteq Worlds /\ (scene[u].ptr /\ ~was.ptr => \A w \in Worlds : w \in ws \/ w \in y.shipped)
    BY DEF Targets, SceneOK
<1> HIDE DEF ws, z
<1>3. HostOK(t) /\ t.pc = y.pc /\ t.boot = None
      /\ (scene[u].ptr /\ ~was.ptr => (\E w \in ws : t.box[w] # None) \/ \A w \in Worlds : t.rep[w] # None)
  <2>1. CASE ws = {}
    <3>1. t = y
        BY <2>1
    <3> HIDE DEF t
    <3>2. \A w \in Worlds : w \in y.shipped => y.rep[w] # None
        BY DEF HostOK
    <3> QED
        BY <1>2, <2>1, <3>1, <3>2
  <2>2. CASE ws # {}
    <3>1. w0 \in ws
        BY <2>2
    <3>2. w0 \in Worlds /\ w0 \in D /\ (\A w \in Worlds : w = w0)
        BY <1>2, <3>1, Parts
    <3>3. Keys \subseteq DOMAIN y /\ y.shadow \in File /\ y.dirty \in [D -> Int] /\ \A w \in Worlds : y.dirty[w] # Tomb
        BY DEF HostOK
    <3>4. /\ Keys \subseteq DOMAIN e /\ e.pc = y.pc /\ e.boot = y.boot /\ e.dirty = y.dirty /\ e.box = y.box
          /\ e.shipped = y.shipped /\ e.rep = y.rep /\ e.shadow = y.shadow /\ e.reg = y.reg \union ws
        BY <3>3 DEF EnsureUuid, Keys
    <3> HIDE DEF e, w0
    <3>5. HostOK(e)
        BY <3>3, <3>4, Kept
    <3>6. t = FlushT2(e, w0, left)
        BY <2>2
    <3>7. /\ HostOK(FlushT2(e, w0, left)) /\ FlushT2(e, w0, left).pc = e.pc /\ FlushT2(e, w0, left).boot = None
          /\ FlushT2(e, w0, left).rep[w0] # None \/ FlushT2(e, w0, left).box[w0] # None
        BY <3>1, <3>2, <3>4, <3>5, FlushT2OK
    <3> HIDE DEF t
    <3> QED
        BY <3>1, <3>2, <3>4, <3>6, <3>7
  <2> QED
      BY <2>1, <2>2
<1> HIDE DEF t
<1>4. CASE ~ok \/ \E w \in ws : t.box[w] # None
    BY <1>1, <1>3, <1>4, RefusedOK DEF z
<1>5. CASE ~(~ok \/ \E w \in ws : t.box[w] # None)
    BY <1>1, <1>3, <1>5, AppliedOK DEF z
<1> QED
    BY <1>4, <1>5

\* A snapshot is taken, or a flag is raised.
LEMMA SnappedOK ==
    ASSUME SceneOK(scene), NEW y, HostOK(y), NEW u \in D
    PROVE  LET z == [y EXCEPT !.shadow[u] = Now(u)] IN HostOK(z) /\ z.pc = y.pc /\ z.boot = y.boot
<1> DEFINE z == [y EXCEPT !.shadow[u] = Now(u)]
<1>1. Keys \subseteq DOMAIN y /\ y.shadow \in File /\ y.dirty \in [D -> Int] /\ \A w \in Worlds : y.dirty[w] # Tomb
    BY DEF HostOK
<1>2. /\ Keys \subseteq DOMAIN z /\ z.pc = y.pc /\ z.boot = y.boot /\ z.dirty = y.dirty /\ z.box = y.box
      /\ z.shipped = y.shipped /\ z.rep = y.rep /\ z.shadow = [y.shadow EXCEPT ![u] = Now(u)]
    BY <1>1 DEF Keys
<1> HIDE DEF z
<1>3. z.shadow \in File
    BY <1>1, <1>2, SnapshotNow DEF File
<1>4. HostOK(z)
    BY <1>1, <1>2, <1>3, Kept DEF HostOK
<1> QED
    BY <1>2, <1>4 DEF z

\* The wish for a file is no part of the invariant.
LEMMA AutoOK ==
    ASSUME NEW y, HostOK(y), NEW v
    PROVE  LET z == [y EXCEPT !.auto = v] IN HostOK(z) /\ z.pc = y.pc /\ z.boot = y.boot
<1> DEFINE z == [y EXCEPT !.auto = v]
<1>1. Keys \subseteq DOMAIN y /\ y.shadow \in File /\ y.dirty \in [D -> Int] /\ \A w \in Worlds : y.dirty[w] # Tomb
    BY DEF HostOK
<1>2. /\ Keys \subseteq DOMAIN z /\ z.pc = y.pc /\ z.boot = y.boot /\ z.dirty = y.dirty /\ z.box = y.box
      /\ z.shipped = y.shipped /\ z.rep = y.rep /\ z.shadow = y.shadow
    BY <1>1 DEF Keys
<1> HIDE DEF z
<1>3. HostOK(z)
    BY <1>1, <1>2, Kept DEF HostOK
<1> QED
    BY <1>2, <1>3 DEF z

\* A delta, or the blob or file that goes in its place.
LEMMA FlushT1OK ==
    ASSUME SceneOK(scene), NEW y, HostOK(y), y.boot = None, NEW u \in D, NEW ok \in BOOLEAN, NEW left \in 0..Chunks
    PROVE  LET z == FlushT1(y, u, ok, left) IN HostOK(z) /\ z.pc = y.pc /\ z.boot = None
<1> DEFINE was == y.shadow[u]
           t == [y EXCEPT !.shadow[u] = Now(u)]
           z == FlushT1(y, u, ok, left)
           a == SendT1(t, u, was, None, ok, left)
<1>1. HostOK(t) /\ t.pc = y.pc /\ t.boot = None
    BY SnappedOK
<1>2. was = None \/ was \in Snapshot
    BY DEF HostOK, File
<1>3. \/ z = y \/ z = t \/ z = FlushT2(t, u, left)
      \/ was # None /\ z = [a EXCEPT !.auto = TRUE]
      \/ was # None /\ z = SendT1(t, u, was, was, ok, left)
    BY DEF FlushT1
<1> HIDE DEF t, z, was
<1>4. CASE z = y \/ z = t
    BY <1>1, <1>4 DEF z
<1>5. CASE z = FlushT2(t, u, left)
    BY <1>1, <1>5, FlushT2OK DEF z
<1>6. CASE was # None /\ z = [a EXCEPT !.auto = TRUE]
  <2>1. HostOK(a) /\ a.pc = t.pc /\ a.boot = None
      BY <1>1, <1>2, <1>6, SendT1OK
  <2> HIDE DEF a
  <2> QED
      BY <1>1, <1>6, <2>1, AutoOK DEF z
<1>7. CASE was # None /\ z = SendT1(t, u, was, was, ok, left)
    BY <1>1, <1>2, <1>7, SendT1OK DEF z
<1> QED
    BY <1>3, <1>4, <1>5, <1>6, <1>7

\* The sweeps find no world gone.
LEMMA SweepVisibilityOK ==
    ASSUME NEW y, HostOK(y)
    PROVE  LET z == SweepVisibility(y) IN HostOK(z) /\ z.pc = y.pc /\ z.boot = y.boot
<1> DEFINE z == SweepVisibility(y)
           changed == {u \in D : Seen(y, u) /\ y.vis[u] # SweepVector(scene, u)}
           marked == {u \in changed : u \in Tracked \/ y.vis[u] # None}
           d == [u \in D |-> IF u \in marked THEN Ratchet(y.dirty[u], Tier(u, FALSE)) ELSE y.dirty[u]]
<1>1. Keys \subseteq DOMAIN y /\ y.shadow \in File /\ y.dirty \in [D -> Int] /\ \A w \in Worlds : y.dirty[w] # Tomb
    BY DEF HostOK
<1>2. /\ Keys \subseteq DOMAIN z /\ z.pc = y.pc /\ z.boot = y.boot /\ z.box = y.box
      /\ z.shipped = y.shipped /\ z.rep = y.rep /\ z.shadow = y.shadow /\ z.dirty = d
    BY <1>1 DEF Keys, SweepVisibility
<1> HIDE DEF z, marked
<1>3. \A u \in D : Tier(u, FALSE) \in 0..2
    BY DEF Tier
<1>4. d \in [D -> Int] /\ \A w \in Worlds : d[w] # Tomb
    BY <1>1, <1>3, RatchetOK, Parts
<1>5. HostOK(z)
    BY <1>1, <1>2, <1>4, Kept DEF HostOK
<1> QED
    BY <1>2, <1>5 DEF z

\* The sweep finds no world or scene gone.
LEMMA SweepDeletionsOK ==
    ASSUME SceneOK(scene), NEW y, HostOK(y)
    PROVE  LET z == SweepDeletions(y) IN HostOK(z) /\ z.pc = y.pc /\ z.boot = y.boot
<1> DEFINE z == SweepDeletions(y)
           back == {u \in D : scene[u].alive /\ u \notin y.reg}
           dead == {u \in y.reg : ~scene[u].alive}
           d == [u \in D |-> IF u \in back THEN Ratchet(y.dirty[u], 2) ELSE IF u \in dead THEN MarkDeleted(y, u) ELSE y.dirty[u]]
           h == [u \in D |-> IF u \in dead THEN None ELSE y.shadow[u]]
<1>1. Keys \subseteq DOMAIN y /\ y.shadow \in File /\ y.dirty \in [D -> Int] /\ \A w \in Worlds : y.dirty[w] # Tomb
    BY DEF HostOK
<1>2. /\ Keys \subseteq DOMAIN z /\ z.pc = y.pc /\ z.boot = y.boot /\ z.box = y.box
      /\ z.shipped = y.shipped /\ z.rep = y.rep /\ z.shadow = h /\ z.dirty = d
    BY <1>1 DEF Keys, SweepDeletions
<1>3. \A w \in Worlds : w \notin dead
    BY DEF SceneOK
<1> HIDE DEF z, back, dead
<1>4. \A u \in D : MarkDeleted(y, u) \in Int
    BY DEF MarkDeleted, Tomb
<1>5. d \in [D -> Int] /\ \A w \in Worlds : d[w] # Tomb
    BY <1>1, <1>3, <1>4, RatchetOK, Parts
<1>6. h \in File
    BY <1>1 DEF File
<1>7. HostOK(z)
    BY <1>1, <1>2, <1>5, <1>6, Kept DEF HostOK
<1> QED
    BY <1>2, <1>7 DEF z

\* The tombstones that go are of datablocks that are not worlds.
LEMMA DrainOK ==
    ASSUME NEW y, HostOK(y), y.boot = None, NEW refused
    PROVE  HostOK(Drain(y, refused))
<1> DEFINE z == Drain(y, refused)
           gone == {u \in D : y.dirty[u] = Tomb} \ refused
           go == {u \in D : y.dirty[u] > 0 /\ y.touch[u] = "ripe"}
           d == [u \in D |-> IF u \in go \union gone THEN 0 ELSE y.dirty[u]]
           r == [u \in D |-> IF u \in gone THEN None ELSE y.rep[u]]
<1>1. /\ Keys \subseteq DOMAIN y /\ y.shadow \in File /\ y.dirty \in [D -> Int] /\ (\A w \in Worlds : y.dirty[w] # Tomb)
      /\ y.rep \in File /\ y.box \in [D -> Box \union {None}] /\ (\A s \in Scenes : y.box[s] = None)
      /\ Closed(y.rep) /\ \A w \in Worlds : w \in y.shipped => y.rep[w] # None
    BY DEF HostOK
<1>2. /\ Keys \subseteq DOMAIN z /\ z.boot = y.boot /\ z.box = y.box
      /\ z.shipped = y.shipped /\ z.rep = r /\ z.shadow = y.shadow /\ z.dirty = d
    BY <1>1 DEF Keys, Drain
<1>3. \A w \in Worlds : w \notin gone
    BY <1>1
<1> HIDE DEF z, go, gone
<1>4. d \in [D -> Int] /\ \A w \in Worlds : d[w] # Tomb
    BY <1>1, <1>3, Parts DEF Tomb
<1>5. r \in File /\ \A u \in D : r[u] = y.rep[u] \/ (r[u] = None /\ u \notin Worlds)
    BY <1>1, <1>3 DEF File
<1> HIDE DEF r, d
<1>6. Closed(r) /\ \A w \in Worlds : w \in y.shipped => r[w] # None
    BY <1>1, <1>5, Parts DEF Closed
<1>7. HostOK(z)
    BY <1>1, <1>2, <1>4, <1>5, <1>6 DEF HostOK
<1> QED
    BY <1>7 DEF z

\* Hashes are no part of the invariant.
LEMMA PrimeHashesOK == ASSUME NEW y, HostOK(y), NEW u PROVE HostOK(PrimeHashes(y, u))
<1> DEFINE z == PrimeHashes(y, u)
<1>1. Keys \subseteq DOMAIN y /\ y.shadow \in File /\ y.dirty \in [D -> Int] /\ \A w \in Worlds : y.dirty[w] # Tomb
    BY DEF HostOK
<1>2. /\ Keys \subseteq DOMAIN z /\ z.pc = y.pc /\ z.boot = y.boot /\ z.dirty = y.dirty /\ z.box = y.box
      /\ z.shipped = y.shipped /\ z.rep = y.rep /\ z.shadow = y.shadow
    BY <1>1 DEF Keys, PrimeHashes
<1> HIDE DEF z
<1>3. HostOK(z)
    BY <1>1, <1>2, Kept DEF HostOK
<1> QED
    BY <1>3 DEF z

\* A file is closed because the world a scene points at has a user.
LEMMA SendBootstrapOK ==
    ASSUME NEW s, SceneOK(s), NEW y, HostOK(y), y.pc = "idle"
    PROVE  HostOK(SendBootstrap(y, s))
<1> DEFINE z == SendBootstrap(y, s)
           f == [u \in D |-> IF InFile(s, u) THEN BuildSnapshot(s, u) ELSE None]
           b == [left |-> Chunks, file |-> f]
           in == {u \in y.reg : InFile(s, u)}
<1>1. /\ Keys \subseteq DOMAIN y /\ y.shadow \in File /\ y.dirty \in [D -> Int] /\ (\A w \in Worlds : y.dirty[w] # Tomb)
      /\ y.rep \in File /\ y.box \in [D -> Box \union {None}] /\ (\A u \in Scenes : y.box[u] = None) /\ Closed(y.rep)
    BY DEF HostOK
<1>2. /\ Keys \subseteq DOMAIN z /\ z.pc = y.pc /\ z.boot = b /\ z.dirty = y.dirty /\ z.box = y.box
      /\ z.shipped = in /\ z.rep = y.rep /\ z.shadow = y.shadow
    BY <1>1 DEF Keys, SendBootstrap
<1>3. ASSUME NEW u \in D PROVE (InFile(s, u) => f[u] = BuildSnapshot(s, u)) /\ (~InFile(s, u) => f[u] = None)
                           /\ BuildSnapshot(s, u) \in Snapshot /\ BuildSnapshot(s, u) # None /\ BuildSnapshot(s, u).ptr = s[u].ptr
    BY SnapshotOf, NoneAssumption DEF NoneAssumption
<1>4. f \in File
    BY <1>3 DEF File
<1>5. b \in Boot /\ b # None /\ b.file = f
  <2>1. b \in Boot /\ b.file = f
      BY <1>4, Parts DEF Boot
  <2> QED
      BY <2>1, NoneAssumption DEF NoneAssumption
<1> HIDE DEF z, b
<1>6. \A w \in Worlds : w \in in => f[w] # None
    BY <1>3, Parts
<1> HIDE DEF f, in
<1>7. Closed(f)
  <2> SUFFICES ASSUME NEW u \in Scenes, f[u] # None, f[u].ptr, NEW w \in Worlds PROVE f[w] # None
      BY DEF Closed
  <2>1. s[u].ptr
      BY <1>3, Parts
  <2>2. InFile(s, w)
      BY <2>1 DEF SceneOK, InFile
  <2> QED
      BY <1>3, <2>2, Parts
<1>8. HostOK(z)
    BY <1>1, <1>2, <1>5, <1>6, <1>7 DEF HostOK
<1> QED
    BY <1>8 DEF z

\* The initial scan leaves lanes and replica alone.
LEMMA InitialScanOK ==
    ASSUME NEW s, SceneOK(s), NEW y, HostOK(y)
    PROVE  LET z == InitialScan(y, s) IN HostOK(z) /\ z.pc = y.pc /\ z.boot = y.boot
<1> DEFINE z == InitialScan(y, s)
           h == [u \in D |-> IF u \in Tracked /\ InFile(s, u) THEN BuildSnapshot(s, u) ELSE None]
<1>1. Keys \subseteq DOMAIN y
    BY DEF HostOK
<1>2. /\ Keys \subseteq DOMAIN z /\ z.pc = y.pc /\ z.boot = y.boot /\ z.dirty = [u \in D |-> 0] /\ z.box = y.box
      /\ z.shipped = y.shipped /\ z.rep = y.rep /\ z.shadow = h
    BY <1>1 DEF Keys, InitialScan
<1> HIDE DEF z
<1>3. h \in File
    BY SnapshotOf DEF File
<1>4. z.dirty \in [D -> Int] /\ \A w \in Worlds : z.dirty[w] # Tomb
    BY <1>2, Parts DEF Tomb
<1>5. HostOK(z)
    BY <1>2, <1>3, <1>4, Kept DEF HostOK
<1> QED
    BY <1>2, <1>5 DEF z

\* A project as it is opened.
LEMMA NewSceneOK == SceneOK(NewScene)
<1>1. ASSUME NEW u \in D PROVE NewBlock(u) \in Block /\ NewBlock(u).alive /\ ~NewBlock(u).ptr
    BY Parts DEF NewBlock, Block, Values
<1> QED
    BY <1>1, Parts DEF SceneOK, NewScene

\* The first state.
LEMMA InitInv == Init => Inv
<1> SUFFICES ASSUME Init PROVE Inv
    OBVIOUS
<1>1. scene = NewScene /\ x = InitialScan(HostSync, NewScene) /\ used = [edit |-> 0, boot |-> 0]
    BY DEF Init
<1>2. HostOK(HostSync)
  <2>1. /\ Keys \subseteq DOMAIN HostSync /\ HostSync.rep = [u \in D |-> None] /\ HostSync.shadow = [u \in D |-> None]
        /\ HostSync.box = [u \in D |-> None] /\ HostSync.dirty = [u \in D |-> 0] /\ HostSync.boot = None /\ HostSync.shipped = {}
      BY DEF HostSync, Keys
  <2>2. [u \in D |-> None] \in File /\ [u \in D |-> None] \in [D -> Box \union {None}] /\ [u \in D |-> 0] \in [D -> Int]
      BY DEF File
  <2>3. (\A u \in D : [d \in D |-> None][u] = None) /\ (\A u \in D : [d \in D |-> 0][u] # Tomb)
      BY DEF Tomb
  <2>4. Closed(HostSync.rep)
      BY <2>1, <2>3, Parts DEF Closed
  <2> QED
      BY <2>1, <2>2, <2>3, <2>4, Parts DEF HostOK
<1>3. Counts
    BY <1>1, Parts DEF Counts
<1> QED
    BY <1>1, <1>2, <1>3, NewSceneOK, InitialScanOK DEF Inv

-----------------------------------------------------------------------------
(* The actions.                                                            *)

\* An edit within its bound.
LEMMA UseOK ==
    ASSUME Counts, used.edit < MaxEdits, Use("edit") PROVE Counts'
BY Parts DEF Counts, Use

\* What an edit writes is a value.
LEMMA NewValuesOK == ASSUME Counts, MayEdit, NEW u, NEW f, NEW v \in NewValues(u, f) PROVE v \in Values
BY Parts DEF Counts, MayEdit, NewValues, Values

\* The depsgraph handler marks and touches.
LEMMA OnDepsgraphOK == ASSUME NEW y, HostOK(y), NEW u \in D, NEW bake \in BOOLEAN PROVE HostOK(OnDepsgraph(y, u, bake))
<1> DEFINE e == EnsureUuid(y, {u})
           m == Mark(e, u, Tier(u, bake))
           z == Touch(m, u)
<1>1. Keys \subseteq DOMAIN y /\ y.shadow \in File /\ y.dirty \in [D -> Int] /\ \A w \in Worlds : y.dirty[w] # Tomb
    BY DEF HostOK
<1>2. /\ Keys \subseteq DOMAIN e /\ e.pc = y.pc /\ e.boot = y.boot /\ e.dirty = y.dirty /\ e.box = y.box
      /\ e.shipped = y.shipped /\ e.rep = y.rep /\ e.shadow = y.shadow
    BY <1>1 DEF Keys, EnsureUuid
<1> HIDE DEF e
<1>3. HostOK(e)
    BY <1>1, <1>2, Kept DEF HostOK
<1>4. Tier(u, bake) \in 0..2
    BY DEF Tier
<1>5. HostOK(m)
    BY <1>3, <1>4, MarkOK
<1> HIDE DEF m
<1>6. Keys \subseteq DOMAIN m /\ m.shadow \in File /\ m.dirty \in [D -> Int] /\ \A w \in Worlds : m.dirty[w] # Tomb
    BY <1>5 DEF HostOK
<1>7. /\ Keys \subseteq DOMAIN z /\ z.pc = m.pc /\ z.boot = m.boot /\ z.dirty = m.dirty /\ z.box = m.box
      /\ z.shipped = m.shipped /\ z.rep = m.rep /\ z.shadow = m.shadow
    BY <1>6 DEF Keys, Touch
<1> HIDE DEF z
<1>8. HostOK(z)
    BY <1>5, <1>6, <1>7, Kept DEF HostOK
<1> QED
    BY <1>8 DEF OnDepsgraph, z, m, e

\* A field of a datablock changes that has nothing to do with worlds.
LEMMA FieldOK ==
    ASSUME SceneOK(scene), NEW u \in D, NEW f \in {"light", "heavy", "swept"}, NEW v \in Values,
           scene' = [scene EXCEPT ![u][f] = v]
    PROVE  SceneOK(scene')
<1>1. scene' \in [D -> Block]
    BY DEF SceneOK, Block
<1>2. \A d \in D : scene'[d].alive = scene[d].alive /\ scene'[d].ptr = scene[d].ptr /\ scene'[d].used = scene[d].used
    BY DEF SceneOK, Block
<1> QED
    BY <1>1, <1>2, Parts DEF SceneOK

\* Deletion and undo spare worlds and scenes.
LEMMA AliveOK ==
    ASSUME SceneOK(scene), NEW u \in D, NEW v \in BOOLEAN, v \/ u \notin Scenes \union Worlds,
           scene' = [scene EXCEPT ![u].alive = v]
    PROVE  SceneOK(scene')
<1>1. scene' \in [D -> Block]
    BY DEF SceneOK, Block
<1>2. \A d \in D : scene'[d].alive = (IF d = u THEN v ELSE scene[d].alive) /\ scene'[d].ptr = scene[d].ptr /\ scene'[d].used = scene[d].used
    BY DEF SceneOK, Block
<1> QED
    BY <1>1, <1>2, Parts DEF SceneOK

\* A flag or a touch changes, at any time or between ticks.
LEMMA FlagOK ==
    ASSUME HostOK(x), Keys \subseteq DOMAIN x',
           x'.rep = x.rep, x'.box = x.box, x'.boot = x.boot, x'.shipped = x.shipped,
           x'.shadow = x.shadow, x'.dirty = x.dirty, x'.pc = x.pc \/ x'.pc = "idle"
    PROVE  HostOK(x')
BY Kept DEF HostOK

\* An edit Blender tells of.
LEMMA EditInv ==
    ASSUME Inv, NEW u \in D, NEW f \in {"light", "heavy"}, NEW bake \in BOOLEAN, Edit(u, f, bake) PROVE Inv'
<1>1. PICK v \in NewValues(u, f) : scene' = [scene EXCEPT ![u][f] = v]
    BY DEF Edit
<1>2. SceneOK(scene')
    BY <1>1, NewValuesOK, FieldOK DEF Edit, Inv
<1>3. HostOK(x')
    BY OnDepsgraphOK DEF Edit, Inv
<1>4. Counts'
    BY UseOK DEF Edit, MayEdit, Inv
<1> QED
    BY <1>2, <1>3, <1>4 DEF Inv

\* An edit Blender does not tell of.
LEMMA EditSilentlyInv == ASSUME Inv, NEW u \in D, EditSilently(u) PROVE Inv'
<1>1. PICK v \in NewValues(u, "swept") : scene' = [scene EXCEPT ![u].swept = v]
    BY DEF EditSilently
<1>2. SceneOK(scene')
    BY <1>1, NewValuesOK, FieldOK DEF EditSilently, Inv
<1>3. Counts'
    BY UseOK DEF EditSilently, MayEdit, Inv
<1> QED
    BY <1>2, <1>3 DEF Inv, EditSilently

\* A scene is pointed at the world, or away from it.
LEMMA PointInv == ASSUME Inv, NEW u \in D, Point(u) PROVE Inv'
<1> DEFINE sc == [d \in D |-> IF d = u THEN [scene[d] EXCEPT !.ptr = TRUE]
                              ELSE IF d \in Worlds THEN [scene[d] EXCEPT !.used = TRUE] ELSE scene[d]]
<1>1. u \in Scenes /\ scene' = sc
    BY DEF Point
<1>2. scene \in [D -> Block] /\ \A d \in Scenes \union Worlds : scene[d].alive
    BY DEF Inv, SceneOK
<1>3. ASSUME NEW d \in D PROVE sc[d] \in Block /\ sc[d].alive = scene[d].alive /\ (d \in Worlds => sc[d].used)
    BY <1>1, <1>2, Parts DEF Block
<1>4. sc \in [D -> Block]
    BY <1>3
<1> HIDE DEF sc
<1>5. SceneOK(scene')
    BY <1>1, <1>2, <1>3, <1>4, Parts DEF SceneOK
<1>6. HostOK(x')
    BY OnDepsgraphOK DEF Point, Inv
<1>7. Counts'
    BY UseOK DEF Point, MayEdit, Inv
<1> QED
    BY <1>5, <1>6, <1>7 DEF Inv

\* Deletion and undo.
LEMMA DeleteInv == ASSUME Inv, NEW u \in D, Delete(u) \/ Undo(u) PROVE Inv'
<1>1. SceneOK(scene')
    BY Parts, AliveOK DEF Delete, Undo, Inv
<1>2. Counts'
    BY UseOK DEF Delete, Undo, MayEdit, Inv
<1> QED
    BY <1>1, <1>2 DEF Inv, Delete, Undo

\* Another project is opened.
LEMMA NewFileInv == ASSUME Inv, NewFile PROVE Inv'
<1> DEFINE y == InitialScan(x, NewScene)
           z == SendBootstrap(y, NewScene)
<1>1. scene' = NewScene /\ x' = [z EXCEPT !.drop = TRUE] /\ x.pc = "idle"
    BY DEF NewFile, MayEdit
<1>2. HostOK(y) /\ y.pc = "idle"
    BY <1>1, NewSceneOK, InitialScanOK DEF Inv
<1> HIDE DEF y
<1>3. HostOK(z)
    BY <1>2, NewSceneOK, SendBootstrapOK
<1> HIDE DEF z
<1>4. Keys \subseteq DOMAIN z /\ z.shadow \in File /\ z.dirty \in [D -> Int] /\ \A w \in Worlds : z.dirty[w] # Tomb
    BY <1>3 DEF HostOK
<1>5. /\ Keys \subseteq DOMAIN x' /\ x'.pc = z.pc /\ x'.boot = z.boot /\ x'.dirty = z.dirty /\ x'.box = z.box
      /\ x'.shipped = z.shipped /\ x'.rep = z.rep /\ x'.shadow = z.shadow
    BY <1>1, <1>4 DEF Keys
<1>6. HostOK(x')
    BY <1>3, <1>4, <1>5, Kept DEF HostOK
<1>7. Counts'
  <2>1. /\ used.boot < MaxBoots /\ used.edit < MaxEdits /\ Counts
        /\ used' = [used EXCEPT !.boot = @ + 1, !.edit = @ + 1]
      BY DEF NewFile, MayEdit, Inv
  <2>2. used.boot + 1 \in 0..MaxBoots /\ used.edit + 1 \in 0..MaxEdits
      BY <2>1, Parts DEF Counts
  <2> QED
      BY <2>1, <2>2 DEF Counts
<1> QED
    BY <1>1, <1>6, <1>7, NewSceneOK DEF Inv

\* Steps that change flags and timers only.
LEMMA FlagsInv ==
    ASSUME Inv, Pause \/ Resume \/ DropBatch \/ GrowsOld \/ TickEnds \/ \E u \in D : Ripens(u) PROVE Inv'
<1>1. Keys \subseteq DOMAIN x
    BY DEF Inv, HostOK
<1>2. /\ Keys \subseteq DOMAIN x' /\ x'.rep = x.rep /\ x'.box = x.box /\ x'.boot = x.boot /\ x'.shipped = x.shipped
      /\ x'.shadow = x.shadow /\ x'.dirty = x.dirty /\ (x'.pc = x.pc \/ x'.pc = "idle")
    BY <1>1 DEF Keys, Pause, Resume, DropBatch, GrowsOld, TickEnds, Ripens
<1>3. HostOK(x')
    BY <1>2, FlagOK DEF Inv
<1>4. scene' = scene
    BY DEF Pause, Resume, DropBatch, GrowsOld, TickEnds, Ripens
<1>5. Counts'
  <2>1. CASE Pause
      BY <2>1, UseOK DEF Pause, MayEdit, Inv
  <2>2. CASE UNCHANGED used
      BY <2>2 DEF Inv, Counts
  <2> QED
      BY <2>1, <2>2 DEF Resume, DropBatch, GrowsOld, TickEnds, Ripens
<1> QED
    BY <1>3, <1>4, <1>5 DEF Inv

\* A file on request.
LEMMA BootstrapInv == ASSUME Inv, Bootstrap PROVE Inv'
<1>1. HostOK(x')
    BY SendBootstrapOK DEF Bootstrap, Inv
<1>2. Counts'
    BY Parts DEF Bootstrap, Inv, Counts, Use
<1> QED
    BY <1>1, <1>2 DEF Inv, Bootstrap

\* The file that a changed structure asks for.
LEMMA AutoBootInv == ASSUME Inv, AutoBoot PROVE Inv'
<1> DEFINE y == [x EXCEPT !.auto = FALSE]
<1>1. HostOK(y) /\ y.pc = x.pc /\ x.pc = "idle"
    BY AutoOK DEF Inv, AutoBoot, Flushing
<1>2. x' = y \/ x' = SendBootstrap(y, scene)
    BY DEF AutoBoot
<1> HIDE DEF y
<1>3. HostOK(x')
    BY <1>1, <1>2, SendBootstrapOK DEF Inv
<1> QED
    BY <1>3 DEF Inv, AutoBoot, Counts

\* The last chunk makes the replica the file.
LEMMA SendBootChunkInv == ASSUME Inv, SendBootChunk PROVE Inv'
<1>0. HostOK(x) /\ x.boot # None /\ x.boot \in Boot /\ Keys \subseteq DOMAIN x /\ x.pc = "idle"
    BY DEF Inv, HostOK, SendBootChunk
<1>1. CASE x.boot.left > 1
  <2> DEFINE b == [x.boot EXCEPT !.left = @ - 1]
  <2>1. b \in Boot /\ b.file = x.boot.file
      BY <1>0, <1>1, Parts DEF Boot
  <2>2. x' = [x EXCEPT !.boot = b]
      BY <1>1 DEF SendBootChunk
  <2> HIDE DEF b
  <2>3. /\ Keys \subseteq DOMAIN x' /\ x'.pc = x.pc /\ x'.boot = b /\ x'.dirty = x.dirty /\ x'.box = x.box
        /\ x'.shipped = x.shipped /\ x'.rep = x.rep /\ x'.shadow = x.shadow
      BY <1>0, <2>2 DEF Keys
  <2>4. b # None
      BY <2>1, NoneAssumption DEF NoneAssumption
  <2>5. HostOK(x')
      BY <1>0, <2>1, <2>3, <2>4 DEF HostOK
  <2> QED
      BY <2>5 DEF Inv, SendBootChunk, Counts
<1>2. CASE ~(x.boot.left > 1)
  <2>1. x' = [x EXCEPT !.boot = None, !.rep = x.boot.file]
      BY <1>2 DEF SendBootChunk
  <2>2. /\ Keys \subseteq DOMAIN x' /\ x'.boot = None /\ x'.dirty = x.dirty /\ x'.box = x.box
        /\ x'.shipped = x.shipped /\ x'.rep = x.boot.file /\ x'.shadow = x.shadow
      BY <1>0, <2>1 DEF Keys
  <2>3. x.boot.file \in File
      BY <1>0 DEF Boot
  <2>4. HostOK(x')
      BY <1>0, <2>2, <2>3 DEF HostOK
  <2> QED
      BY <2>4 DEF Inv, SendBootChunk, Counts
<1> QED
    BY <1>1, <1>2

\* A chunk of a blob; with the last one the datablock counts as shipped.
LEMMA SendT2ChunkInv == ASSUME Inv, NEW u \in D, SendT2Chunk(u) PROVE Inv'
<1>0. HostOK(x) /\ x.boot = None /\ x.box[u] # None /\ x.box \in [D -> Box \union {None}] /\ Keys \subseteq DOMAIN x
      /\ u \notin Scenes /\ x.box[u] \in Box
    BY DEF Inv, HostOK, SendT2Chunk, Flushing
<1>1. CASE x.box[u].left > 1
  <2> DEFINE b == [x.box[u] EXCEPT !.left = @ - 1]
  <2>1. b \in Box
      BY <1>0, <1>1, Parts DEF Box
  <2>2. x' = [x EXCEPT !.box = [x.box EXCEPT ![u] = b]]
      BY <1>1 DEF SendT2Chunk
  <2> HIDE DEF b
  <2>3. /\ Keys \subseteq DOMAIN x' /\ x'.pc = x.pc /\ x'.boot = x.boot /\ x'.dirty = x.dirty /\ x'.box = [x.box EXCEPT ![u] = b]
        /\ x'.shipped = x.shipped /\ x'.rep = x.rep /\ x'.shadow = x.shadow
      BY <1>0, <2>2 DEF Keys
  <2>4. x'.box \in [D -> Box \union {None}] /\ \A s \in Scenes : x'.box[s] = x.box[s]
      BY <1>0, <2>1, <2>3, Parts
  <2>5. HostOK(x')
      BY <1>0, <2>3, <2>4 DEF HostOK
  <2> QED
      BY <2>5 DEF Inv, SendT2Chunk, Counts
<1>2. CASE ~(x.box[u].left > 1)
  <2>1. x' = Delivered(x, u, x.box[u].val) /\ x.box[u].val \in Snapshot
      BY <1>0, <1>2 DEF SendT2Chunk, Box
  <2>2. HostOK(x')
      BY <1>0, <2>1, DeliveredOK
  <2> QED
      BY <2>2 DEF Inv, SendT2Chunk, Counts
<1> QED
    BY <1>1, <1>2

\* A tick begins: sweeps, primes and drains.
LEMMA TickInv == ASSUME Inv, NEW sweep \in BOOLEAN, Tick(sweep, TRUE) PROVE Inv'
<1> DEFINE y == IF sweep THEN SweepDeletions(SweepVisibility(x)) ELSE x
<1>1. HostOK(y) /\ y.boot = None
  <2>1. CASE sweep
    <3> DEFINE v == SweepVisibility(x)
    <3>1. HostOK(v) /\ v.boot = None
        BY SweepVisibilityOK DEF Inv, Tick, Flushing
    <3>2. y = SweepDeletions(v)
        BY <2>1
    <3> HIDE DEF v, y
    <3> QED
        BY <3>1, <3>2, SweepDeletionsOK DEF Inv
  <2>2. CASE ~sweep
      BY <2>2 DEF Inv, Tick, Flushing
  <2> QED
      BY <2>1, <2>2
<1>2. \/ x' = y \/ (\E u : x' = PrimeHashes(y, u)) \/ (\E refused : x' = Drain(y, refused))
    BY DEF Tick
<1> HIDE DEF y
<1>3. HostOK(x')
    BY <1>1, <1>2, PrimeHashesOK, DrainOK
<1> QED
    BY <1>3 DEF Inv, Tick, Counts

\* One drained datablock goes out or is put back.
LEMMA FlushOneInv == ASSUME Inv, NEW u \in D, FlushOne(u) PROVE Inv'
<1> DEFINE y == [x EXCEPT !.todo[u] = 0]
           b == [y EXCEPT !.budget = @ - 1]
           m == Mark(y, u, 2)
<1>0. HostOK(x) /\ x.boot = None /\ Keys \subseteq DOMAIN x
      /\ x.shadow \in File /\ x.dirty \in [D -> Int] /\ \A w \in Worlds : x.dirty[w] # Tomb
  <2>1. x.pc = "flush" /\ HostOK(x)
      BY DEF Inv, FlushOne
  <2> QED
      BY <2>1 DEF HostOK
<1>1. PICK ok \in BOOLEAN, left \in 0..Chunks :
           x' = IF x.todo[u] = 1 THEN FlushT1(y, u, ok, left)
                ELSE IF x.budget = 0 THEN TouchReady(m, u) ELSE FlushT2(b, u, left)
    BY DEF FlushOne
<1>2. /\ Keys \subseteq DOMAIN y /\ y.pc = x.pc /\ y.boot = x.boot /\ y.dirty = x.dirty /\ y.box = x.box
      /\ y.shipped = x.shipped /\ y.rep = x.rep /\ y.shadow = x.shadow
    BY <1>0 DEF Keys
<1> HIDE DEF y
<1>3. HostOK(y) /\ y.boot = None
    BY <1>0, <1>2, Kept
<1>4. /\ Keys \subseteq DOMAIN b /\ b.pc = y.pc /\ b.boot = y.boot /\ b.dirty = y.dirty /\ b.box = y.box
      /\ b.shipped = y.shipped /\ b.rep = y.rep /\ b.shadow = y.shadow
    BY <1>2 DEF Keys
<1> HIDE DEF b
<1>5. HostOK(b) /\ b.boot = None
    BY <1>0, <1>2, <1>3, <1>4, Kept
<1>6. HostOK(m) /\ m.boot = None
    BY <1>3, MarkOK
<1> HIDE DEF m
<1>7. HostOK(TouchReady(m, u))
  <2> DEFINE t == TouchReady(m, u)
  <2>1. Keys \subseteq DOMAIN m /\ m.shadow \in File /\ m.dirty \in [D -> Int] /\ \A w \in Worlds : m.dirty[w] # Tomb
      BY <1>6 DEF HostOK
  <2>2. /\ Keys \subseteq DOMAIN t /\ t.pc = m.pc /\ t.boot = m.boot /\ t.dirty = m.dirty /\ t.box = m.box
        /\ t.shipped = m.shipped /\ t.rep = m.rep /\ t.shadow = m.shadow
      BY <2>1 DEF Keys, TouchReady
  <2> HIDE DEF t
  <2>3. HostOK(t)
      BY <1>6, <2>1, <2>2, Kept
  <2> QED
      BY <2>3 DEF t
<1>8. SceneOK(scene)
    BY DEF Inv
<1>9. HostOK(x')
  <2>1. HostOK(FlushT1(y, u, ok, left))
      BY <1>3, <1>8, FlushT1OK
  <2>2. HostOK(FlushT2(b, u, left))
      BY <1>5, <1>8, FlushT2OK
  <2> QED
      BY <1>1, <1>7, <2>1, <2>2
<1> QED
    BY <1>9 DEF Inv, FlushOne, Counts

\* Every step keeps the invariant.
LEMMA NextInv == Inv /\ [Next]_vars => Inv'
<1> SUFFICES ASSUME Inv, [Next]_vars PROVE Inv'
    OBVIOUS
<1>1. CASE Edits
    BY <1>1, EditInv, EditSilentlyInv, PointInv, DeleteInv, NewFileInv, FlagsInv DEF Edits
<1>2. CASE Bootstrap
    BY <1>2, BootstrapInv
<1>3. CASE Ticks
    BY <1>3, FlagsInv, SendT2ChunkInv, FlushOneInv, SendBootChunkInv, AutoBootInv, TickInv DEF Ticks
<1>4. CASE UNCHANGED vars
    BY <1>4 DEF vars, Inv, Counts
<1> QED
    BY <1>1, <1>2, <1>3, <1>4 DEF Next

\* In every reachable state what HostSync counts as shipped has been sent or is in the
\* file under way, and no scene sent or being sent names a world that was not.
THEOREM SpecInv == Spec => []Inv
BY InitInv, NextInv, PTL DEF Spec

\* A pointer is only sent once its target has fully left: _send_t1 never
\* makes the replica's scene name a world that was never sent, whether the
\* lanes refuse, the artist pauses, undoes or opens another file, and a file
\* that replaces everything carries the world with the scene that names it.
THEOREM PointersResolve == Spec => []TargetsKnown
<1>1. Inv => TargetsKnown
    BY DEF Inv, HostOK, Closed, TargetsKnown
<1> QED
    BY <1>1, SpecInv, PTL

-----------------------------------------------------------------------------
(* What HostSync holds: the types of all of it.                            *)

AllKeys == {"pc", "todo", "budget", "reg", "known", "shadow", "vis", "dirty", "touch", "hash", "shipped", "prime",
            "box", "boot", "suppress", "drop", "auto", "recent", "paused", "rep"}

\* All but the fields named are as they were.
Same(y, z, fields) == \A k \in AllKeys \ fields : z[k] = y[k]

Tiers == {Tomb, 0, 1, 2}
Touches == {"no", "fresh", "ripe"}

Shape(y) ==
    /\ AllKeys \subseteq DOMAIN y
    /\ y.pc \in {"idle", "flush"} /\ y.budget \in 0..PerTick
    /\ y.dirty \in [D -> Tiers] /\ y.todo \in [D -> 0..2] /\ y.touch \in [D -> Touches]
    /\ y.reg \subseteq D /\ y.known \subseteq D /\ y.shipped \subseteq D /\ y.prime \subseteq Sendable
    /\ y.shadow \in File /\ y.hash \in File /\ y.rep \in File
    /\ y.box \in [D -> Box \union {None}] /\ y.vis \in [D -> Values \union {None}]
    /\ y.boot \in Boot \union {None}
    /\ y.suppress \in BOOLEAN /\ y.drop \in BOOLEAN /\ y.auto \in BOOLEAN /\ y.recent \in BOOLEAN /\ y.paused \in BOOLEAN

\* A mark is a tier; it is a tombstone only if it was one, and nothing clears it.
LEMMA RatchetTier ==
    \A d \in Tiers, t \in {1, 2} :
        /\ Ratchet(d, t) \in Tiers /\ Ratchet(d, t) # 0
        /\ Ratchet(d, t) = Tomb <=> d = Tomb
        /\ Ratchet(d, 1) = 2 <=> d = 2
        /\ d # Tomb => Ratchet(d, 2) = 2
        /\ Ratchet(d, t) = 1 => t = 1
BY DEF Ratchet, Tiers, Tomb

\* A snapshot of now.
LEMMA NowTyped == ASSUME SceneOK(scene), NEW u \in D
                  PROVE  /\ Now(u) \in Snapshot /\ Now(u) # None /\ scene[u].swept \in Values
                         /\ Now(u).light = scene[u].light /\ Now(u).heavy = scene[u].heavy
                         /\ Now(u).swept = scene[u].swept /\ Now(u).ptr = scene[u].ptr
<1>1. Now(u) \in Snapshot /\ Now(u) # None
    BY SnapshotNow
<1>2. scene[u].swept \in Values
    BY DEF SceneOK, Block
<1> QED
    BY <1>1, <1>2 DEF Now, BuildSnapshot

\* DirtySet.mark.
LEMMA MarkShape ==
    ASSUME NEW y, Shape(y), NEW u \in D, NEW t \in {1, 2}
    PROVE  LET z == Mark(y, u, t) IN
           /\ Shape(z) /\ Same(y, z, {"dirty"})
           /\ z.dirty[u] = Ratchet(y.dirty[u], t) /\ \A d \in D \ {u} : z.dirty[d] = y.dirty[d]
<1> DEFINE e == Ratchet(y.dirty[u], t)
           z == [y EXCEPT !.dirty = [y.dirty EXCEPT ![u] = e]]
<1>1. AllKeys \subseteq DOMAIN y /\ y.dirty \in [D -> Tiers]
    BY DEF Shape
<1>2. e \in Tiers
    BY <1>1, RatchetTier
<1> HIDE DEF e
<1>3. AllKeys \subseteq DOMAIN z /\ Same(y, z, {"dirty"}) /\ z.dirty = [y.dirty EXCEPT ![u] = e]
    BY <1>1 DEF Same, AllKeys
<1> HIDE DEF z
<1>4. Shape(z)
    BY <1>1, <1>2, <1>3 DEF Shape, Same, AllKeys
<1>5. z.dirty[u] = e /\ \A d \in D \ {u} : z.dirty[d] = y.dirty[d]
    BY <1>1, <1>3
<1> QED
    BY <1>3, <1>4, <1>5 DEF Mark, e, z

\* A refused delta is put back with the shadow it had.
LEMMA RefusedShape ==
    ASSUME NEW y, Shape(y), NEW u \in D, NEW old \in Snapshot
    PROVE  LET z == Refused(y, u, old) IN
           /\ Shape(z) /\ Same(y, z, {"dirty", "shadow"}) /\ z.dirty[u] = Ratchet(y.dirty[u], 1) /\ z.shadow[u] = old
           /\ \A d \in D \ {u} : z.dirty[d] = y.dirty[d] /\ z.shadow[d] = y.shadow[d]
<1> DEFINE m == Mark(y, u, 1)
           z == Refused(y, u, old)
<1>1. /\ Shape(m) /\ Same(y, m, {"dirty"}) /\ m.dirty[u] = Ratchet(y.dirty[u], 1)
      /\ \A d \in D \ {u} : m.dirty[d] = y.dirty[d]
    BY MarkShape
<1>2. z = [m EXCEPT !.shadow[u] = old, !.stuck = @ \union {u}]
  <2>1. old # None
      BY NoneAssumption DEF NoneAssumption
  <2> QED
      BY <2>1 DEF Refused
<1> HIDE DEF m, z
<1>3. AllKeys \subseteq DOMAIN m /\ m.shadow \in File
    BY <1>1 DEF Shape
<1>4. AllKeys \subseteq DOMAIN z /\ Same(m, z, {"shadow"}) /\ z.shadow = [m.shadow EXCEPT ![u] = old]
    BY <1>2, <1>3 DEF Same, AllKeys
<1>5. z.shadow \in File
    BY <1>3, <1>4 DEF File
<1>6. Shape(z)
    BY <1>1, <1>4, <1>5 DEF Shape, Same, AllKeys
<1>7. Same(y, z, {"dirty", "shadow"}) /\ z.dirty = m.dirty /\ m.shadow = y.shadow
    BY <1>1, <1>4 DEF Same, AllKeys
<1> QED
    BY <1>1, <1>3, <1>4, <1>6, <1>7 DEF File, z

\* The debouncer.
LEMMA TouchShape ==
    ASSUME NEW y, Shape(y), NEW u \in D, NEW t \in Touches,
           NEW z, z = [y EXCEPT !.touch[u] = t] \/ z = [y EXCEPT !.touch[u] = t, !.stuck = @ \ {u}]
    PROVE  Shape(z) /\ Same(y, z, {"touch"})
<1>1. AllKeys \subseteq DOMAIN y /\ y.touch \in [D -> Touches]
    BY DEF Shape
<1>2. AllKeys \subseteq DOMAIN z /\ Same(y, z, {"touch"}) /\ z.touch = [y.touch EXCEPT ![u] = t]
    BY <1>1 DEF Same, AllKeys
<1>3. Shape(z)
    BY <1>1, <1>2 DEF Shape, Same, AllKeys
<1> QED
    BY <1>2, <1>3

\* A datablock is registered.
LEMMA EnsureShape ==
    ASSUME NEW y, Shape(y), NEW us \in SUBSET D
    PROVE  LET z == EnsureUuid(y, us) IN Shape(z) /\ Same(y, z, {"reg"}) /\ z.reg = y.reg \union us
<1> DEFINE z == EnsureUuid(y, us)
<1>1. AllKeys \subseteq DOMAIN y /\ y.reg \subseteq D
    BY DEF Shape
<1>2. AllKeys \subseteq DOMAIN z /\ Same(y, z, {"reg"}) /\ z.reg = y.reg \union us
    BY <1>1 DEF Same, AllKeys, EnsureUuid
<1> HIDE DEF z
<1>3. Shape(z)
    BY <1>1, <1>2 DEF Shape, Same, AllKeys
<1> QED
    BY <1>2, <1>3 DEF z

\* An event does all three.
LEMMA EventShape ==
    ASSUME NEW y, Shape(y), NEW u \in D, NEW bake \in BOOLEAN
    PROVE  LET z == OnDepsgraph(y, u, bake) IN
           /\ Shape(z) /\ (y.suppress => z = y)
           /\ ~y.suppress => /\ Same(y, z, {"reg", "dirty", "touch"}) /\ z.reg = y.reg \union {u}
                             /\ z.dirty[u] = Ratchet(y.dirty[u], Tier(u, bake))
                             /\ \A d \in D \ {u} : z.dirty[d] = y.dirty[d]
<1> DEFINE a == EnsureUuid(y, {u})
           r == Tier(u, bake)
           m == Mark(a, u, r)
           t == [m EXCEPT !.touch[u] = "fresh", !.stuck = @ \ {u}]
           z == OnDepsgraph(y, u, bake)
<1>1. r \in {1, 2} /\ "fresh" \in Touches
    BY DEF Tier, Touches
<1>2. Shape(a) /\ Same(y, a, {"reg"}) /\ a.reg = y.reg \union {u}
    BY EnsureShape
<1> HIDE DEF a, r
<1>3. Shape(m) /\ Same(a, m, {"dirty"}) /\ m.dirty[u] = Ratchet(a.dirty[u], r)
      /\ \A d \in D \ {u} : m.dirty[d] = a.dirty[d]
    BY <1>1, <1>2, MarkShape, ZenonT(60)
<1> HIDE DEF m
<1>4. Shape(t) /\ Same(m, t, {"touch"})
    BY <1>1, <1>3, TouchShape
<1>5. z = IF y.suppress THEN y ELSE t
    BY DEF OnDepsgraph, Touch, a, m, r
<1> HIDE DEF t
<1>6. Same(y, t, {"reg", "dirty", "touch"}) /\ t.reg = y.reg \union {u} /\ t.dirty[u] = Ratchet(y.dirty[u], r)
      /\ \A d \in D \ {u} : t.dirty[d] = y.dirty[d]
    BY <1>2, <1>3, <1>4 DEF Same, AllKeys
<1> HIDE DEF z
<1> QED
    BY <1>4, <1>5, <1>6 DEF z, r

\* A blob or a delta changes what is held of one datablock.
Only(y, z, u) ==
    /\ Same(y, z, {"shadow", "hash", "box", "shipped", "rep"})
    /\ \A d \in D \ {u} : z.shadow[d] = y.shadow[d] /\ z.hash[d] = y.hash[d] /\ z.box[d] = y.box[d] /\ z.rep[d] = y.rep[d]

\* A record with new functions in these five fields has the shape of the old one.
LEMMA OnlyShape ==
    ASSUME NEW y, Shape(y), NEW z, AllKeys \subseteq DOMAIN z, Same(y, z, {"shadow", "hash", "box", "shipped", "rep"}),
           z.shadow \in File, z.hash \in File, z.rep \in File, z.box \in [D -> Box \union {None}], z.shipped \subseteq D
    PROVE  Shape(z)
BY DEF Shape, Same, AllKeys

\* A snapshot is taken.
LEMMA SnapShape ==
    ASSUME NEW y, Shape(y), NEW u \in D, NEW v \in Snapshot \union {None}
    PROVE  LET z == [y EXCEPT !.shadow[u] = v] IN
           /\ Shape(z) /\ Only(y, z, u) /\ z.shadow[u] = v
           /\ z.hash = y.hash /\ z.box = y.box /\ z.rep = y.rep /\ z.shipped = y.shipped
<1> DEFINE z == [y EXCEPT !.shadow[u] = v]
<1>1. AllKeys \subseteq DOMAIN y /\ y.shadow \in File /\ y.hash \in File /\ y.rep \in File
      /\ y.box \in [D -> Box \union {None}] /\ y.shipped \subseteq D
    BY DEF Shape
<1>2. /\ AllKeys \subseteq DOMAIN z /\ Same(y, z, {"shadow"}) /\ z.shadow = [y.shadow EXCEPT ![u] = v]
      /\ Same(y, z, {"shadow", "hash", "box", "shipped", "rep"})
      /\ z.hash = y.hash /\ z.box = y.box /\ z.rep = y.rep /\ z.shipped = y.shipped
    BY <1>1 DEF Same, AllKeys
<1> HIDE DEF z
<1>3. z.shadow \in File /\ z.shadow[u] = v /\ \A d \in D \ {u} : z.shadow[d] = y.shadow[d]
    BY <1>1, <1>2 DEF File
<1>4. Shape(z)
    BY <1>1, <1>2, <1>3, OnlyShape
<1> QED
    BY <1>2, <1>3, <1>4 DEF Only, z

\* A hash is taken.
LEMMA HashShape ==
    ASSUME NEW y, Shape(y), NEW u \in D, NEW v \in Snapshot
    PROVE  LET z == [y EXCEPT !.hash[u] = v] IN
           /\ Shape(z) /\ Only(y, z, u) /\ z.hash[u] = v
           /\ z.shadow = y.shadow /\ z.box = y.box /\ z.rep = y.rep /\ z.shipped = y.shipped
<1> DEFINE z == [y EXCEPT !.hash[u] = v]
<1>1. AllKeys \subseteq DOMAIN y /\ y.shadow \in File /\ y.hash \in File /\ y.rep \in File
      /\ y.box \in [D -> Box \union {None}] /\ y.shipped \subseteq D
    BY DEF Shape
<1>2. /\ AllKeys \subseteq DOMAIN z /\ z.hash = [y.hash EXCEPT ![u] = v]
      /\ Same(y, z, {"shadow", "hash", "box", "shipped", "rep"})
      /\ z.shadow = y.shadow /\ z.box = y.box /\ z.rep = y.rep /\ z.shipped = y.shipped
    BY <1>1 DEF Same, AllKeys
<1> HIDE DEF z
<1>3. z.hash \in File /\ z.hash[u] = v /\ \A d \in D \ {u} : z.hash[d] = y.hash[d]
    BY <1>1, <1>2 DEF File
<1>4. Shape(z)
    BY <1>1, <1>2, <1>3, OnlyShape
<1> QED
    BY <1>2, <1>3, <1>4 DEF Only, z

\* A blob is put in its box.
LEMMA BoxShape ==
    ASSUME NEW y, Shape(y), NEW u \in D, NEW b \in Box
    PROVE  LET z == [y EXCEPT !.box[u] = b] IN
           /\ Shape(z) /\ Only(y, z, u) /\ z.box[u] = b
           /\ z.shadow = y.shadow /\ z.hash = y.hash /\ z.rep = y.rep /\ z.shipped = y.shipped
<1> DEFINE z == [y EXCEPT !.box[u] = b]
<1>1. AllKeys \subseteq DOMAIN y /\ y.shadow \in File /\ y.hash \in File /\ y.rep \in File
      /\ y.box \in [D -> Box \union {None}] /\ y.shipped \subseteq D
    BY DEF Shape
<1>2. /\ AllKeys \subseteq DOMAIN z /\ z.box = [y.box EXCEPT ![u] = b]
      /\ Same(y, z, {"shadow", "hash", "box", "shipped", "rep"})
      /\ z.shadow = y.shadow /\ z.hash = y.hash /\ z.rep = y.rep /\ z.shipped = y.shipped
    BY <1>1 DEF Same, AllKeys
<1> HIDE DEF z
<1>3. z.box \in [D -> Box \union {None}] /\ z.box[u] = b /\ \A d \in D \ {u} : z.box[d] = y.box[d]
    BY <1>1, <1>2
<1>4. Shape(z)
    BY <1>1, <1>2, <1>3, OnlyShape
<1> QED
    BY <1>2, <1>3, <1>4 DEF Only, z

\* A blob's last chunk leaves.
LEMMA DeliveredShape ==
    ASSUME NEW y, Shape(y), NEW u \in D, NEW v \in Snapshot
    PROVE  LET z == Delivered(y, u, v) IN
           /\ Shape(z) /\ Only(y, z, u) /\ z.box[u] = None /\ z.rep[u] = v
           /\ z.shadow = y.shadow /\ z.hash = y.hash
<1> DEFINE z == Delivered(y, u, v)
<1>1. AllKeys \subseteq DOMAIN y /\ y.shadow \in File /\ y.hash \in File /\ y.rep \in File
      /\ y.box \in [D -> Box \union {None}] /\ y.shipped \subseteq D
    BY DEF Shape
<1>2. /\ AllKeys \subseteq DOMAIN z /\ z.box = [y.box EXCEPT ![u] = None] /\ z.rep = [y.rep EXCEPT ![u] = v]
      /\ Same(y, z, {"shadow", "hash", "box", "shipped", "rep"})
      /\ z.shadow = y.shadow /\ z.hash = y.hash /\ z.shipped = y.shipped \union {u}
    BY <1>1 DEF Same, AllKeys, Delivered
<1> HIDE DEF z
<1>3. z.box \in [D -> Box \union {None}] /\ z.box[u] = None /\ \A d \in D \ {u} : z.box[d] = y.box[d]
    BY <1>1, <1>2
<1>4. z.rep \in File /\ z.rep[u] = v /\ \A d \in D \ {u} : z.rep[d] = y.rep[d]
    BY <1>1, <1>2 DEF File
<1>5. Shape(z)
    BY <1>1, <1>2, <1>3, <1>4, OnlyShape
<1> QED
    BY <1>2, <1>3, <1>4, <1>5 DEF Only, z

\* Two changes of one datablock are one.
LEMMA OnlyTwice == ASSUME NEW y, NEW z, NEW t, NEW u, Only(y, z, u), Only(z, t, u) PROVE Only(y, t, u)
BY DEF Only, Same

\* _flush_t2: skipped, or on its way.
LEMMA FlushT2Shape ==
    ASSUME SceneOK(scene), NEW y, Shape(y), NEW u \in D \ Scenes, NEW left \in 0..Chunks
    PROVE  LET z == FlushT2(y, u, left) IN
           /\ ~Seen(y, u) => z = y
           /\ Seen(y, u) =>
                /\ Shape(z) /\ Only(y, z, u) /\ z.hash[u] = Now(u)
                /\ z.shadow[u] = IF u \in Tracked THEN Now(u) ELSE y.shadow[u]
                /\ \/ u \in y.shipped /\ y.hash[u] = Now(u) /\ z.box[u] = y.box[u] /\ z.rep[u] = y.rep[u]
                   \/ z.box[u] = None /\ z.rep[u] = Now(u)
                   \/ left # 0 /\ z.box[u] # None /\ z.box[u].val = Now(u) /\ z.rep[u] = y.rep[u]
<1> DEFINE v == IF u \in Tracked THEN Now(u) ELSE y.shadow[u]
           t == [y EXCEPT !.shadow[u] = v]
           h == [t EXCEPT !.hash[u] = Now(u)]
           b == [left |-> left, val |-> Now(u)]
           q == [h EXCEPT !.box[u] = b]
           p == Delivered(h, u, Now(u))
           z == FlushT2(y, u, left)
<1> SUFFICES ASSUME Seen(y, u)
             PROVE  /\ Shape(z) /\ Only(y, z, u) /\ z.hash[u] = Now(u) /\ z.shadow[u] = v
                    /\ \/ u \in y.shipped /\ y.hash[u] = Now(u) /\ z.box[u] = y.box[u] /\ z.rep[u] = y.rep[u]
                       \/ z.box[u] = None /\ z.rep[u] = Now(u)
                       \/ left # 0 /\ z.box[u] # None /\ z.box[u].val = Now(u) /\ z.rep[u] = y.rep[u]
    BY DEF FlushT2
<1>1. Now(u) \in Snapshot /\ v \in Snapshot \union {None}
    BY SnapshotNow DEF Shape, File
<1>2. z = IF u \in y.shipped /\ y.hash[u] = Now(u) THEN t ELSE IF left = 0 THEN p ELSE q
    BY DEF FlushT2, BlobDigest
<1> HIDE DEF v, z
<1>3. Shape(t) /\ Only(y, t, u) /\ t.shadow[u] = v /\ t.hash = y.hash /\ t.box = y.box /\ t.rep = y.rep
    BY <1>1, SnapShape
<1> HIDE DEF t
<1>4. Shape(h) /\ Only(t, h, u) /\ h.hash[u] = Now(u) /\ h.shadow = t.shadow /\ h.box = t.box /\ h.rep = t.rep
    BY <1>1, <1>3, HashShape
<1> HIDE DEF h
<1>5. Only(y, h, u)
    BY <1>3, <1>4, OnlyTwice
<1>6. Shape(p) /\ Only(h, p, u) /\ p.box[u] = None /\ p.rep[u] = Now(u) /\ p.shadow = h.shadow /\ p.hash = h.hash
    BY <1>1, <1>4, DeliveredShape
<1> HIDE DEF p
<1>7. ASSUME left # 0 PROVE Shape(q) /\ Only(h, q, u) /\ q.box[u] # None /\ q.box[u].val = Now(u)
                            /\ q.shadow = h.shadow /\ q.hash = h.hash /\ q.rep = h.rep
  <2>1. b \in Box /\ b # None /\ b.val = Now(u)
    <3>1. b \in Box /\ b.val = Now(u)
        BY <1>1, <1>7, Parts DEF Box
    <3> QED
        BY <3>1, NoneAssumption DEF NoneAssumption
  <2> HIDE DEF b
  <2> QED
      BY <1>4, <2>1, BoxShape
<1> HIDE DEF q
<1>8. CASE u \in y.shipped /\ y.hash[u] = Now(u)
    BY <1>2, <1>3, <1>8
<1>9. CASE ~(u \in y.shipped /\ y.hash[u] = Now(u)) /\ left = 0
  <2>1. z = p
      BY <1>2, <1>9
  <2>2. Only(y, p, u)
      BY <1>5, <1>6, OnlyTwice
  <2> QED
      BY <1>3, <1>4, <1>6, <2>1, <2>2
<1>10. CASE ~(u \in y.shipped /\ y.hash[u] = Now(u)) /\ left # 0
  <2>1. z = q
      BY <1>2, <1>10
  <2>2. Only(y, q, u)
      BY <1>5, <1>7, <1>10, OnlyTwice
  <2> QED
      BY <1>3, <1>4, <1>7, <1>10, <2>1, <2>2
<1> QED
    BY <1>8, <1>9, <1>10

\* A delta, on a replica that has the datablock, writes the paths that differ from the shadow.
LEMMA AppliedShape ==
    ASSUME SceneOK(scene), NEW y, Shape(y), NEW u \in D, NEW was \in Snapshot
    PROVE  LET z == Applied(y, u, was) IN
           /\ Shape(z) /\ Only(y, z, u) /\ z.shadow = y.shadow /\ z.hash = y.hash /\ z.box = y.box
           /\ y.rep[u] = None => z.rep[u] = None
           /\ y.rep[u] # None =>
                /\ z.rep[u] # None /\ z.rep[u].heavy = y.rep[u].heavy
                /\ z.rep[u].light = IF was.light # scene[u].light THEN scene[u].light ELSE y.rep[u].light
                /\ z.rep[u].swept = IF was.swept # scene[u].swept THEN scene[u].swept ELSE y.rep[u].swept
                /\ z.rep[u].ptr = IF was.ptr # scene[u].ptr THEN scene[u].ptr ELSE y.rep[u].ptr
<1> DEFINE z == Applied(y, u, was)
           r == y.rep[u]
           d == [f \in DOMAIN r |-> IF f # "heavy" /\ was[f] # Now(u)[f] THEN Now(u)[f] ELSE r[f]]
<1>1. AllKeys \subseteq DOMAIN y /\ y.shadow \in File /\ y.hash \in File /\ y.rep \in File
      /\ y.box \in [D -> Box \union {None}] /\ y.shipped \subseteq D
    BY DEF Shape
<1>2. CASE r = None
  <2>1. z = y
      BY <1>2 DEF Applied
  <2> QED
      BY <1>2, <2>1 DEF Only, Same
<1>3. CASE r # None
  <2>1. r \in Snapshot
      BY <1>1, <1>3 DEF File
  <2>2. /\ Now(u) \in Snapshot /\ Now(u).light = scene[u].light /\ Now(u).heavy = scene[u].heavy
        /\ Now(u).swept = scene[u].swept /\ Now(u).ptr = scene[u].ptr
      BY NowTyped
  <2>3. z = [y EXCEPT !.rep[u] = d]
      BY <1>3 DEF Applied
  <2> HIDE DEF r
  <2>4. /\ d \in Snapshot /\ d.heavy = r.heavy
        /\ d.light = IF was.light # Now(u).light THEN Now(u).light ELSE r.light
        /\ d.swept = IF was.swept # Now(u).swept THEN Now(u).swept ELSE r.swept
        /\ d.ptr = IF was.ptr # Now(u).ptr THEN Now(u).ptr ELSE r.ptr
      BY <2>1, <2>2 DEF Snapshot
  <2>5. d # None
      BY <2>4, NoneAssumption DEF NoneAssumption
  <2> HIDE DEF d, z
  <2>6. /\ AllKeys \subseteq DOMAIN z /\ z.rep = [y.rep EXCEPT ![u] = d]
        /\ Same(y, z, {"shadow", "hash", "box", "shipped", "rep"})
        /\ z.shadow = y.shadow /\ z.hash = y.hash /\ z.box = y.box /\ z.shipped = y.shipped
      BY <1>1, <2>3 DEF Same, AllKeys
  <2>7. z.rep \in File /\ z.rep[u] = d /\ \A e \in D \ {u} : z.rep[e] = y.rep[e]
      BY <1>1, <2>4, <2>6 DEF File
  <2>8. Shape(z)
      BY <1>1, <2>6, <2>7, OnlyShape
  <2>9. Only(y, z, u)
      BY <2>6, <2>7 DEF Only
  <2> QED
      BY <1>3, <2>2, <2>4, <2>5, <2>6, <2>7, <2>8, <2>9 DEF z, r
<1> QED
    BY <1>2, <1>3

\* The sweep of what has no event.
LEMMA VisibilityShape ==
    ASSUME SceneOK(scene), NEW y, Shape(y)
    PROVE  LET z == SweepVisibility(y)
               changed(u) == Seen(y, u) /\ y.vis[u] # scene[u].swept
               marked(u) == changed(u) /\ (u \in Tracked \/ y.vis[u] # None)
           IN  /\ Shape(z) /\ Same(y, z, {"vis", "dirty", "touch"})
               /\ \A u \in D : /\ z.vis[u] = IF changed(u) THEN scene[u].swept ELSE y.vis[u]
                               /\ z.dirty[u] = IF marked(u) THEN Ratchet(y.dirty[u], Tier(u, FALSE)) ELSE y.dirty[u]
<1> DEFINE z == SweepVisibility(y)
           changed == {u \in D : Seen(y, u) /\ y.vis[u] # SweepVector(scene, u)}
           marked == {u \in changed : u \in Tracked \/ y.vis[u] # None}
           v == [u \in D |-> IF u \in changed THEN SweepVector(scene, u) ELSE y.vis[u]]
           d == [u \in D |-> IF u \in marked THEN Ratchet(y.dirty[u], Tier(u, FALSE)) ELSE y.dirty[u]]
           t == [u \in D |-> IF u \in marked THEN "ripe" ELSE y.touch[u]]
<1>1. AllKeys \subseteq DOMAIN y /\ y.dirty \in [D -> Tiers] /\ y.vis \in [D -> Values \union {None}] /\ y.touch \in [D -> Touches]
    BY DEF Shape
<1>2. /\ AllKeys \subseteq DOMAIN z /\ Same(y, z, {"vis", "dirty", "touch"}) /\ z.vis = v /\ z.dirty = d /\ z.touch = t
    BY <1>1 DEF Same, AllKeys, SweepVisibility
<1>3. \A u \in D : SweepVector(scene, u) = scene[u].swept /\ scene[u].swept \in Values
    BY DEF SweepVector, SceneOK, Block
<1>4. \A u \in D : Tier(u, FALSE) \in {1, 2}
    BY DEF Tier
<1> HIDE DEF z
<1>5. v \in [D -> Values \union {None}] /\ t \in [D -> Touches]
    BY <1>1, <1>3 DEF Touches
<1>6. d \in [D -> Tiers]
    BY <1>1, <1>4, RatchetTier
<1>7. Shape(z)
  <2> HIDE DEF v, d, t
  <2> QED
      BY <1>2, <1>5, <1>6 DEF Shape, Same, AllKeys
<1>8. \A u \in D : /\ v[u] = IF Seen(y, u) /\ y.vis[u] # scene[u].swept THEN scene[u].swept ELSE y.vis[u]
                   /\ d[u] = IF Seen(y, u) /\ y.vis[u] # scene[u].swept /\ (u \in Tracked \/ y.vis[u] # None)
                             THEN Ratchet(y.dirty[u], Tier(u, FALSE)) ELSE y.dirty[u]
    BY <1>3
<1> QED
  <2> HIDE DEF v, d, t
  <2> QED
      BY <1>2, <1>7, <1>8 DEF z

\* The sweep of what is gone, and of what is back.
LEMMA DeletionsShape ==
    ASSUME NEW y, Shape(y)
    PROVE  LET z == SweepDeletions(y)
               back(u) == scene[u].alive /\ u \notin y.reg
               dead(u) == u \in y.reg /\ ~scene[u].alive
           IN  /\ Shape(z) /\ Same(y, z, {"reg", "shadow", "touch", "dirty"})
               /\ \A u \in D : /\ u \in z.reg <=> scene[u].alive /\ (u \in y.reg \/ back(u))
                               /\ z.shadow[u] = IF dead(u) THEN None ELSE y.shadow[u]
                               /\ z.dirty[u] = IF back(u) THEN Ratchet(y.dirty[u], 2)
                                               ELSE IF dead(u) THEN IF u \in y.known THEN Tomb ELSE 0 ELSE y.dirty[u]
<1> DEFINE z == SweepDeletions(y)
           back == {u \in D : scene[u].alive /\ u \notin y.reg}
           dead == {u \in y.reg : ~scene[u].alive}
           s == [u \in D |-> IF u \in dead THEN None ELSE y.shadow[u]]
           t == [u \in D |-> IF u \in dead THEN "no" ELSE IF u \in back THEN "fresh" ELSE y.touch[u]]
           d == [u \in D |-> IF u \in back THEN Ratchet(y.dirty[u], 2)
                             ELSE IF u \in dead THEN MarkDeleted(y, u) ELSE y.dirty[u]]
<1>1. AllKeys \subseteq DOMAIN y /\ y.dirty \in [D -> Tiers] /\ y.touch \in [D -> Touches] /\ y.shadow \in File /\ y.reg \subseteq D
    BY DEF Shape
<1>2. /\ AllKeys \subseteq DOMAIN z /\ Same(y, z, {"reg", "shadow", "touch", "dirty"}) /\ z.shadow = s /\ z.dirty = d /\ z.touch = t
      /\ z.reg = (y.reg \union back) \ dead
    BY <1>1 DEF Same, AllKeys, SweepDeletions
<1> HIDE DEF z
<1>3. s \in File /\ t \in [D -> Touches] /\ (y.reg \union back) \ dead \subseteq D
    BY <1>1 DEF Touches, File
<1>4. \A u \in D : MarkDeleted(y, u) \in Tiers
    BY DEF MarkDeleted, Tiers
<1>5. d \in [D -> Tiers]
    BY <1>1, <1>4, RatchetTier
<1>6. Shape(z)
  <2> HIDE DEF s, d, t, back, dead
  <2> QED
      BY <1>2, <1>3, <1>5 DEF Shape, Same, AllKeys
<1>7. \A u \in D : /\ u \in (y.reg \union back) \ dead <=> scene[u].alive /\ (u \in y.reg \/ (scene[u].alive /\ u \notin y.reg))
                   /\ s[u] = IF u \in y.reg /\ ~scene[u].alive THEN None ELSE y.shadow[u]
                   /\ d[u] = IF scene[u].alive /\ u \notin y.reg THEN Ratchet(y.dirty[u], 2)
                             ELSE IF u \in y.reg /\ ~scene[u].alive THEN IF u \in y.known THEN Tomb ELSE 0 ELSE y.dirty[u]
    BY <1>1 DEF MarkDeleted
<1> QED
  <2> HIDE DEF s, d, t, back, dead
  <2> QED
      BY <1>2, <1>6, <1>7 DEF z

\* The hash of one datablock that the file brought.
LEMMA PrimeShape ==
    ASSUME SceneOK(scene), NEW y, Shape(y), NEW u \in D
    PROVE  LET z == PrimeHashes(y, u) IN
           /\ Shape(z) /\ Same(y, z, {"prime", "hash"}) /\ z.prime = y.prime \ {u}
           /\ \A d \in D \ {u} : z.hash[d] = y.hash[d]
           /\ z.hash[u] = y.hash[u] \/ (z.hash[u] = Now(u) /\ Seen(y, u) /\ y.hash[u] = None)
<1> DEFINE z == PrimeHashes(y, u)
           v == IF y.hash[u] = None /\ Seen(y, u) THEN Now(u) ELSE y.hash[u]
<1>1. AllKeys \subseteq DOMAIN y /\ y.hash \in File /\ y.prime \subseteq Sendable
    BY DEF Shape
<1>2. v \in Snapshot \union {None}
    BY <1>1, SnapshotNow DEF File
<1>3. AllKeys \subseteq DOMAIN z /\ Same(y, z, {"prime", "hash"}) /\ z.prime = y.prime \ {u} /\ z.hash = [y.hash EXCEPT ![u] = v]
    BY <1>1 DEF Same, AllKeys, PrimeHashes, BlobDigest
<1> HIDE DEF z
<1>4. z.hash \in File /\ z.hash[u] = v /\ \A d \in D \ {u} : z.hash[d] = y.hash[d]
  <2> HIDE DEF v
  <2> QED
      BY <1>1, <1>2, <1>3 DEF File
<1>5. Shape(z)
    BY <1>1, <1>3, <1>4 DEF Shape, Same, AllKeys
<1> QED
    BY <1>3, <1>4, <1>5 DEF z

\* A tick takes the tombstones and what is ripe.
LEMMA DrainShape ==
    ASSUME NEW y, Shape(y), NEW refused \in SUBSET {u \in D : y.dirty[u] = Tomb}
    PROVE  LET z == Drain(y, refused) IN
           /\ Shape(z) /\ Same(y, z, {"known", "rep", "dirty", "todo", "touch", "budget", "pc"}) /\ z.pc = "flush"
           /\ \A u \in D : /\ u \in z.known <=>
                                  \/ y.dirty[u] # Tomb /\ (u \in y.known \/ y.dirty[u] > 0)
                                  \/ u \in refused /\ u \in y.known
                           /\ z.rep[u] = IF y.dirty[u] = Tomb /\ u \notin refused THEN None ELSE y.rep[u]
                           /\ y.dirty[u] = Tomb /\ u \notin refused => z.dirty[u] = 0 /\ z.todo[u] = 0
                           /\ u \in refused => z.dirty[u] = Tomb /\ z.todo[u] = 0
                           /\ y.dirty[u] = 0 => z.dirty[u] = 0 /\ z.todo[u] = 0
                           /\ y.dirty[u] > 0 => \/ z.dirty[u] = 0 /\ z.todo[u] = y.dirty[u]
                                                \/ z.dirty[u] = y.dirty[u] /\ z.todo[u] = 0
<1> DEFINE z == Drain(y, refused)
           tombs == {u \in D : y.dirty[u] = Tomb}
           some == {u \in D : y.dirty[u] > 0}
           go == {u \in D : y.dirty[u] > 0 /\ y.touch[u] = "ripe"}
           k == (y.known \union some) \ (tombs \ refused)
           r == [u \in D |-> IF u \in tombs \ refused THEN None ELSE y.rep[u]]
           d == [u \in D |-> IF u \in go \union (tombs \ refused) THEN 0 ELSE y.dirty[u]]
           n == [u \in D |-> IF u \in go THEN y.dirty[u] ELSE 0]
           t == [u \in D |-> IF y.touch[u] = "ripe" THEN "no" ELSE y.touch[u]]
<1>1. /\ AllKeys \subseteq DOMAIN y /\ y.dirty \in [D -> Tiers] /\ y.touch \in [D -> Touches] /\ y.rep \in File /\ y.known \subseteq D
    BY DEF Shape
<1>2. /\ AllKeys \subseteq DOMAIN z /\ Same(y, z, {"known", "rep", "dirty", "todo", "touch", "budget", "pc"})
      /\ z.known = k /\ z.rep = r /\ z.dirty = d /\ z.todo = n /\ z.touch = t /\ z.budget = PerTick /\ z.pc = "flush"
    BY <1>1 DEF Same, AllKeys, Drain
<1> HIDE DEF z
<1>3. k \subseteq D /\ r \in File /\ t \in [D -> Touches]
    BY <1>1 DEF Touches, File
<1>4. d \in [D -> Tiers] /\ n \in [D -> 0..2]
    BY <1>1 DEF Tiers, Tomb
<1>5. PerTick \in 0..PerTick
    BY FlushAssumption DEF FlushAssumption
<1>6. Shape(z)
  <2> HIDE DEF k, r, d, n, t
  <2> QED
      BY <1>2, <1>3, <1>4, <1>5 DEF Shape, Same, AllKeys
<1>7. \A u \in D : /\ u \in k <=> 
                                  \/ y.dirty[u] # Tomb /\ (u \in y.known \/ y.dirty[u] > 0)
                                  \/ u \in refused /\ u \in y.known
                   /\ r[u] = IF y.dirty[u] = Tomb /\ u \notin refused THEN None ELSE y.rep[u]
                   /\ y.dirty[u] = Tomb /\ u \notin refused => d[u] = 0 /\ n[u] = 0
                   /\ u \in refused => d[u] = Tomb /\ n[u] = 0
                   /\ y.dirty[u] = 0 => d[u] = 0 /\ n[u] = 0
                   /\ y.dirty[u] > 0 => \/ d[u] = 0 /\ n[u] = y.dirty[u]
                                        \/ d[u] = y.dirty[u] /\ n[u] = 0
    BY <1>1 DEF Tomb
<1> QED
  <2> HIDE DEF k, r, d, n, t
  <2> QED
      BY <1>2, <1>6, <1>7 DEF z

\* A file is serialized.
LEMMA BootstrapShape ==
    ASSUME NEW s, SceneOK(s), NEW y, Shape(y)
    PROVE  LET z == SendBootstrap(y, s) IN
           /\ Shape(z) /\ Same(y, z, {"boot", "shipped", "hash", "prime", "suppress", "recent"})
           /\ z.suppress = FALSE /\ z.recent = TRUE /\ z.boot # None
           /\ \A u \in D : /\ z.boot.file[u] = IF InFile(s, u) THEN BuildSnapshot(s, u) ELSE None
                           /\ z.hash[u] = None
                           /\ u \in z.prime <=> u \in y.reg /\ InFile(s, u) /\ u \in Sendable
<1> DEFINE z == SendBootstrap(y, s)
           f == [u \in D |-> IF InFile(s, u) THEN BuildSnapshot(s, u) ELSE None]
           b == [left |-> Chunks, file |-> f]
           in == {u \in y.reg : InFile(s, u)}
           h == [u \in D |-> None]
<1>1. AllKeys \subseteq DOMAIN y /\ y.reg \subseteq D
    BY DEF Shape
<1>2. /\ AllKeys \subseteq DOMAIN z /\ Same(y, z, {"boot", "shipped", "hash", "prime", "suppress", "recent"})
      /\ z.boot = b /\ z.shipped = in /\ z.hash = h /\ z.prime = in \cap Sendable /\ z.suppress = FALSE /\ z.recent = TRUE
    BY <1>1 DEF Same, AllKeys, SendBootstrap
<1>3. f \in File /\ h \in File
    BY SnapshotOf DEF File
<1>4. b \in Boot /\ b # None /\ b.file = f
  <2> HIDE DEF f
  <2>1. b \in Boot /\ b.file = f
      BY <1>3, Parts DEF Boot
  <2> QED
      BY <2>1, NoneAssumption DEF NoneAssumption
<1>5. in \subseteq D /\ in \cap Sendable \subseteq Sendable
    BY <1>1
<1> HIDE DEF z, b
<1>6. Shape(z)
  <2> HIDE DEF f, in, h
  <2> QED
      BY <1>2, <1>3, <1>4, <1>5 DEF Shape, Same, AllKeys
<1>7. \A u \in D : /\ f[u] = IF InFile(s, u) THEN BuildSnapshot(s, u) ELSE None
                   /\ h[u] = None
                   /\ u \in in \cap Sendable <=> u \in y.reg /\ InFile(s, u) /\ u \in Sendable
    OBVIOUS
<1> QED
  <2> HIDE DEF f, in, h
  <2> QED
      BY <1>2, <1>4, <1>6, <1>7 DEF z

\* A file is opened: all of it is known.
LEMMA ScanShape ==
    ASSUME NEW s, SceneOK(s), NEW y, Shape(y)
    PROVE  LET z == InitialScan(y, s) IN
           /\ Shape(z) /\ Same(y, z, {"reg", "known", "dirty", "touch", "shadow", "vis"})
           /\ \A u \in D : /\ (u \in z.reg <=> s[u].alive) /\ (u \in z.known <=> s[u].alive)
                           /\ z.dirty[u] = 0
                           /\ z.shadow[u] = IF u \in Tracked /\ InFile(s, u) THEN BuildSnapshot(s, u) ELSE None
                           /\ z.vis[u] = IF u \in Objects /\ InFile(s, u) THEN s[u].swept ELSE y.vis[u]
<1> DEFINE z == InitialScan(y, s)
           live == {u \in D : s[u].alive}
           d == [u \in D |-> 0]
           t == [u \in D |-> "no"]
           h == [u \in D |-> IF u \in Tracked /\ InFile(s, u) THEN BuildSnapshot(s, u) ELSE None]
           v == [u \in D |-> IF u \in Objects /\ InFile(s, u) THEN SweepVector(s, u) ELSE y.vis[u]]
<1>1. AllKeys \subseteq DOMAIN y /\ y.vis \in [D -> Values \union {None}]
    BY DEF Shape
<1>2. /\ AllKeys \subseteq DOMAIN z /\ Same(y, z, {"reg", "known", "dirty", "touch", "shadow", "vis"})
      /\ z.reg = live /\ z.known = live /\ z.dirty = d /\ z.touch = t /\ z.shadow = h /\ z.vis = v
    BY <1>1 DEF Same, AllKeys, InitialScan
<1>3. \A u \in D : SweepVector(s, u) = s[u].swept /\ s[u].swept \in Values
    BY DEF SweepVector, SceneOK, Block
<1>4. h \in File /\ v \in [D -> Values \union {None}]
    BY <1>1, <1>3, SnapshotOf DEF File
<1>5. d \in [D -> Tiers] /\ t \in [D -> Touches] /\ live \subseteq D
    BY DEF Tiers, Touches
<1> HIDE DEF z
<1>6. Shape(z)
  <2> HIDE DEF d, t, h, v, live
  <2> QED
      BY <1>2, <1>4, <1>5 DEF Shape, Same, AllKeys
<1>7. \A u \in D : /\ (u \in live <=> s[u].alive) /\ d[u] = 0
                   /\ h[u] = IF u \in Tracked /\ InFile(s, u) THEN BuildSnapshot(s, u) ELSE None
                   /\ v[u] = IF u \in Objects /\ InFile(s, u) THEN s[u].swept ELSE y.vis[u]
    BY <1>3
<1> QED
  <2> HIDE DEF d, t, h, v, live
  <2> QED
      BY <1>2, <1>6, <1>7 DEF z

-----------------------------------------------------------------------------
(* The accounts: for each datablock, what is coming, what is marked, and   *)
(* why what is neither is right.                                           *)

\* What the replica will hold of a datablock once all that has been serialized
\* has arrived: a box goes behind the file.
Coming(y, u) == IF y.box[u] # None THEN y.box[u].val ELSE IF y.boot # None THEN y.boot.file[u] ELSE y.rep[u]

\* HashedFirst, of any state: a hash could be taken before the sweep sees a silent change.
Blind(y, s, u) ==
    \/ u \in Meshes /\ (y.vis[u] = None \/ y.box[u] # None)
    \/ u \in y.prime /\ (u \in Tracked => y.shadow[u] = None \/ y.shadow[u].heavy # s[u].heavy)

\* The next tick or the next sweep will look at the datablock.
Marked(y, s, u) ==
    \/ y.dirty[u] # 0 \/ y.todo[u] # 0 \/ u \notin y.reg
    \/ y.vis[u] # s[u].swept /\ ~Blind(y, s, u)

\* What is coming is what is there; a scene's structure comes with the file asked for.
Arrives(y, s, u) ==
    LET c == Coming(y, u)
    IN  /\ c # None /\ c.light = s[u].light /\ c.swept = s[u].swept /\ c.ptr = s[u].ptr
        /\ c.heavy = s[u].heavy \/ (u \in Scenes /\ y.auto)

\* Whatever is flushed of the datablock goes as a delta, which no hash holds up.
ByDelta(y, s, u) ==
    /\ u \in Tracked /\ y.shadow[u] # None /\ y.shadow[u].heavy = s[u].heavy
    /\ y.dirty[u] # 2 /\ y.todo[u] # 2

\* A path that has not changed since the shadow was taken is right on the replica.
Baseline(y, s, u) ==
    LET c == Coming(y, u)
        old == y.shadow[u]
    IN  u \in Tracked /\ old # None =>
            /\ c # None \/ u \in Worlds
            /\ c # None => /\ old.light = s[u].light => c.light = s[u].light
                           /\ old.swept = s[u].swept => c.swept = s[u].swept
                           /\ old.ptr = s[u].ptr => c.ptr = s[u].ptr
                           /\ old.heavy = s[u].heavy => c.heavy = s[u].heavy \/ (u \in Scenes /\ y.auto)

\* A datablock that is there: a skipped blob is one the replica holds, and what
\* nobody will look at again is right.
Live(y, s, u) ==
    /\ u \notin y.reg => y.hash[u] = None /\ y.box[u] = None
    /\ Baseline(y, s, u)
    /\ y.hash[u] = BuildSnapshot(s, u) => /\ Coming(y, u) # None
                                          /\ Arrives(y, s, u) \/ ByDelta(y, s, u)
    /\ Marked(y, s, u) \/ Arrives(y, s, u) \/ (u \in Worlds /\ Coming(y, u) = None)
    /\ y.box[u] # None /\ u \in Tracked /\ u \in y.reg =>
         y.shadow[u] # None /\ (y.shadow[u].heavy = s[u].heavy \/ y.dirty[u] # 0 \/ y.todo[u] # 0)

\* One that is gone: its tombstone waits, or will.
Gone(y, u) == Coming(y, u) # None => y.dirty[u] = Tomb \/ (u \in y.reg /\ u \in y.known)

\* A world without users is sent with nothing; a scene is never sent as a blob.
World(y, s, w) ==
    /\ w \in y.reg /\ y.dirty[w] # 2 /\ y.todo[w] # 2
    /\ ~s[w].used => w \notin y.prime /\ (y.shadow[w] = None => Coming(y, w) = None)

SceneBlock(y, s, u) ==
    /\ y.shadow[u] # None /\ u \in y.reg /\ y.dirty[u] # 2 /\ y.todo[u] # 2 /\ u \notin y.prime /\ y.hash[u] = None
    /\ y.recent => Coming(y, u).heavy = s[u].heavy

Within(v, n) == v = None \/ (v.light <= n /\ v.heavy <= n /\ v.swept <= n)

\* At any time: no value is newer than the last edit, and pointers do not go back.
Steady(y, s, n, u) ==
    /\ Within(y.shadow[u], n) /\ Within(y.hash[u], n) /\ Within(BuildSnapshot(s, u), n)
    /\ y.vis[u] = None \/ y.vis[u] <= n
    /\ y.todo[u] # 0 \/ (y.box[u] # None /\ u \notin Worlds) => u \in y.known
    /\ y.todo[u] # 0 => y.box[u] = None \/ (u \in Worlds /\ y.shadow[u] = BuildSnapshot(s, u))
    /\ u \in Meshes => y.dirty[u] # 1 /\ y.todo[u] # 1
    /\ s[u].alive => y.dirty[u] # Tomb
    /\ u \notin y.reg => y.dirty[u] \in {0, Tomb} /\ y.todo[u] = 0
    /\ y.dirty[u] = Tomb => u \notin y.reg
    /\ u \notin y.reg => y.shadow[u] = None
    /\ y.shadow[u] # None /\ y.shadow[u].ptr => s[u].ptr
    /\ u \notin Scenes => ~s[u].ptr
    /\ u \notin Worlds => s[u].used

\* Before the first file.
Silent(y) ==
    /\ y.reg = D /\ y.pc = "idle" /\ y.boot = None /\ y.prime = {} /\ ~y.recent
    /\ \A u \in D : y.box[u] = None /\ y.hash[u] = None /\ y.dirty[u] = 0
    /\ \A u \in Scenes : y.shadow[u] # None

Datablock(y, s, u) ==
    /\ IF s[u].alive THEN Live(y, s, u) ELSE Gone(y, u)
    /\ u \in Worlds => World(y, s, u)
    /\ u \in Scenes => SceneBlock(y, s, u)

\* A world the replica lacks goes with the scene that names it.
Named(y, s) ==
    \A w \in Worlds : s[w].used /\ Coming(y, w) = None =>
        \E d \in Scenes : s[d].ptr /\ ~y.shadow[d].ptr /\ (y.dirty[d] # 0 \/ y.todo[d] # 0)

Calm(y) ==
    /\ y.pc = "idle" => \A u \in D : y.todo[u] = 0
    /\ y.paused => y.prime = {} /\ ~y.auto /\ y.pc = "idle"

\* Everything is accounted for.
Accounted(y, s, n) ==
    /\ Calm(y) /\ \A u \in D : Steady(y, s, n, u)
    /\ IF y.suppress THEN Silent(y) ELSE Named(y, s) /\ \A u \in D : Datablock(y, s, u)

Whole == Inv /\ Shape(x) /\ Accounted(x, scene, used.edit)

-----------------------------------------------------------------------------
(* A datablock of which nothing changes.                                   *)

Locals(y, z, u) ==
    /\ z.shadow[u] = y.shadow[u] /\ z.hash[u] = y.hash[u] /\ z.vis[u] = y.vis[u] /\ z.dirty[u] = y.dirty[u]
    /\ z.todo[u] = y.todo[u] /\ z.box[u] = y.box[u] /\ Coming(z, u) = Coming(y, u)
    /\ (u \in z.reg <=> u \in y.reg) /\ (u \in z.known <=> u \in y.known) /\ (u \in z.prime <=> u \in y.prime)

\* It stays accounted for, whatever happens to the others.
LEMMA Undisturbed ==
    ASSUME NEW y, NEW z, NEW s, NEW t, NEW u \in D, Locals(y, z, u), t[u] = s[u], Datablock(y, s, u),
           u \in Scenes => (y.auto => z.auto) /\ (z.recent => y.recent)
    PROVE  Datablock(z, t, u)
<1>1. s[u].alive => Live(z, t, u)
  <2> SUFFICES ASSUME s[u].alive PROVE Live(z, t, u)
      OBVIOUS
  <2>1. Live(y, s, u)
      BY DEF Datablock
  <2>2. Baseline(z, t, u)
      BY <2>1 DEF Live, Baseline, Locals
  <2>3. /\ Marked(y, s, u) => Marked(z, t, u)
        /\ Arrives(y, s, u) => Arrives(z, t, u)
        /\ ByDelta(y, s, u) => ByDelta(z, t, u)
      BY DEF Marked, Blind, Arrives, ByDelta, Locals
  <2>4. BuildSnapshot(t, u) = BuildSnapshot(s, u)
      BY DEF BuildSnapshot
  <2> QED
      BY <2>1, <2>2, <2>3, <2>4 DEF Live, Locals
<1>2. Gone(y, u) => Gone(z, u)
    BY DEF Gone, Locals
<1>3. World(y, s, u) => World(z, t, u)
    BY DEF World, Locals
<1>4. u \in Scenes /\ SceneBlock(y, s, u) => SceneBlock(z, t, u)
    BY DEF SceneBlock, Locals
<1> QED
    BY <1>1, <1>2, <1>3, <1>4 DEF Datablock

\* The facts that hold at any time.
LEMMA SteadyUndisturbed ==
    ASSUME NEW y, NEW z, NEW s, NEW t, NEW m \in Nat, NEW n \in Nat, m <= n, NEW u \in D,
           Shape(y), SceneOK(s), Locals(y, z, u), t[u] = s[u], Steady(y, s, m, u)
    PROVE  Steady(z, t, n, u)
<1>1. BuildSnapshot(t, u) = BuildSnapshot(s, u) /\ BuildSnapshot(s, u) \in Snapshot
    BY SnapshotOf DEF BuildSnapshot
<1>2. /\ y.shadow[u] \in Snapshot \union {None} /\ y.hash[u] \in Snapshot \union {None}
      /\ y.vis[u] \in Values \union {None}
    BY DEF Shape, File
<1>3. ASSUME NEW v \in Snapshot \union {None}, Within(v, m) PROVE Within(v, n)
    BY <1>3 DEF Within, Snapshot, Values
<1>4. y.vis[u] = None \/ y.vis[u] <= m => y.vis[u] = None \/ y.vis[u] <= n
    BY <1>2 DEF Values
<1> HIDE DEF Within
<1> QED
    BY <1>1, <1>2, <1>3, <1>4 DEF Steady, Locals

\* Nothing changes of any datablock.
LEMMA AllUndisturbed ==
    ASSUME NEW y, NEW z, NEW s, NEW n \in Nat, SceneOK(s), Shape(y), Accounted(y, s, n),
           \A u \in D : Locals(y, z, u), z.suppress = y.suppress, z.auto = y.auto, z.recent => y.recent,
           Calm(z), y.suppress => Silent(z)
    PROVE  Accounted(z, s, n)
<1>1. \A u \in D : Steady(z, s, n, u)
    BY SteadyUndisturbed DEF Accounted
<1>2. ASSUME ~y.suppress PROVE Named(z, s) /\ \A u \in D : Datablock(z, s, u)
  <2>1. \A u \in D : Datablock(z, s, u)
      BY <1>2, Undisturbed DEF Accounted
  <2>2. Named(z, s)
      BY <1>2, Parts DEF Accounted, Named, Locals
  <2> QED
      BY <2>1, <2>2
<1> QED
    BY <1>1, <1>2 DEF Accounted

\* Coming is a matter of three fields.
LEMMA ComingSame ==
    ASSUME NEW y, NEW z, NEW u, z.box[u] = y.box[u], z.boot = y.boot, z.rep[u] = y.rep[u]
    PROVE  Coming(z, u) = Coming(y, u)
BY DEF Coming

\* Fields that say nothing of a datablock.
Flags == {"pc", "budget", "touch", "shipped", "suppress", "drop", "auto", "recent", "paused"}

\* A step that changes only those leaves every datablock as it is.
LEMMA FlagsLocal == ASSUME NEW y, NEW z, Same(y, z, Flags) PROVE \A u \in D : Locals(y, z, u)
<1>1. /\ z.todo = y.todo /\ z.reg = y.reg /\ z.known = y.known /\ z.shadow = y.shadow /\ z.vis = y.vis /\ z.dirty = y.dirty
      /\ z.hash = y.hash /\ z.prime = y.prime /\ z.box = y.box /\ z.boot = y.boot /\ z.rep = y.rep
    BY DEF Same, AllKeys, Flags
<1> QED
    BY <1>1, ComingSame DEF Locals

\* The facts about the state that the steps need.
LEMMA WholeFacts ==
    ASSUME Whole
    PROVE  /\ SceneOK(scene) /\ HostOK(x) /\ Shape(x) /\ Accounted(x, scene, used.edit) /\ Counts
           /\ used.edit \in Nat /\ used.edit <= MaxEdits /\ MaxEdits \in Nat
           /\ AllKeys \subseteq DOMAIN x
<1>1. SceneOK(scene) /\ HostOK(x) /\ Shape(x) /\ Accounted(x, scene, used.edit) /\ Counts
    BY DEF Whole, Inv
<1>2. used.edit \in 0..MaxEdits /\ MaxEdits \in Nat
    BY <1>1, Parts DEF Counts
<1> QED
    BY <1>1, <1>2 DEF Shape

\* Timers that run out, a pause, a batch that is dropped, the end of a tick.
LEMMA TimersAccounted ==
    ASSUME Whole, Allowed = {},
           DropBatch \/ GrowsOld \/ Pause \/ Resume \/ TickEnds \/ \E u \in D : Ripens(u)
    PROVE  Shape(x') /\ Accounted(x', scene', used'.edit)
<1>1. /\ SceneOK(scene) /\ Shape(x) /\ Accounted(x, scene, used.edit) /\ AllKeys \subseteq DOMAIN x /\ Counts /\ used.edit \in Nat
    BY WholeFacts
<1>2. ASSUME Same(x, x', Flags), Shape(x'), scene' = scene, x'.suppress = x.suppress, x'.auto = x.auto, x'.recent => x.recent,
             Calm(x'), x.suppress => x'.pc = "idle" /\ ~x'.recent
      PROVE  Accounted(x', scene', used.edit)
  <2>1. \A u \in D : Locals(x, x', u)
      BY <1>2, FlagsLocal
  <2>2. x.suppress => Silent(x')
    <3>1. /\ x'.reg = x.reg /\ x'.shadow = x.shadow /\ x'.dirty = x.dirty
          /\ x'.hash = x.hash /\ x'.prime = x.prime /\ x'.box = x.box /\ x'.boot = x.boot
        BY <1>2 DEF Same, AllKeys, Flags
    <3> QED
        BY <1>1, <1>2, <3>1 DEF Silent, Accounted
  <2>3. Accounted(x', scene, used.edit)
      BY <1>1, <1>2, <2>1, <2>2, AllUndisturbed
  <2> QED
      BY <1>2, <2>3
<1>3. Calm(x) /\ (x.suppress => x.pc = "idle" /\ ~x.recent) /\ x.suppress \in BOOLEAN /\ x.todo \in [D -> 0..2] /\ PerTick \in Nat
    BY <1>1, FlushAssumption DEF Accounted, Silent, Shape, FlushAssumption
<1>4. CASE DropBatch
  <2>1. x' = [x EXCEPT !.drop = FALSE] /\ scene' = scene /\ used' = used
      BY <1>4 DEF DropBatch
  <2>2. /\ AllKeys \subseteq DOMAIN x' /\ Same(x, x', {"drop"}) /\ Same(x, x', Flags) /\ x'.drop = FALSE
      BY <1>1, <2>1 DEF Same, AllKeys, Flags
  <2>3. Shape(x') /\ Calm(x') /\ x'.suppress = x.suppress /\ x'.auto = x.auto /\ x'.recent = x.recent /\ x'.pc = x.pc
      BY <1>1, <1>3, <2>2 DEF Shape, Same, AllKeys, Calm
  <2> QED
      BY <1>2, <1>3, <2>1, <2>2, <2>3
<1>5. CASE GrowsOld
  <2>1. x' = [x EXCEPT !.recent = FALSE] /\ scene' = scene /\ used' = used
      BY <1>5 DEF GrowsOld
  <2>2. /\ AllKeys \subseteq DOMAIN x' /\ Same(x, x', {"recent"}) /\ Same(x, x', Flags) /\ x'.recent = FALSE
      BY <1>1, <2>1 DEF Same, AllKeys, Flags
  <2>3. Shape(x') /\ Calm(x') /\ x'.suppress = x.suppress /\ x'.auto = x.auto /\ x'.pc = x.pc
      BY <1>1, <1>3, <2>2 DEF Shape, Same, AllKeys, Calm
  <2> QED
      BY <1>2, <1>3, <2>1, <2>2, <2>3
<1>6. CASE Resume
  <2>1. x' = [x EXCEPT !.paused = FALSE] /\ scene' = scene /\ used' = used
      BY <1>6 DEF Resume
  <2>2. /\ AllKeys \subseteq DOMAIN x' /\ Same(x, x', {"paused"}) /\ Same(x, x', Flags) /\ x'.paused = FALSE
      BY <1>1, <2>1 DEF Same, AllKeys, Flags
  <2>3. Shape(x') /\ Calm(x') /\ x'.suppress = x.suppress /\ x'.auto = x.auto /\ x'.recent = x.recent /\ x'.pc = x.pc
      BY <1>1, <1>3, <2>2 DEF Shape, Same, AllKeys, Calm
  <2> QED
      BY <1>2, <1>3, <2>1, <2>2, <2>3
<1>7. CASE \E u \in D : Ripens(u)
  <2>0. PICK u \in D : Ripens(u)
      BY <1>7
  <2>1. x' = [x EXCEPT !.touch[u] = "ripe"] /\ scene' = scene /\ used' = used
      BY <2>0 DEF Ripens
  <2>2. Shape(x') /\ Same(x, x', {"touch"})
      BY <1>1, <2>1, TouchShape DEF Touches
  <2>3. Same(x, x', Flags) /\ Calm(x') /\ x'.suppress = x.suppress /\ x'.auto = x.auto /\ x'.recent = x.recent /\ x'.pc = x.pc
      BY <1>3, <2>2 DEF Same, AllKeys, Calm, Flags
  <2> QED
      BY <1>2, <1>3, <2>1, <2>2, <2>3
<1>8. CASE TickEnds
  <2>1. x' = [x EXCEPT !.pc = "idle", !.budget = 0] /\ scene' = scene /\ used' = used /\ \A u \in D : x.todo[u] = 0
      BY <1>8 DEF TickEnds
  <2>2. /\ AllKeys \subseteq DOMAIN x' /\ Same(x, x', {"pc", "budget"}) /\ Same(x, x', Flags) /\ x'.pc = "idle" /\ x'.budget = 0
      BY <1>1, <2>1 DEF Same, AllKeys, Flags
  <2>3. Shape(x') /\ Calm(x') /\ x'.suppress = x.suppress /\ x'.auto = x.auto /\ x'.recent = x.recent
      BY <1>1, <1>3, <2>1, <2>2 DEF Shape, Same, AllKeys, Calm
  <2> QED
      BY <1>2, <1>3, <2>1, <2>2, <2>3
<1>9. CASE Pause
  <2>1. /\ x' = [x EXCEPT !.paused = TRUE] /\ scene' = scene /\ used' = [used EXCEPT !.edit = @ + 1] /\ x.pc = "idle"
        /\ x.prime = {} /\ ~x.auto /\ ~x.suppress /\ used.edit < MaxEdits
      BY <1>9 DEF Pause, MayEdit, Use
  <2>2. /\ AllKeys \subseteq DOMAIN x' /\ Same(x, x', {"paused"}) /\ Same(x, x', Flags) /\ x'.paused = TRUE
      BY <1>1, <2>1 DEF Same, AllKeys, Flags
  <2>3. Shape(x') /\ Calm(x') /\ x'.suppress = x.suppress /\ x'.auto = x.auto /\ x'.recent = x.recent /\ x'.pc = x.pc
      BY <1>1, <1>3, <2>1, <2>2 DEF Shape, Same, AllKeys, Calm
  <2>4. Accounted(x', scene', used.edit)
      BY <1>2, <1>3, <2>1, <2>2, <2>3
  <2>5. used'.edit = used.edit + 1 /\ used'.edit \in Nat
      BY <1>1, <2>1, Parts DEF Counts
  <2>6. \A u \in D : Steady(x', scene, used'.edit, u)
    <3>1. \A u \in D : Locals(x', x', u) /\ Steady(x', scene, used.edit, u)
        BY <2>1, <2>4 DEF Locals, Accounted
    <3> QED
        BY <1>1, <2>3, <2>5, <3>1, SteadyUndisturbed
  <2> QED
      BY <2>1, <2>3, <2>4, <2>6 DEF Accounted
<1> QED
    BY <1>4, <1>5, <1>6, <1>7, <1>8, <1>9

-----------------------------------------------------------------------------
(* Edits.                                                                  *)

\* A new value of one attribute.
LEMMA FieldSet ==
    ASSUME SceneOK(scene), NEW u \in D, NEW f \in {"light", "heavy", "swept"}, NEW v \in Values
    PROVE  LET t == [scene EXCEPT ![u][f] = v] IN
           /\ t[u].alive = scene[u].alive /\ t[u].used = scene[u].used /\ t[u].ptr = scene[u].ptr
           /\ t[u].light = (IF f = "light" THEN v ELSE scene[u].light)
           /\ t[u].heavy = (IF f = "heavy" THEN v ELSE scene[u].heavy)
           /\ t[u].swept = (IF f = "swept" THEN v ELSE scene[u].swept)
           /\ \A d \in D \ {u} : t[d] = scene[d]
<1> DEFINE t == [scene EXCEPT ![u][f] = v]
           b == [scene[u] EXCEPT ![f] = v]
<1>1. scene \in [D -> Block] /\ scene[u] \in Block
    BY DEF SceneOK
<1>2. t[u] = b /\ \A d \in D \ {u} : t[d] = scene[d]
    BY <1>1
<1>3. /\ b.alive = scene[u].alive /\ b.used = scene[u].used /\ b.ptr = scene[u].ptr
      /\ b.light = (IF f = "light" THEN v ELSE scene[u].light)
      /\ b.heavy = (IF f = "heavy" THEN v ELSE scene[u].heavy)
      /\ b.swept = (IF f = "swept" THEN v ELSE scene[u].swept)
    BY <1>1 DEF Block
<1> HIDE DEF b, t
<1> QED
    BY <1>2, <1>3 DEF t

\* The new value is newer than any the code holds.
LEMMA NewValue ==
    ASSUME Whole, Allowed = {}, MayEdit, NEW u \in D, NEW f, NEW v \in NewValues(u, f)
    PROVE  v = used.edit + 1 /\ v \in Values /\ v # None
<1>1. v = used.edit + 1 /\ used.edit < MaxEdits /\ used.edit \in Nat /\ MaxEdits \in Nat
    BY WholeFacts DEF NewValues, MayEdit
<1>2. v \in Values
    BY <1>1 DEF Values
<1> QED
    BY <1>1, <1>2, NoneAssumption DEF NoneAssumption

\* The bound is used up by one.
LEMMA UseEdit == ASSUME Whole, Use("edit") PROVE used'.edit = used.edit + 1 /\ used'.edit \in Nat /\ used.edit <= used'.edit
<1>1. used \in [edit : 0..MaxEdits, boot : 0..MaxBoots] /\ used.edit \in Nat
    BY WholeFacts DEF Counts
<1>2. used'.edit = used.edit + 1
    BY <1>1 DEF Use
<1> QED
    BY <1>1, <1>2

\* An edit of one datablock, where the others are left alone.
LEMMA OneEdited ==
    ASSUME Whole, NEW z, NEW t, NEW u \in D, NEW n \in Nat, used.edit <= n,
           \A d \in D \ {u} : t[d] = scene[d] /\ Locals(x, z, d),
           z.suppress = x.suppress, z.auto = x.auto, z.recent = x.recent, Calm(z),
           Steady(z, t, n, u),
           x.suppress => Silent(z),
           ~x.suppress => Datablock(z, t, u) /\ Named(z, t)
    PROVE  Accounted(z, t, n)
<1>1. SceneOK(scene) /\ Shape(x) /\ Accounted(x, scene, used.edit) /\ used.edit \in Nat
    BY WholeFacts
<1>2. \A d \in D : Steady(z, t, n, d)
  <2>1. \A d \in D \ {u} : Steady(x, scene, used.edit, d)
      BY <1>1 DEF Accounted
  <2>2. \A d \in D \ {u} : Steady(z, t, n, d)
      BY <1>1, <2>1, SteadyUndisturbed
  <2> QED
      BY <2>2
<1>3. ASSUME ~x.suppress PROVE \A d \in D : Datablock(z, t, d)
  <2>1. \A d \in D \ {u} : Datablock(x, scene, d)
      BY <1>1, <1>3 DEF Accounted
  <2>2. \A d \in D \ {u} : Datablock(z, t, d)
      BY <2>1, Undisturbed
  <2> QED
      BY <1>3, <2>2
<1> QED
    BY <1>2, <1>3 DEF Accounted

\* What an event leaves alone.
LEMMA EventLocals ==
    ASSUME Whole, ~x.suppress, NEW u \in D, NEW bake \in BOOLEAN
    PROVE  LET z == OnDepsgraph(x, u, bake) IN
           /\ Shape(z) /\ z.suppress = x.suppress /\ z.auto = x.auto /\ z.recent = x.recent /\ (x.pc = "idle" => Calm(z))
           /\ \A d \in D \ {u} : Locals(x, z, d)
           /\ z.shadow = x.shadow /\ z.hash = x.hash /\ z.vis = x.vis /\ z.todo = x.todo /\ z.box = x.box /\ z.known = x.known
           /\ z.prime = x.prime /\ Coming(z, u) = Coming(x, u) /\ z.reg = x.reg \union {u}
           /\ z.dirty[u] = Ratchet(x.dirty[u], Tier(u, bake)) /\ (\A d \in D \ {u} : z.dirty[d] = x.dirty[d])
           /\ \A d \in D : Coming(z, d) = Coming(x, d)
<1> DEFINE z == OnDepsgraph(x, u, bake)
<1>1. Shape(x) /\ Accounted(x, scene, used.edit)
    BY WholeFacts
<1>2. /\ Shape(z) /\ Same(x, z, {"reg", "dirty", "touch"}) /\ z.reg = x.reg \union {u}
      /\ z.dirty[u] = Ratchet(x.dirty[u], Tier(u, bake)) /\ \A d \in D \ {u} : z.dirty[d] = x.dirty[d]
    BY <1>1, EventShape
<1> HIDE DEF z
<1>3. /\ z.suppress = x.suppress /\ z.auto = x.auto /\ z.recent = x.recent /\ z.pc = x.pc /\ z.paused = x.paused
      /\ z.shadow = x.shadow /\ z.hash = x.hash /\ z.vis = x.vis /\ z.todo = x.todo /\ z.box = x.box /\ z.known = x.known
      /\ z.prime = x.prime /\ z.boot = x.boot /\ z.rep = x.rep
    BY <1>2 DEF Same, AllKeys
<1>4. \A d \in D : Coming(z, d) = Coming(x, d)
    BY <1>3, ComingSame
<1>5. Calm(z)
    BY <1>1, <1>3 DEF Accounted, Calm
<1> QED
    BY <1>2, <1>3, <1>4, <1>5 DEF Locals, z

\* A hash, or a path of the shadow, of before the edit is not of after it.
LEMMA Outdated ==
    ASSUME NEW y, Shape(y), NEW u \in D, NEW s, NEW t, SceneOK(t), NEW m \in Nat,
           NEW f \in {"light", "heavy", "swept"}, Steady(y, s, m, u), t[u][f] = m + 1
    PROVE  /\ y.hash[u] # BuildSnapshot(t, u)
           /\ y.shadow[u] # None => y.shadow[u][f] # t[u][f]
<1>1. y.hash[u] \in Snapshot \union {None} /\ y.shadow[u] \in Snapshot \union {None}
    BY DEF Shape, File
<1>2. Within(y.hash[u], m) /\ Within(y.shadow[u], m)
    BY DEF Steady
<1>3. BuildSnapshot(t, u)[f] = m + 1 /\ BuildSnapshot(t, u) \in Snapshot
    BY SnapshotOf DEF BuildSnapshot
<1>4. ASSUME NEW v \in Snapshot, Within(v, m) PROVE v[f] # m + 1
  <2>1. v # None
      BY NoneAssumption DEF NoneAssumption
  <2> QED
      BY <1>4, <2>1 DEF Within, Snapshot, Values
<1> QED
    BY <1>1, <1>2, <1>3, <1>4, NoneAssumption DEF NoneAssumption

\* What an edit of one attribute does to the snapshot bounds, and to what never goes back.
LEMMA EditedSteady ==
    ASSUME Whole, x.pc = "idle", NEW z, NEW t, SceneOK(t), NEW u \in D, NEW n \in Nat, used.edit <= n,
           scene[u].alive, t[u].alive, t[u].used = scene[u].used \/ u \in Worlds,
           Within(BuildSnapshot(t, u), n), scene[u].ptr => t[u].ptr, u \notin Scenes => ~t[u].ptr,
           z.shadow = x.shadow, z.hash = x.hash, z.vis = x.vis, z.todo = x.todo, z.box = x.box, z.known = x.known,
           (z.reg = x.reg /\ z.dirty[u] = x.dirty[u]) \/ z.reg = x.reg \union {u},
           z.dirty[u] # Tomb, u \in Meshes => z.dirty[u] # 1
    PROVE  Steady(z, t, n, u)
<1>1. Shape(x) /\ Steady(x, scene, used.edit, u) /\ used.edit \in Nat /\ x.todo[u] = 0
    BY WholeFacts DEF Accounted, Calm
<1>2. /\ x.shadow[u] \in Snapshot \union {None} /\ x.hash[u] \in Snapshot \union {None}
      /\ x.vis[u] \in Values \union {None}
    BY <1>1 DEF Shape, File
<1>3. ASSUME NEW v \in Snapshot \union {None}, Within(v, used.edit) PROVE Within(v, n)
    BY <1>1, <1>3 DEF Within, Snapshot, Values
<1>4. x.vis[u] = None \/ x.vis[u] <= used.edit => x.vis[u] = None \/ x.vis[u] <= n
    BY <1>1, <1>2 DEF Values
<1> HIDE DEF Within
<1> QED
    BY <1>1, <1>2, <1>3, <1>4 DEF Steady

\* The bounds of the new scene.
LEMMA NewBounds ==
    ASSUME Whole, NEW u \in D, NEW f \in {"light", "heavy", "swept"}, NEW v \in Values, v = used.edit + 1
    PROVE  LET t == [scene EXCEPT ![u][f] = v] IN Within(BuildSnapshot(t, u), v)
<1> DEFINE t == [scene EXCEPT ![u][f] = v]
<1>1. SceneOK(scene) /\ Within(BuildSnapshot(scene, u), used.edit) /\ used.edit \in Nat /\ scene[u] \in Block
    BY WholeFacts DEF Accounted, Steady, SceneOK
<1>2. /\ t[u].light = (IF f = "light" THEN v ELSE scene[u].light)
      /\ t[u].heavy = (IF f = "heavy" THEN v ELSE scene[u].heavy)
      /\ t[u].swept = (IF f = "swept" THEN v ELSE scene[u].swept)
    BY <1>1, FieldSet
<1>3. BuildSnapshot(scene, u) # None
    BY <1>1, SnapshotOf, NoneAssumption DEF NoneAssumption
<1>4. scene[u].light <= used.edit /\ scene[u].heavy <= used.edit /\ scene[u].swept <= used.edit
      /\ scene[u].light \in Nat /\ scene[u].heavy \in Nat /\ scene[u].swept \in Nat
    BY <1>1, <1>3 DEF Within, BuildSnapshot, Block, Values
<1> HIDE DEF t
<1>5. t[u].light <= v /\ t[u].heavy <= v /\ t[u].swept <= v
    BY <1>1, <1>2, <1>4
<1>6. Within(BuildSnapshot(t, u), v)
    BY <1>5 DEF Within, BuildSnapshot
<1> QED
    BY <1>6 DEF t

\* Nothing else of the scene changes.
LEMMA EditAccounted ==
    ASSUME Whole, Allowed = {}, NEW u \in D, NEW f \in {"light", "heavy"}, NEW bake \in BOOLEAN, Edit(u, f, bake)
    PROVE  Shape(x') /\ Accounted(x', scene', used'.edit)
<1>0. x.pc = "idle" /\ \A d \in D : x.todo[d] = 0
    BY WholeFacts DEF Edit, MayEdit, Accounted, Calm
<1>1. /\ SceneOK(scene) /\ Shape(x) /\ Accounted(x, scene, used.edit) /\ used.edit \in Nat
    BY WholeFacts
<1>2. PICK v \in NewValues(u, f) : scene' = [scene EXCEPT ![u][f] = v]
    BY DEF Edit
<1>3. /\ MayEdit /\ scene[u].alive /\ x' = OnDepsgraph(x, u, bake) /\ Use("edit") /\ x.pc = "idle"
      /\ (f = "light" => u \in Tracked) /\ (bake => u \in Objects /\ f = "heavy")
      /\ (u \in Scenes /\ f = "heavy" => ~x.recent)
    BY DEF Edit, MayEdit, HasBakeNodes
<1>4. v = used.edit + 1 /\ v \in Values /\ v # None
    BY <1>3, NewValue
<1>5. used'.edit = v /\ used'.edit \in Nat /\ used.edit <= used'.edit
    BY <1>3, <1>4, UseEdit
<1>6. /\ scene'[u].alive = scene[u].alive /\ scene'[u].used = scene[u].used /\ scene'[u].ptr = scene[u].ptr
      /\ scene'[u].light = (IF f = "light" THEN v ELSE scene[u].light)
      /\ scene'[u].heavy = (IF f = "heavy" THEN v ELSE scene[u].heavy)
      /\ scene'[u].swept = scene[u].swept
      /\ \A d \in D \ {u} : scene'[d] = scene[d]
    BY <1>1, <1>2, <1>4, FieldSet
<1>7. SceneOK(scene') /\ Within(BuildSnapshot(scene', u), v)
    BY <1>1, <1>2, <1>4, FieldOK, NewBounds
<1>8. Steady(x, scene, used.edit, u) /\ x.dirty[u] \in Tiers /\ Calm(x)
    BY <1>1 DEF Accounted, Shape
<1>9. CASE x.suppress
  <2>1. x' = x /\ Shape(x')
      BY <1>1, <1>3, <1>9, EventShape
  <2>2. Steady(x', scene', v, u)
    <3>1. x.dirty[u] # Tomb /\ (u \in Meshes => x.dirty[u] # 1) /\ (u \notin Scenes => ~scene[u].ptr)
        BY <1>3, <1>8 DEF Steady
    <3> QED
        BY <1>0, <1>3, <1>5, <1>6, <1>7, <2>1, <3>1, EditedSteady
  <2>3. \A d \in D \ {u} : Locals(x, x', d)
      BY <2>1 DEF Locals
  <2>4. Silent(x')
      BY <1>1, <1>9, <2>1 DEF Accounted
  <2> QED
      BY <1>5, <1>6, <1>8, <1>9, <2>1, <2>2, <2>3, <2>4, OneEdited
<1>10. CASE ~x.suppress
  <2>1. /\ Shape(x') /\ x'.suppress = x.suppress /\ x'.auto = x.auto /\ x'.recent = x.recent /\ Calm(x')
        /\ \A d \in D \ {u} : Locals(x, x', d)
        /\ x'.shadow = x.shadow /\ x'.hash = x.hash /\ x'.vis = x.vis /\ x'.todo = x.todo /\ x'.box = x.box /\ x'.known = x.known
        /\ x'.prime = x.prime /\ Coming(x', u) = Coming(x, u) /\ x'.reg = x.reg \union {u}
        /\ x'.dirty[u] = Ratchet(x.dirty[u], Tier(u, bake)) /\ (\A d \in D \ {u} : x'.dirty[d] = x.dirty[d])
        /\ \A d \in D : Coming(x', d) = Coming(x, d)
      BY <1>3, <1>10, EventLocals
  <2>2. Datablock(x, scene, u) /\ Named(x, scene)
      BY <1>1, <1>10 DEF Accounted
  <2>3. /\ Tier(u, bake) \in {1, 2} /\ (u \in Meshes => Tier(u, bake) = 2)
        /\ (u \in Worlds \union Scenes => Tier(u, bake) = 1)
      BY <1>3, Parts DEF Tier, Tracked
  <2>4. x.dirty[u] # Tomb /\ (u \notin Scenes => ~scene[u].ptr)
      BY <1>3, <1>8 DEF Steady
  <2>5. /\ x'.dirty[u] # Tomb /\ x'.dirty[u] # 0 /\ (u \in Meshes => x'.dirty[u] # 1)
        /\ (u \in Worlds \union Scenes => (x'.dirty[u] = 2 <=> x.dirty[u] = 2))
      BY <1>8, <2>1, <2>3, <2>4, RatchetTier
  <2>6. Steady(x', scene', v, u)
      BY <1>0, <1>3, <1>5, <1>6, <1>7, <2>1, <2>4, <2>5, EditedSteady
  <2>7. x.hash[u] # BuildSnapshot(scene', u) /\ (x.shadow[u] # None => x.shadow[u][f] # scene'[u][f])
      BY <1>1, <1>4, <1>6, <1>7, <1>8, Outdated
  <2>8. Live(x', scene', u)
    <3>1. Live(x, scene, u) /\ (u \notin x.reg => x.shadow[u] = None)
        BY <1>3, <1>8, <2>2 DEF Datablock, Steady
    <3>2. Baseline(x', scene', u)
        BY <1>6, <2>1, <2>7, <3>1 DEF Baseline, Live
    <3>3. Marked(x', scene', u)
        BY <2>5 DEF Marked
    <3> QED
        BY <2>1, <2>5, <2>7, <3>1, <3>2, <3>3 DEF Live
  <2>9. u \in Worlds => World(x', scene', u)
      BY <1>6, <2>1, <2>2, <2>5 DEF Datablock, World
  <2>10. u \in Scenes => SceneBlock(x', scene', u)
      BY <1>3, <1>6, <2>1, <2>2, <2>5 DEF Datablock, SceneBlock
  <2>11. Datablock(x', scene', u)
      BY <1>3, <1>6, <2>8, <2>9, <2>10 DEF Datablock
  <2>12. Named(x', scene')
    <3>1. \A d \in D : /\ scene'[d].ptr = scene[d].ptr /\ scene'[d].used = scene[d].used
                       /\ x.dirty[d] # 0 => x'.dirty[d] # 0
        BY <1>6, <2>1, <2>5
    <3> QED
        BY <2>1, <2>2, <3>1, Parts DEF Named
  <2> QED
      BY <1>5, <1>6, <1>10, <2>1, <2>6, <2>11, <2>12, OneEdited
<1> QED
    BY <1>9, <1>10

\* The sweep will see it, and no hash is taken before.
LEMMA EditSilentlyAccounted ==
    ASSUME Whole, Allowed = {}, NEW u \in D, EditSilently(u)
    PROVE  Shape(x') /\ Accounted(x', scene', used'.edit)
<1>0. x.pc = "idle" /\ \A d \in D : x.todo[d] = 0
    BY WholeFacts DEF EditSilently, MayEdit, Accounted, Calm
<1>1. /\ SceneOK(scene) /\ Shape(x) /\ Accounted(x, scene, used.edit) /\ used.edit \in Nat
    BY WholeFacts
<1>2. PICK v \in NewValues(u, "swept") : scene' = [scene EXCEPT ![u].swept = v]
    BY DEF EditSilently
<1>3. /\ MayEdit /\ scene[u].alive /\ x' = x /\ Use("edit") /\ (~x.suppress => ~HashedFirst(u))
    BY DEF EditSilently
<1>4. v = used.edit + 1 /\ v \in Values /\ v # None
    BY <1>3, NewValue
<1>5. used'.edit = v /\ used'.edit \in Nat /\ used.edit <= used'.edit
    BY <1>3, <1>4, UseEdit
<1>6. /\ scene'[u].alive = scene[u].alive /\ scene'[u].used = scene[u].used /\ scene'[u].ptr = scene[u].ptr
      /\ scene'[u].light = scene[u].light /\ scene'[u].heavy = scene[u].heavy /\ scene'[u].swept = v
      /\ \A d \in D \ {u} : scene'[d] = scene[d]
    BY <1>1, <1>2, <1>4, FieldSet
<1>7. SceneOK(scene') /\ Within(BuildSnapshot(scene', u), v)
    BY <1>1, <1>2, <1>4, FieldOK, NewBounds
<1>8. Steady(x, scene, used.edit, u) /\ Calm(x)
    BY <1>1 DEF Accounted
<1>9. Steady(x', scene', v, u)
  <2>1. x.dirty[u] # Tomb /\ (u \in Meshes => x.dirty[u] # 1) /\ (u \notin Scenes => ~scene[u].ptr)
      BY <1>3, <1>8 DEF Steady
  <2> QED
      BY <1>0, <1>3, <1>5, <1>6, <1>7, <2>1, EditedSteady
<1>10. \A d \in D : Locals(x, x', d)
    BY <1>3 DEF Locals
<1>11. ASSUME ~x.suppress PROVE Datablock(x', scene', u) /\ Named(x', scene')
  <2>1. Datablock(x, scene, u) /\ Named(x, scene) /\ Live(x, scene, u)
      BY <1>1, <1>3, <1>11 DEF Accounted, Datablock
  <2>2. x.hash[u] # BuildSnapshot(scene', u) /\ (x.shadow[u] # None => x.shadow[u].swept # scene'[u].swept)
      BY <1>1, <1>4, <1>6, <1>7, <1>8, Outdated
  <2>3. ~Blind(x, scene', u)
      BY <1>1, <1>3, <1>6, <1>11, NowTyped DEF HashedFirst, Blind, Structure
  <2>4. x.vis[u] # v
    <3>1. x.vis[u] = None \/ (x.vis[u] <= used.edit /\ x.vis[u] \in Values \union {None})
        BY <1>1, <1>8 DEF Steady, Shape
    <3> QED
        BY <1>1, <1>4, <3>1 DEF Values
  <2>5. Marked(x, scene', u)
      BY <1>6, <2>3, <2>4 DEF Marked
  <2>6. Baseline(x, scene', u)
      BY <1>6, <2>1, <2>2 DEF Live, Baseline
  <2>7. Live(x, scene', u)
      BY <1>6, <2>1, <2>2, <2>5, <2>6 DEF Live
  <2>8. (u \in Worlds => World(x, scene', u)) /\ (u \in Scenes => SceneBlock(x, scene', u))
      BY <1>6, <2>1 DEF Datablock, World, SceneBlock
  <2>9. \A d \in D : scene'[d].ptr = scene[d].ptr /\ scene'[d].used = scene[d].used
      BY <1>6
  <2>10. Named(x, scene')
      BY <2>1, <2>9, Parts DEF Named
  <2> QED
      BY <1>3, <1>6, <2>7, <2>8, <2>10 DEF Datablock
<1>12. x.suppress => Silent(x')
    BY <1>1, <1>3 DEF Accounted
<1> QED
    BY <1>1, <1>3, <1>5, <1>6, <1>8, <1>9, <1>10, <1>11, <1>12, OneEdited

\* A world that is given a user is on its way with its scene.
LEMMA PointAccounted ==
    ASSUME Whole, Allowed = {}, NEW u \in D, Point(u)
    PROVE  Shape(x') /\ Accounted(x', scene', used'.edit)
<1>0. x.pc = "idle" /\ \A d \in D : x.todo[d] = 0
    BY WholeFacts DEF Point, MayEdit, Accounted, Calm
<1>1. /\ SceneOK(scene) /\ Shape(x) /\ Accounted(x, scene, used.edit) /\ used.edit \in Nat /\ Inv
    BY WholeFacts DEF Whole
<1>2. /\ MayEdit /\ u \in Scenes /\ scene[u].alive /\ ~scene[u].ptr /\ x' = OnDepsgraph(x, u, FALSE) /\ Use("edit") /\ x.pc = "idle"
      /\ scene' = [d \in D |-> IF d = u THEN [scene[d] EXCEPT !.ptr = TRUE]
                               ELSE IF d \in Worlds THEN [scene[d] EXCEPT !.used = TRUE] ELSE scene[d]]
    BY DEF Point, MayEdit
<1>3. used'.edit = used.edit + 1 /\ used'.edit \in Nat /\ used.edit <= used'.edit
    BY <1>2, UseEdit
<1>4. SceneOK(scene')
    BY <1>1, PointInv DEF Inv
<1>5. /\ scene'[u].alive = scene[u].alive /\ scene'[u].used = scene[u].used /\ scene'[u].ptr = TRUE
      /\ scene'[u].light = scene[u].light /\ scene'[u].heavy = scene[u].heavy /\ scene'[u].swept = scene[u].swept
      /\ u \notin Worlds
    BY <1>1, <1>2, Parts DEF SceneOK, Block
<1>6. \A w \in Worlds : /\ scene'[w].alive = scene[w].alive /\ scene'[w].used = TRUE /\ scene'[w].ptr = scene[w].ptr
                        /\ scene'[w].light = scene[w].light /\ scene'[w].heavy = scene[w].heavy /\ scene'[w].swept = scene[w].swept
    BY <1>1, <1>2, Parts DEF SceneOK, Block
<1>7. \A d \in D \ ({u} \union Worlds) : scene'[d] = scene[d]
    BY <1>2
<1>8. \A d \in D : Steady(x, scene, used.edit, d)
    BY <1>1 DEF Accounted
<1>9. ASSUME NEW d \in D PROVE Within(BuildSnapshot(scene', d), used'.edit)
  <2>1. scene'[d].light = scene[d].light /\ scene'[d].heavy = scene[d].heavy /\ scene'[d].swept = scene[d].swept
      BY <1>5, <1>6, <1>7
  <2>2. Within(BuildSnapshot(scene, d), used.edit) /\ BuildSnapshot(scene, d) # None
      BY <1>1, <1>8, SnapshotOf, NoneAssumption DEF Steady, NoneAssumption
  <2>3. scene[d] \in Block
      BY <1>1 DEF SceneOK
  <2>4. scene[d].light <= used'.edit /\ scene[d].heavy <= used'.edit /\ scene[d].swept <= used'.edit
      BY <1>1, <1>3, <2>2, <2>3 DEF Within, BuildSnapshot, Block, Values
  <2> QED
      BY <2>1, <2>4 DEF Within, BuildSnapshot
<1>10. CASE x.suppress
  <2>1. x' = x /\ Shape(x')
      BY <1>1, <1>2, <1>10, EventShape
  <2>2. ASSUME NEW d \in D PROVE Steady(x', scene', used'.edit, d)
    <3>1. CASE d \in {u} \union Worlds
      <4>0. Steady(x, scene, used.edit, d) /\ d \in Scenes \union Worlds /\ scene[d].alive
          BY <1>1, <1>2, <1>8, <3>1 DEF SceneOK
      <4>1. /\ scene'[d].alive /\ (scene'[d].used = scene[d].used \/ d \in Worlds)
            /\ (scene[d].ptr => scene'[d].ptr) /\ (d \notin Scenes => ~scene'[d].ptr)
            /\ x.dirty[d] # Tomb /\ (d \in Meshes => x.dirty[d] # 1)
        <5>1. /\ x.dirty[d] # Tomb /\ (d \in Meshes => x.dirty[d] # 1) /\ (d \notin Scenes => ~scene[d].ptr)
            BY <4>0 DEF Steady
        <5>2. CASE d = u
            BY <1>2, <1>5, <5>1, <5>2
        <5>3. CASE d \in Worlds
            BY <1>2, <1>6, <4>0, <5>1, <5>3
        <5> QED
            BY <3>1, <5>2, <5>3
      <4> QED
          BY <1>0, <1>3, <1>4, <1>9, <2>1, <4>0, <4>1, EditedSteady
    <3>2. CASE d \notin {u} \union Worlds
        BY <1>1, <1>3, <1>7, <1>8, <2>1, <3>2, SteadyUndisturbed DEF Locals
    <3> QED
        BY <3>1, <3>2
  <2> QED
      BY <1>1, <1>10, <2>1, <2>2 DEF Accounted
<1>11. CASE ~x.suppress
  <2>1. /\ Shape(x') /\ x'.suppress = x.suppress /\ x'.auto = x.auto /\ x'.recent = x.recent /\ Calm(x')
        /\ \A d \in D \ {u} : Locals(x, x', d)
        /\ x'.shadow = x.shadow /\ x'.hash = x.hash /\ x'.vis = x.vis /\ x'.todo = x.todo /\ x'.box = x.box /\ x'.known = x.known
        /\ x'.prime = x.prime /\ Coming(x', u) = Coming(x, u) /\ x'.reg = x.reg \union {u}
        /\ x'.dirty[u] = Ratchet(x.dirty[u], Tier(u, FALSE)) /\ (\A d \in D \ {u} : x'.dirty[d] = x.dirty[d])
        /\ \A d \in D : Coming(x', d) = Coming(x, d)
      BY <1>2, <1>11, EventLocals
  <2>2. \A d \in D : Datablock(x, scene, d)
      BY <1>1, <1>11 DEF Accounted
  <2>3. Tier(u, FALSE) = 1 /\ u \notin Meshes /\ x.dirty[u] \in Tiers /\ x.dirty[u] # Tomb
      BY <1>1, <1>2, <1>8, Parts DEF Tier, Tracked, Shape, Steady
  <2>4. x'.dirty[u] # Tomb /\ x'.dirty[u] # 0 /\ (x'.dirty[u] = 2 <=> x.dirty[u] = 2)
      BY <2>1, <2>3, RatchetTier, ZenonT(40)
  <2>5. SceneBlock(x, scene, u) /\ Live(x, scene, u) /\ ~x.shadow[u].ptr /\ x.shadow[u] # None
      BY <1>2, <1>8, <2>2 DEF Datablock, SceneBlock, Steady
  <2>6. Steady(x', scene', used'.edit, u)
    <3>1. /\ scene'[u].alive /\ (scene[u].ptr => scene'[u].ptr) /\ (u \notin Scenes => ~scene'[u].ptr)
        BY <1>2, <1>5
    <3> QED
        BY <1>0, <1>2, <1>3, <1>4, <1>5, <1>9, <2>1, <2>3, <2>4, <3>1, EditedSteady
  <2>7. \A w \in Worlds : Steady(x', scene', used'.edit, w)
    <3> SUFFICES ASSUME NEW w \in Worlds PROVE Steady(x', scene', used'.edit, w)
        OBVIOUS
    <3>1. Steady(x, scene, used.edit, w) /\ w \in D /\ Locals(x, x', w) /\ w # u
        BY <1>5, <1>8, <2>1, Parts
    <3>2. Steady(x', scene, used'.edit, w)
        BY <1>1, <1>3, <3>1, SteadyUndisturbed
    <3> QED
        BY <1>0, <1>6, <1>9, <3>1, <3>2 DEF Steady, Locals
  <2>8. \A d \in D \ ({u} \union Worlds) : Steady(x', scene', used'.edit, d)
      BY <1>1, <1>3, <1>7, <1>8, <2>1, SteadyUndisturbed
  <2>9. Datablock(x', scene', u)
    <3>1. x.hash[u] # BuildSnapshot(scene', u)
        BY <1>4, <2>5, SnapshotOf, NoneAssumption DEF SceneBlock, NoneAssumption
    <3>2. Baseline(x', scene', u)
        BY <1>5, <2>1, <2>5 DEF Baseline, Live
    <3>3. Marked(x', scene', u)
        BY <2>4 DEF Marked
    <3>4. Live(x', scene', u)
        BY <2>1, <2>4, <2>5, <3>1, <3>2, <3>3 DEF Live
    <3>5. SceneBlock(x', scene', u)
        BY <1>5, <2>1, <2>4, <2>5 DEF SceneBlock
    <3> QED
        BY <1>2, <1>5, <3>4, <3>5 DEF Datablock
  <2>10. \A d \in D \ ({u} \union Worlds) : Datablock(x', scene', d)
      BY <1>7, <2>1, <2>2, Undisturbed
  <2>11. \A w \in Worlds : Datablock(x', scene', w)
    <3> SUFFICES ASSUME NEW w \in Worlds PROVE Datablock(x', scene', w)
        OBVIOUS
    <3>1. Datablock(x, scene, w) /\ w \in D /\ Locals(x, x', w) /\ w \notin Scenes /\ scene[w].alive
        BY <1>1, <1>5, <2>1, <2>2, Parts DEF SceneOK
    <3>2. Datablock(x', scene, w)
        BY <3>1, Undisturbed
    <3>3. Live(x', scene, w) /\ World(x', scene, w)
        BY <3>1, <3>2 DEF Datablock
    <3>4. BuildSnapshot(scene', w) = BuildSnapshot(scene, w)
        BY <1>6 DEF BuildSnapshot
    <3>5. Live(x', scene', w)
        BY <1>6, <3>3, <3>4 DEF Live, Baseline, Marked, Blind, Arrives, ByDelta
    <3>6. World(x', scene', w)
        BY <1>6, <3>3 DEF World
    <3> QED
        BY <1>6, <3>1, <3>5, <3>6 DEF Datablock
  <2>12. Named(x', scene')
      BY <1>2, <1>5, <2>1, <2>4, <2>5 DEF Named
  <2>13. (\A d \in D : Steady(x', scene', used'.edit, d)) /\ (\A d \in D : Datablock(x', scene', d))
      BY <2>6, <2>7, <2>8, <2>9, <2>10, <2>11
  <2> QED
      BY <1>11, <2>1, <2>12, <2>13 DEF Accounted
<1> QED
    BY <1>10, <1>11

\* A deletion leaves a tombstone to come; an undone one, a blob.
LEMMA DeleteAccounted ==
    ASSUME Whole, Allowed = {}, NEW u \in D, Delete(u) \/ Undo(u)
    PROVE  Shape(x') /\ Accounted(x', scene', used'.edit)
<1>1. /\ SceneOK(scene) /\ Shape(x) /\ Accounted(x, scene, used.edit) /\ used.edit \in Nat
    BY WholeFacts
<1>2. x' = x /\ Use("edit") /\ MayEdit
    BY DEF Delete, Undo
<1>3. used'.edit = used.edit + 1 /\ used'.edit \in Nat /\ used.edit <= used'.edit
    BY <1>2, UseEdit
<1>4. /\ \A d \in D \ {u} : scene'[d] = scene[d]
      /\ scene'[u].used = scene[u].used /\ scene'[u].ptr = scene[u].ptr /\ scene'[u].light = scene[u].light
      /\ scene'[u].heavy = scene[u].heavy /\ scene'[u].swept = scene[u].swept
      /\ (Delete(u) => scene[u].alive /\ ~scene'[u].alive) /\ (Undo(u) => ~scene[u].alive /\ scene'[u].alive)
  <2>1. scene \in [D -> Block] /\ scene[u] \in Block
      BY <1>1 DEF SceneOK
  <2>2. CASE Delete(u)
      BY <2>1, <2>2 DEF Delete, Block, Undo
  <2>3. CASE Undo(u)
      BY <2>1, <2>3 DEF Undo, Block, Delete
  <2> QED
      BY <2>2, <2>3
<1>5. Steady(x, scene, used.edit, u) /\ Calm(x) /\ BuildSnapshot(scene', u) = BuildSnapshot(scene, u)
    BY <1>1, <1>4 DEF Accounted, BuildSnapshot
<1>6. u \notin Scenes /\ u \notin Worlds
    BY <1>1, <1>4, Parts DEF Delete, SceneOK
<1>7. \A d \in D : Locals(x, x', d)
    BY <1>2 DEF Locals
<1>8. \A d \in D : scene'[d].used = scene[d].used /\ scene'[d].ptr = scene[d].ptr
    BY <1>4
<1>9. Steady(x, scene, used'.edit, u)
    BY <1>1, <1>2, <1>3, <1>5, <1>7, SteadyUndisturbed
<1>10. x.suppress => Silent(x)
    BY <1>1 DEF Accounted
<1>11. CASE Delete(u)
  <2>1. u \in x.reg /\ (u \notin x.known => ~OnReplica(u))
      BY <1>11 DEF Delete
  <2>2. Steady(x, scene', used'.edit, u)
      BY <1>4, <1>5, <1>9, <1>11, <2>1 DEF Steady
  <2>3. ASSUME ~x.suppress PROVE Datablock(x, scene', u) /\ Named(x, scene')
    <3>1. Named(x, scene)
        BY <1>1, <2>3 DEF Accounted
    <3>2. x.box[u] # None => u \in x.known
        BY <1>5, <1>6 DEF Steady
    <3>3. Gone(x, u)
        BY <2>1, <3>2 DEF Gone, Coming, OnReplica
    <3>4. Named(x, scene')
        BY <1>8, <3>1, Parts DEF Named
    <3> QED
        BY <1>4, <1>6, <1>11, <3>3, <3>4 DEF Datablock
  <2> QED
      BY <1>1, <1>2, <1>3, <1>4, <1>5, <1>7, <1>10, <2>2, <2>3, OneEdited
<1>12. CASE Undo(u)
  <2>1. x.hash[u] = None /\ (u \in x.reg => x.suppress) /\ x.dirty[u] # Tomb
      BY <1>12 DEF Undo
  <2>2. Steady(x, scene', used'.edit, u)
      BY <1>4, <1>5, <1>9, <1>12, <2>1 DEF Steady
  <2>3. ASSUME ~x.suppress PROVE Datablock(x, scene', u) /\ Named(x, scene')
    <3>1. Named(x, scene) /\ Gone(x, u)
        BY <1>1, <1>4, <1>12, <2>3 DEF Accounted, Datablock
    <3>2. Coming(x, u) = None
        BY <2>1, <2>3, <3>1 DEF Gone
    <3>3. x.box[u] = None
      <4>1. x.box[u] # None => x.box[u].val # None
          BY <1>1, NoneAssumption DEF Shape, Box, NoneAssumption
      <4> QED
          BY <3>2, <4>1 DEF Coming
    <3>4. x.shadow[u] = None /\ u \notin x.reg /\ BuildSnapshot(scene', u) # None
        BY <1>1, <1>5, <2>1, <2>3, SnapshotOf, NoneAssumption DEF Steady, NoneAssumption
    <3>5. Live(x, scene', u)
        BY <2>1, <3>3, <3>4 DEF Live, Baseline, Marked
    <3>6. Named(x, scene')
        BY <1>8, <3>1, Parts DEF Named
    <3> QED
        BY <1>4, <1>6, <1>12, <3>5, <3>6 DEF Datablock
  <2> QED
      BY <1>1, <1>2, <1>3, <1>4, <1>5, <1>7, <1>10, <2>2, <2>3, OneEdited
<1> QED
    BY <1>11, <1>12

-----------------------------------------------------------------------------
(* Files.                                                                  *)

\* What a file finds of a datablock: no blob of it under way, or one that is accounted for.
Ready(y, s, n, u) ==
    /\ Steady(y, s, n, u)
    /\ y.box[u] = None \/ (u \notin Scenes /\ Datablock(y, s, u))
    /\ u \in Worlds \union Scenes => u \in y.reg /\ y.dirty[u] # 2 /\ y.todo[u] # 2
    /\ u \in Scenes => y.shadow[u] # None

\* The file brings what is there; a blob behind it was marked, or is the same.
LEMMA BootAccounted ==
    ASSUME NEW s, SceneOK(s), NEW y, Shape(y), NEW n \in Nat, Calm(y), ~y.paused,
           \A u \in D : Ready(y, s, n, u)
    PROVE  Accounted(SendBootstrap(y, s), s, n)
<1> DEFINE z == SendBootstrap(y, s)
<1>1. /\ Shape(z) /\ Same(y, z, {"boot", "shipped", "hash", "prime", "suppress", "recent"})
      /\ z.suppress = FALSE /\ z.recent = TRUE /\ z.boot # None
      /\ \A u \in D : /\ z.boot.file[u] = IF InFile(s, u) THEN BuildSnapshot(s, u) ELSE None
                      /\ z.hash[u] = None
                      /\ u \in z.prime <=> u \in y.reg /\ InFile(s, u) /\ u \in Sendable
    BY BootstrapShape
<1> HIDE DEF z
<1>2. /\ z.pc = y.pc /\ z.todo = y.todo /\ z.reg = y.reg /\ z.known = y.known /\ z.shadow = y.shadow /\ z.vis = y.vis
      /\ z.dirty = y.dirty /\ z.box = y.box /\ z.auto = y.auto /\ z.paused = y.paused /\ z.rep = y.rep
    BY <1>1 DEF Same, AllKeys
<1>3. Calm(z)
    BY <1>2 DEF Calm
<1>4. ASSUME NEW u \in D
      PROVE  /\ BuildSnapshot(s, u) # None /\ BuildSnapshot(s, u).light = s[u].light /\ BuildSnapshot(s, u).heavy = s[u].heavy
             /\ BuildSnapshot(s, u).swept = s[u].swept /\ BuildSnapshot(s, u).ptr = s[u].ptr
    BY SnapshotOf, NoneAssumption DEF BuildSnapshot, NoneAssumption
<1>5. \A u \in D : Steady(z, s, n, u)
  <2> SUFFICES ASSUME NEW u \in D PROVE Steady(z, s, n, u)
      OBVIOUS
  <2>1. Steady(y, s, n, u)
      BY DEF Ready
  <2>2. Within(z.hash[u], n)
      BY <1>1 DEF Within
  <2> QED
      BY <1>2, <2>1, <2>2 DEF Steady
<1>6. ASSUME NEW u \in D, y.box[u] = None
      PROVE  Coming(z, u) = IF InFile(s, u) THEN BuildSnapshot(s, u) ELSE None
    BY <1>1, <1>2, <1>6 DEF Coming
<1>7. ASSUME NEW u \in D, y.box[u] # None PROVE Coming(z, u) = Coming(y, u)
    BY <1>2, <1>7 DEF Coming
<1>8. ASSUME NEW u \in D PROVE Datablock(z, s, u)
  <2>1. Steady(y, s, n, u) /\ Ready(y, s, n, u) /\ z.hash[u] # BuildSnapshot(s, u) /\ z.hash[u] = None
      BY <1>1, <1>4, <1>8 DEF Ready
  <2>2. ASSUME u \in Scenes \union Worlds PROVE s[u].alive
      BY <2>2 DEF SceneOK
  <2>3. CASE y.box[u] = None
    <3>1. ASSUME s[u].alive PROVE Live(z, s, u)
      <4>1. u \in Worlds \/ InFile(s, u)
          BY <2>1, <3>1 DEF Steady, InFile
      <4>2. CASE InFile(s, u)
        <5>1. Coming(z, u) = BuildSnapshot(s, u)
            BY <1>6, <2>3, <4>2
        <5>2. Arrives(z, s, u) /\ Baseline(z, s, u)
            BY <1>4, <5>1 DEF Arrives, Baseline
        <5> QED
            BY <1>2, <2>1, <2>3, <5>2 DEF Live
      <4>3. CASE u \in Worlds /\ ~InFile(s, u)
        <5>1. Coming(z, u) = None
            BY <1>6, <2>3, <4>3
        <5>2. Baseline(z, s, u)
            BY <4>3, <5>1 DEF Baseline
        <5> QED
            BY <1>2, <2>1, <2>3, <4>3, <5>1, <5>2 DEF Live
      <4> QED
          BY <4>1, <4>2, <4>3
    <3>2. ASSUME ~s[u].alive PROVE Gone(z, u)
        BY <1>6, <2>3, <3>2 DEF Gone, InFile
    <3>3. u \in Worlds => World(z, s, u)
        BY <1>1, <1>2, <1>6, <2>1, <2>3 DEF World, Ready, InFile
    <3>4. u \in Scenes => SceneBlock(z, s, u)
      <4> SUFFICES ASSUME u \in Scenes PROVE SceneBlock(z, s, u)
          OBVIOUS
      <4>1. InFile(s, u) /\ u \notin Sendable
          BY <2>1, <2>2, Parts DEF InFile, Steady, Sendable
      <4>2. Coming(z, u).heavy = s[u].heavy
          BY <1>4, <1>6, <2>3, <4>1
      <4> QED
          BY <1>1, <1>2, <2>1, <4>1, <4>2 DEF SceneBlock, Ready
    <3> QED
        BY <3>1, <3>2, <3>3, <3>4 DEF Datablock
  <2>4. CASE y.box[u] # None
    <3>1. Datablock(y, s, u) /\ u \notin Scenes /\ Coming(z, u) = Coming(y, u)
        BY <1>7, <2>1, <2>4 DEF Ready
    <3>2. Coming(y, u) # None
      <4>1. y.box[u].val # None
          BY <2>4, NoneAssumption DEF Shape, Box, NoneAssumption
      <4> QED
          BY <2>4, <4>1 DEF Coming
    <3>3. ASSUME s[u].alive PROVE Live(z, s, u)
      <4>1. Live(y, s, u)
          BY <3>1, <3>3 DEF Datablock
      <4>2. Baseline(z, s, u) /\ (Arrives(y, s, u) => Arrives(z, s, u))
          BY <1>2, <3>1, <4>1 DEF Live, Baseline, Arrives
      <4>3. Marked(y, s, u) => Marked(z, s, u)
        <5>1. u \in Meshes \/ u \in Tracked
            BY DEF Tracked
        <5>2. CASE u \in Meshes
            BY <1>2, <2>4, <5>2 DEF Marked, Blind
        <5>3. CASE u \in Tracked /\ u \notin Meshes
          <6>1. \/ u \notin y.reg
                \/ y.shadow[u] # None /\ (y.shadow[u].heavy = s[u].heavy \/ y.dirty[u] # 0 \/ y.todo[u] # 0)
              BY <2>4, <4>1, <5>3 DEF Live
          <6> QED
              BY <1>2, <5>3, <6>1 DEF Marked, Blind
        <5> QED
            BY <5>1, <5>2, <5>3
      <4> QED
          BY <1>2, <2>1, <3>1, <3>2, <4>1, <4>2, <4>3 DEF Live
    <3>4. Gone(y, u) => Gone(z, u)
        BY <1>2, <3>1 DEF Gone
    <3>5. u \in Worlds => World(z, s, u)
        BY <1>1, <1>2, <2>1, <3>1 DEF World, Datablock, InFile
    <3> QED
        BY <3>1, <3>3, <3>4, <3>5 DEF Datablock
  <2> QED
      BY <2>3, <2>4
<1>9. Named(z, s)
  <2> SUFFICES ASSUME NEW w \in Worlds, s[w].used PROVE Coming(z, w) # None
      BY DEF Named
  <2>1. w \in D /\ InFile(s, w) /\ Ready(y, s, n, w)
      BY Parts DEF SceneOK, InFile
  <2>2. CASE y.box[w] = None
      BY <1>4, <1>6, <2>1, <2>2
  <2>3. CASE y.box[w] # None
    <3>1. y.box[w].val # None
        BY <2>1, <2>3, NoneAssumption DEF Shape, Box, NoneAssumption
    <3> QED
        BY <1>2, <2>3, <3>1 DEF Coming
  <2> QED
      BY <2>2, <2>3
<1> QED
    BY <1>1, <1>3, <1>5, <1>8, <1>9 DEF Accounted, z

\* A file may be asked for at any time between ticks.
LEMMA AlwaysReady ==
    ASSUME Whole PROVE \A u \in D : Ready(x, scene, used.edit, u)
<1>1. SceneOK(scene) /\ Accounted(x, scene, used.edit) /\ HostOK(x)
    BY WholeFacts
<1> SUFFICES ASSUME NEW u \in D PROVE Ready(x, scene, used.edit, u)
    OBVIOUS
<1>2. Steady(x, scene, used.edit, u) /\ Calm(x)
    BY <1>1 DEF Accounted
<1>3. CASE x.suppress
  <2>1. Silent(x)
      BY <1>1, <1>3 DEF Accounted
  <2> QED
      BY <1>2, <2>1 DEF Ready, Silent, Calm
<1>4. CASE ~x.suppress
  <2>1. Datablock(x, scene, u)
      BY <1>1, <1>4 DEF Accounted
  <2>2. u \in Scenes => x.box[u] = None
      BY <1>1 DEF HostOK
  <2> QED
      BY <1>2, <2>1, <2>2 DEF Ready, Datablock, World, SceneBlock
<1> QED
    BY <1>3, <1>4

\* The handshake's file, or a resync's.
LEMMA BootstrapAccounted ==
    ASSUME Whole, Allowed = {}, Bootstrap
    PROVE  Shape(x') /\ Accounted(x', scene', used'.edit)
<1>1. SceneOK(scene) /\ Shape(x) /\ Accounted(x, scene, used.edit) /\ used.edit \in Nat /\ Counts
    BY WholeFacts
<1>2. ~x.paused /\ x' = SendBootstrap(x, scene) /\ scene' = scene /\ used' = [used EXCEPT !.boot = @ + 1]
    BY DEF Bootstrap, Use
<1>3. Shape(x')
    BY <1>1, <1>2, BootstrapShape
<1>4. Accounted(x', scene, used.edit)
    BY <1>1, <1>2, AlwaysReady, BootAccounted DEF Accounted
<1>5. used'.edit = used.edit
    BY <1>1, <1>2 DEF Counts
<1> QED
    BY <1>2, <1>3, <1>4, <1>5

\* A scene's structure: the file that was asked for, or the one that has just brought it.
LEMMA AutoBootAccounted ==
    ASSUME Whole, AutoBoot
    PROVE  Shape(x') /\ Accounted(x', scene', used'.edit)
<1> DEFINE y == [x EXCEPT !.auto = FALSE]
<1>1. SceneOK(scene) /\ Shape(x) /\ Accounted(x, scene, used.edit) /\ used.edit \in Nat /\ AllKeys \subseteq DOMAIN x
    BY WholeFacts
<1>2. /\ x' = (IF x.recent THEN y ELSE SendBootstrap(y, scene)) /\ scene' = scene /\ used' = used
      /\ x.auto /\ ~x.suppress /\ x.pc = "idle" /\ \A u \in D : x.box[u] = None
    BY DEF AutoBoot, Flushing, BoxesEmpty
<1>3. AllKeys \subseteq DOMAIN y /\ Same(x, y, {"auto"}) /\ Same(x, y, Flags) /\ y.auto = FALSE
    BY <1>1 DEF Same, AllKeys, Flags
<1> HIDE DEF y
<1>4. Shape(y) /\ y.pc = x.pc /\ y.paused = x.paused /\ y.recent = x.recent /\ y.suppress = x.suppress /\ y.todo = x.todo /\ y.prime = x.prime
    BY <1>1, <1>3 DEF Shape, Same, AllKeys
<1>5. \A u \in D : Locals(x, y, u)
    BY <1>3, FlagsLocal
<1>6. \A u \in D : Steady(y, scene, used.edit, u)
    BY <1>1, <1>5, SteadyUndisturbed DEF Accounted
<1>7. Calm(y) /\ ~y.paused
    BY <1>1, <1>2, <1>4 DEF Accounted, Calm
<1>8. \A u \in D : Ready(y, scene, used.edit, u)
    BY <1>2, <1>5, <1>6, AlwaysReady DEF Ready, Locals
<1>9. CASE ~x.recent
    BY <1>1, <1>2, <1>4, <1>7, <1>8, <1>9, BootAccounted, BootstrapShape
<1>10. CASE x.recent
  <2>1. \A u \in D : Datablock(x, scene, u)
      BY <1>1, <1>2 DEF Accounted
  <2>2. \A u \in D \ Scenes : Datablock(y, scene, u)
      BY <1>5, <2>1, Undisturbed
  <2>3. ASSUME NEW u \in Scenes PROVE Datablock(y, scene, u)
    <3>1. u \in D /\ Live(x, scene, u) /\ SceneBlock(x, scene, u) /\ scene[u].alive /\ Locals(x, y, u) /\ u \notin Worlds
        BY <1>1, <1>5, <2>1, Parts DEF Datablock, SceneOK
    <3>2. Coming(x, u).heavy = scene[u].heavy
        BY <1>10, <3>1 DEF SceneBlock
    <3>3. SceneBlock(y, scene, u)
        BY <1>4, <3>1 DEF SceneBlock, Locals
    <3>4. Baseline(y, scene, u)
        BY <3>1, <3>2 DEF Live, Baseline, Locals
    <3>5. (Arrives(x, scene, u) => Arrives(y, scene, u)) /\ (Marked(x, scene, u) => Marked(y, scene, u))
        BY <3>1, <3>2 DEF Arrives, Marked, Blind, Locals
    <3>6. y.hash[u] # BuildSnapshot(scene, u)
        BY <1>1, <3>1, <3>3, SnapshotOf, NoneAssumption DEF SceneBlock, NoneAssumption
    <3>7. Live(y, scene, u)
        BY <3>1, <3>4, <3>5, <3>6 DEF Live, Locals
    <3> QED
        BY <3>1, <3>3, <3>7 DEF Datablock
  <2>4. Named(y, scene)
      BY <1>1, <1>2, <1>5, Parts DEF Accounted, Named, Locals
  <2>5. Accounted(y, scene, used.edit)
      BY <1>2, <1>4, <1>6, <1>7, <2>2, <2>3, <2>4 DEF Accounted
  <2> QED
      BY <1>2, <1>4, <1>10, <2>5
<1> QED
    BY <1>9, <1>10

\* A file's datablocks as they are in it.
LEMMA NewSceneFacts ==
    ASSUME NEW u \in D
    PROVE  /\ NewScene[u].alive /\ (NewScene[u].used <=> u \notin Worlds) /\ ~NewScene[u].ptr /\ NewScene[u].swept = 0
           /\ BuildSnapshot(NewScene, u) # None /\ BuildSnapshot(NewScene, u).light = 0 /\ BuildSnapshot(NewScene, u).heavy = 0
           /\ BuildSnapshot(NewScene, u).swept = 0 /\ ~BuildSnapshot(NewScene, u).ptr
<1>1. /\ NewScene[u].alive /\ (NewScene[u].used <=> u \notin Worlds) /\ ~NewScene[u].ptr
      /\ NewScene[u].light = 0 /\ NewScene[u].heavy = 0 /\ NewScene[u].swept = 0
    BY DEF NewScene, NewBlock
<1>2. BuildSnapshot(NewScene, u) # None
    BY NewSceneOK, SnapshotOf, NoneAssumption DEF NoneAssumption
<1> QED
    BY <1>1, <1>2 DEF BuildSnapshot

\* Another file is opened.
LEMMA NewFileAccounted ==
    ASSUME Whole, Allowed = {}, NewFile
    PROVE  Shape(x') /\ Accounted(x', scene', used'.edit)
<1> DEFINE y == InitialScan(x, NewScene)
           b == SendBootstrap(y, NewScene)
           n == used'.edit
<1>1. SceneOK(scene) /\ Shape(x) /\ Accounted(x, scene, used.edit) /\ used.edit \in Nat /\ Counts /\ SceneOK(NewScene)
    BY WholeFacts, NewSceneOK
<1>2. /\ ~x.paused /\ scene' = NewScene /\ x.pc = "idle" /\ (\A u \in D : x.box[u] = None)
      /\ x' = [b EXCEPT !.drop = TRUE] /\ used' = [used EXCEPT !.boot = @ + 1, !.edit = @ + 1]
    BY DEF NewFile, MayEdit
<1>3. n \in Nat /\ used.edit <= n
    BY <1>1, <1>2 DEF Counts
<1>4. /\ Shape(y) /\ Same(x, y, {"reg", "known", "dirty", "touch", "shadow", "vis"})
      /\ \A u \in D : /\ (u \in y.reg <=> NewScene[u].alive) /\ (u \in y.known <=> NewScene[u].alive)
                      /\ y.dirty[u] = 0
                      /\ y.shadow[u] = IF u \in Tracked /\ InFile(NewScene, u) THEN BuildSnapshot(NewScene, u) ELSE None
                      /\ y.vis[u] = IF u \in Objects /\ InFile(NewScene, u) THEN NewScene[u].swept ELSE x.vis[u]
    BY <1>1, ScanShape
<1> HIDE DEF y, n
<1>7. /\ y.pc = x.pc /\ y.todo = x.todo /\ y.hash = x.hash /\ y.prime = x.prime /\ y.box = x.box /\ y.auto = x.auto /\ y.paused = x.paused
    BY <1>4 DEF Same, AllKeys
<1>8. Calm(y) /\ ~y.paused /\ \A u \in D : y.todo[u] = 0
    BY <1>1, <1>2, <1>7 DEF Accounted, Calm
<1>9. ASSUME NEW u \in D PROVE Steady(y, NewScene, n, u)
  <2>1. Steady(x, scene, used.edit, u)
      BY <1>1 DEF Accounted
  <2>2. Within(BuildSnapshot(NewScene, u), n) /\ Within(y.shadow[u], n)
      BY <1>3, <1>4, NewSceneFacts DEF Within
  <2>3. Within(y.hash[u], n)
    <3>1. Within(x.hash[u], used.edit) /\ x.hash[u] \in Snapshot \union {None}
        BY <1>1, <2>1 DEF Steady, Shape, File
    <3> QED
        BY <1>1, <1>3, <1>7, <3>1 DEF Within, Snapshot, Values
  <2>4. y.vis[u] = None \/ y.vis[u] <= n
    <3>1. x.vis[u] = None \/ (x.vis[u] <= used.edit /\ x.vis[u] \in Values \union {None})
        BY <1>1, <2>1 DEF Steady, Shape
    <3> QED
        BY <1>1, <1>3, <1>4, <3>1, NewSceneFacts DEF Values
  <2>5. y.shadow[u] = None \/ ~y.shadow[u].ptr
      BY <1>4, NewSceneFacts
  <2>6. /\ u \in y.reg /\ u \in y.known /\ y.dirty[u] = 0 /\ y.todo[u] = 0 /\ y.box[u] = None
      BY <1>2, <1>4, <1>7, <1>8, NewSceneFacts
  <2> HIDE DEF Within
  <2> QED
      BY <2>2, <2>3, <2>4, <2>5, <2>6, NewSceneFacts DEF Steady, Tomb
<1>10. ASSUME NEW u \in D PROVE Ready(y, NewScene, n, u)
  <2>1. u \in Scenes => y.shadow[u] # None
      BY <1>1, <1>4, NewSceneFacts, Parts, SnapshotOf, NoneAssumption DEF InFile, Tracked, NoneAssumption
  <2> QED
      BY <1>2, <1>4, <1>7, <1>8, <1>9, <2>1, NewSceneFacts DEF Ready
<1>11. Accounted(b, NewScene, n) /\ Shape(b)
    BY <1>1, <1>3, <1>4, <1>8, <1>10, BootAccounted, BootstrapShape
<1>12. b.suppress = FALSE
    BY <1>1, <1>4, BootstrapShape
<1> HIDE DEF b
<1>13. AllKeys \subseteq DOMAIN x' /\ Same(b, x', {"drop"}) /\ Same(b, x', Flags) /\ x'.drop = TRUE
    BY <1>2, <1>11 DEF Same, AllKeys, Flags, Shape
<1>14. Shape(x') /\ x'.suppress = b.suppress /\ x'.auto = b.auto /\ x'.recent = b.recent /\ Calm(x')
    BY <1>11, <1>13 DEF Shape, Same, AllKeys, Accounted, Calm
<1>15. \A u \in D : Locals(b, x', u)
    BY <1>13, FlagsLocal
<1>16. Accounted(x', NewScene, n)
    BY <1>1, <1>3, <1>11, <1>12, <1>14, <1>15, AllUndisturbed
<1> QED
    BY <1>2, <1>14, <1>16 DEF n

-----------------------------------------------------------------------------
(* Chunks.                                                                 *)

\* One chunk of the file: what is coming does not change.
LEMMA BootChunkAccounted ==
    ASSUME Whole, SendBootChunk
    PROVE  Shape(x') /\ Accounted(x', scene', used'.edit)
<1>1. SceneOK(scene) /\ Shape(x) /\ Accounted(x, scene, used.edit) /\ used.edit \in Nat /\ AllKeys \subseteq DOMAIN x
    BY WholeFacts
<1>2. /\ x.boot # None /\ scene' = scene /\ used' = used
      /\ \/ x.boot.left > 1 /\ x' = [x EXCEPT !.boot = [x.boot EXCEPT !.left = @ - 1]]
         \/ x' = [x EXCEPT !.boot = None, !.rep = x.boot.file]
    BY DEF SendBootChunk
<1>3. x.boot \in Boot /\ Chunks \in Nat
    BY <1>1, <1>2, Parts DEF Shape
<1>4. /\ AllKeys \subseteq DOMAIN x' /\ Same(x, x', {"boot", "rep"}) /\ x'.rep \in File /\ x'.boot \in Boot \union {None}
      /\ \A u \in D : (IF x'.boot # None THEN x'.boot.file[u] ELSE x'.rep[u]) = x.boot.file[u]
  <2>1. CASE x.boot.left > 1 /\ x' = [x EXCEPT !.boot = [x.boot EXCEPT !.left = @ - 1]]
    <3> DEFINE b == [x.boot EXCEPT !.left = @ - 1]
    <3>1. b \in Boot /\ b.file = x.boot.file /\ b # None
        BY <1>3, <2>1, NoneAssumption DEF Boot, NoneAssumption
    <3> HIDE DEF b
    <3>2. AllKeys \subseteq DOMAIN x' /\ Same(x, x', {"boot", "rep"}) /\ x'.rep = x.rep /\ x'.boot = b
        BY <1>1, <2>1 DEF Same, AllKeys, b
    <3> QED
        BY <1>1, <3>1, <3>2 DEF Shape
  <2>2. CASE x' = [x EXCEPT !.boot = None, !.rep = x.boot.file]
    <3>1. AllKeys \subseteq DOMAIN x' /\ Same(x, x', {"boot", "rep"}) /\ x'.rep = x.boot.file /\ x'.boot = None
        BY <1>1, <2>2 DEF Same, AllKeys
    <3> QED
        BY <1>3, <3>1 DEF Boot
  <2> QED
      BY <1>2, <2>1, <2>2
<1>5. /\ x'.pc = x.pc /\ x'.todo = x.todo /\ x'.reg = x.reg /\ x'.known = x.known /\ x'.shadow = x.shadow /\ x'.vis = x.vis
      /\ x'.dirty = x.dirty /\ x'.hash = x.hash /\ x'.prime = x.prime /\ x'.box = x.box /\ x'.suppress = x.suppress
      /\ x'.auto = x.auto /\ x'.recent = x.recent /\ x'.paused = x.paused
    BY <1>4 DEF Same, AllKeys
<1>6. Shape(x')
    BY <1>1, <1>4 DEF Shape, Same, AllKeys
<1>7. \A u \in D : Locals(x, x', u)
  <2>1. \A u \in D : Coming(x', u) = Coming(x, u)
      BY <1>2, <1>4, <1>5 DEF Coming
  <2> QED
      BY <1>5, <2>1 DEF Locals
<1>8. Calm(x') /\ ~x.suppress
    BY <1>1, <1>2, <1>5 DEF Calm, Accounted, Silent
<1>9. Accounted(x', scene, used.edit)
    BY <1>1, <1>5, <1>7, <1>8, AllUndisturbed
<1> QED
    BY <1>2, <1>6, <1>9

\* One chunk of a blob: the same, and a box that empties makes a mesh's sample count again.
LEMMA BlobChunkAccounted ==
    ASSUME Whole, NEW u \in D, SendT2Chunk(u)
    PROVE  Shape(x') /\ Accounted(x', scene', used'.edit)
<1>1. /\ SceneOK(scene) /\ Shape(x) /\ Accounted(x, scene, used.edit) /\ used.edit \in Nat /\ AllKeys \subseteq DOMAIN x
      /\ HostOK(x)
    BY WholeFacts
<1>2. /\ x.box[u] # None /\ scene' = scene /\ used' = used /\ x.boot = None /\ ~x.suppress
      /\ \/ x.box[u].left > 1 /\ x' = [x EXCEPT !.box[u].left = @ - 1]
         \/ x' = Delivered(x, u, x.box[u].val)
    BY DEF SendT2Chunk, Flushing
<1>3. x.box[u] \in Box /\ Chunks \in Nat /\ u \notin Scenes
    BY <1>1, <1>2, Parts DEF Shape, HostOK
<1>4. /\ Shape(x') /\ Only(x, x', u) /\ x'.shadow = x.shadow /\ x'.hash = x.hash
      /\ \/ x'.box[u] # None /\ x'.box[u].val = x.box[u].val
         \/ x'.box[u] = None /\ x'.rep[u] = x.box[u].val
  <2>1. CASE x.box[u].left > 1 /\ x' = [x EXCEPT !.box[u].left = @ - 1]
    <3> DEFINE b == [x.box[u] EXCEPT !.left = @ - 1]
    <3>1. b \in Box /\ b.val = x.box[u].val /\ b # None
        BY <1>3, <2>1, NoneAssumption DEF Box, NoneAssumption
    <3>2. x' = [x EXCEPT !.box[u] = b]
        BY <1>1, <2>1 DEF Shape
    <3> HIDE DEF b
    <3> QED
        BY <1>1, <3>1, <3>2, BoxShape
  <2>2. CASE x' = Delivered(x, u, x.box[u].val)
    <3>1. x.box[u].val \in Snapshot
        BY <1>3 DEF Box
    <3> QED
        BY <1>1, <2>2, <3>1, DeliveredShape
  <2> QED
      BY <1>2, <2>1, <2>2
<1>5. /\ x'.pc = x.pc /\ x'.todo = x.todo /\ x'.reg = x.reg /\ x'.known = x.known /\ x'.vis = x.vis
      /\ x'.dirty = x.dirty /\ x'.prime = x.prime /\ x'.boot = x.boot /\ x'.suppress = x.suppress
      /\ x'.auto = x.auto /\ x'.recent = x.recent /\ x'.paused = x.paused
      /\ \A d \in D \ {u} : x'.box[d] = x.box[d] /\ x'.rep[d] = x.rep[d]
    BY <1>4 DEF Only, Same, AllKeys
<1>6. ASSUME NEW d \in D PROVE Coming(x', d) = Coming(x, d)
    BY <1>2, <1>4, <1>5 DEF Coming
<1>7. \A d \in D \ {u} : Locals(x, x', d)
    BY <1>4, <1>5, <1>6 DEF Locals
<1>8. Steady(x, scene, used.edit, u) /\ Datablock(x, scene, u)
    BY <1>1, <1>2 DEF Accounted
<1>9. Steady(x', scene, used.edit, u)
    BY <1>2, <1>4, <1>5, <1>8 DEF Steady
<1>10. Datablock(x', scene, u)
  <2>1. ASSUME scene[u].alive PROVE Live(x', scene, u)
    <3>1. Live(x, scene, u)
        BY <1>8, <2>1 DEF Datablock
    <3>2. Baseline(x', scene, u)
        BY <1>4, <1>5, <1>6, <3>1 DEF Live, Baseline
    <3>3. /\ Marked(x, scene, u) => Marked(x', scene, u)
          /\ Arrives(x, scene, u) => Arrives(x', scene, u)
          /\ ByDelta(x, scene, u) => ByDelta(x', scene, u)
        BY <1>2, <1>4, <1>5, <1>6 DEF Marked, Blind, Arrives, ByDelta
    <3> QED
        BY <1>2, <1>4, <1>5, <1>6, <3>1, <3>2, <3>3 DEF Live
  <2>2. Gone(x, u) => Gone(x', u)
      BY <1>5, <1>6 DEF Gone
  <2>3. World(x, scene, u) => World(x', scene, u)
      BY <1>4, <1>5, <1>6 DEF World
  <2> QED
      BY <1>3, <1>8, <2>1, <2>2, <2>3 DEF Datablock
<1>11. \A d \in D : Steady(x', scene, used.edit, d) /\ Datablock(x', scene, d)
    BY <1>1, <1>2, <1>5, <1>7, <1>9, <1>10, Undisturbed, SteadyUndisturbed DEF Accounted
<1>12. Calm(x') /\ Named(x', scene)
    BY <1>1, <1>2, <1>4, <1>5, <1>6, Parts DEF Calm, Accounted, Named
<1> QED
    BY <1>2, <1>4, <1>5, <1>11, <1>12 DEF Accounted

-----------------------------------------------------------------------------
(* Ticks.                                                                  *)

\* The sweep of what has no event marks what it samples; a mesh's first sample is of nothing that waits.
LEMMA VisibilityAccounted ==
    ASSUME SceneOK(scene), NEW y, Shape(y), NEW n \in Nat, ~y.suppress, \A u \in D : y.box[u] = None,
           Accounted(y, scene, n)
    PROVE  Accounted(SweepVisibility(y), scene, n)
<1> DEFINE z == SweepVisibility(y)
           changed(u) == Seen(y, u) /\ y.vis[u] # scene[u].swept
           marked(u) == changed(u) /\ (u \in Tracked \/ y.vis[u] # None)
<1>1. /\ Same(y, z, {"vis", "dirty", "touch"})
      /\ \A u \in D : /\ z.vis[u] = IF changed(u) THEN scene[u].swept ELSE y.vis[u]
                      /\ z.dirty[u] = IF marked(u) THEN Ratchet(y.dirty[u], Tier(u, FALSE)) ELSE y.dirty[u]
    BY VisibilityShape
<1> HIDE DEF z
<1>2. /\ z.pc = y.pc /\ z.todo = y.todo /\ z.reg = y.reg /\ z.known = y.known /\ z.shadow = y.shadow /\ z.hash = y.hash
      /\ z.prime = y.prime /\ z.box = y.box /\ z.boot = y.boot /\ z.rep = y.rep
      /\ z.suppress = y.suppress /\ z.auto = y.auto /\ z.recent = y.recent /\ z.paused = y.paused
    BY <1>1 DEF Same, AllKeys
<1>3. \A u \in D : Coming(z, u) = Coming(y, u)
    BY <1>2 DEF Coming
<1>4. ASSUME NEW u \in D
      PROVE  /\ y.dirty[u] # 0 => z.dirty[u] # 0
             /\ z.dirty[u] = Tomb <=> y.dirty[u] = Tomb
             /\ u \in Tracked => (z.dirty[u] = 2 <=> y.dirty[u] = 2)
             /\ u \in Meshes /\ y.dirty[u] # 1 => z.dirty[u] # 1
             /\ marked(u) => z.dirty[u] # 0
             /\ ~changed(u) => z.dirty[u] = y.dirty[u] /\ z.vis[u] = y.vis[u]
  <2> DEFINE t == Tier(u, FALSE)
  <2>1. t \in {1, 2} /\ (u \in Tracked => t = 1) /\ (u \in Meshes => t = 2) /\ y.dirty[u] \in Tiers
      BY DEF Tier, Tracked, Shape
  <2> HIDE DEF t
  <2>2. z.dirty[u] = IF marked(u) THEN Ratchet(y.dirty[u], t) ELSE y.dirty[u]
      BY <1>1 DEF t
  <2>3. /\ Ratchet(y.dirty[u], t) # 0 /\ (Ratchet(y.dirty[u], t) = Tomb <=> y.dirty[u] = Tomb)
        /\ (t = 1 => (Ratchet(y.dirty[u], t) = 2 <=> y.dirty[u] = 2)) /\ (t = 2 => Ratchet(y.dirty[u], t) # 1)
      BY <2>1, RatchetTier
  <2>4. ~changed(u) => z.vis[u] = y.vis[u]
      BY <1>1
  <2> HIDE DEF changed
  <2> QED
      BY <2>1, <2>2, <2>3, <2>4
<1>5. ASSUME NEW u \in D PROVE Steady(z, scene, n, u)
  <2>1. Steady(y, scene, n, u)
      BY DEF Accounted
  <2>2. z.vis[u] = None \/ z.vis[u] <= n
    <3>1. scene[u].swept <= n
        BY <2>1, SnapshotOf, NoneAssumption DEF Steady, Within, BuildSnapshot, NoneAssumption
    <3> QED
        BY <1>1, <2>1, <3>1 DEF Steady
  <2>3. ~scene[u].alive \/ u \notin y.reg => z.dirty[u] = y.dirty[u]
      BY <1>4 DEF Seen
  <2> HIDE DEF changed
  <2> QED
      BY <1>2, <1>4, <2>1, <2>2, <2>3 DEF Steady
<1>6. ASSUME NEW u \in D PROVE Datablock(z, scene, u)
  <2>1. Datablock(y, scene, u)
      BY DEF Accounted
  <2>2. ASSUME scene[u].alive PROVE Live(z, scene, u)
    <3>1. Live(y, scene, u)
        BY <2>1, <2>2 DEF Datablock
    <3>2. Baseline(z, scene, u)
        BY <1>2, <1>3, <3>1 DEF Live, Baseline
    <3>3. Marked(y, scene, u) => Marked(z, scene, u)
      <4>1. ASSUME y.vis[u] # scene[u].swept, ~Blind(y, scene, u), u \in y.reg PROVE z.dirty[u] # 0
        <5>1. u \in Tracked \/ y.vis[u] # None
            BY <4>1 DEF Blind, Tracked
        <5> QED
            BY <1>4, <2>2, <4>1, <5>1 DEF Seen
      <4> HIDE DEF changed
      <4> QED
          BY <1>2, <1>4, <4>1 DEF Marked
    <3>4. (Arrives(y, scene, u) => Arrives(z, scene, u)) /\ (ByDelta(y, scene, u) => ByDelta(z, scene, u))
      <4> HIDE DEF changed
      <4> QED
          BY <1>2, <1>3, <1>4 DEF Arrives, ByDelta
    <3> QED
        BY <1>2, <1>3, <3>1, <3>2, <3>3, <3>4 DEF Live
  <2>3. ASSUME ~scene[u].alive PROVE Gone(z, u)
    <3>1. z.dirty[u] = y.dirty[u] /\ Gone(y, u)
        BY <1>4, <2>1, <2>3 DEF Seen, Datablock
    <3> QED
        BY <1>2, <1>3, <3>1 DEF Gone
  <2>4. u \in Worlds \union Scenes => u \in Tracked
      BY Parts DEF Tracked
  <2> HIDE DEF changed
  <2>5. u \in Worlds => World(z, scene, u)
      BY <1>2, <1>3, <1>4, <2>1, <2>4 DEF Datablock, World
  <2>6. u \in Scenes => SceneBlock(z, scene, u)
      BY <1>2, <1>3, <1>4, <2>1, <2>4 DEF Datablock, SceneBlock
  <2> QED
      BY <2>2, <2>3, <2>5, <2>6 DEF Datablock
<1> HIDE DEF changed
<1>7. Named(z, scene)
    BY <1>2, <1>3, <1>4, Parts DEF Accounted, Named
<1>8. Calm(z)
    BY <1>2 DEF Accounted, Calm
<1> QED
    BY <1>2, <1>5, <1>6, <1>7, <1>8 DEF Accounted, z

\* The sweep of the registry: what is back goes whole, what is gone and may be known gets its tombstone.
LEMMA DeletionsAccounted ==
    ASSUME SceneOK(scene), NEW y, Shape(y), NEW n \in Nat, ~y.suppress, y.pc = "idle", \A u \in D : y.box[u] = None,
           Accounted(y, scene, n)
    PROVE  Accounted(SweepDeletions(y), scene, n)
<1> DEFINE z == SweepDeletions(y)
           back(u) == scene[u].alive /\ u \notin y.reg
           dead(u) == u \in y.reg /\ ~scene[u].alive
<1>1. /\ Same(y, z, {"reg", "shadow", "touch", "dirty"})
      /\ \A u \in D : /\ u \in z.reg <=> scene[u].alive /\ (u \in y.reg \/ back(u))
                      /\ z.shadow[u] = IF dead(u) THEN None ELSE y.shadow[u]
                      /\ z.dirty[u] = IF back(u) THEN Ratchet(y.dirty[u], 2)
                                      ELSE IF dead(u) THEN IF u \in y.known THEN Tomb ELSE 0 ELSE y.dirty[u]
    BY DeletionsShape
<1> HIDE DEF z
<1>2. /\ z.pc = y.pc /\ z.todo = y.todo /\ z.known = y.known /\ z.vis = y.vis /\ z.hash = y.hash
      /\ z.prime = y.prime /\ z.box = y.box /\ z.boot = y.boot /\ z.rep = y.rep
      /\ z.suppress = y.suppress /\ z.auto = y.auto /\ z.recent = y.recent /\ z.paused = y.paused
    BY <1>1 DEF Same, AllKeys
<1>3. \A u \in D : Coming(z, u) = Coming(y, u)
    BY <1>2 DEF Coming
<1>4. ASSUME NEW u \in D, scene[u].alive, u \in y.reg PROVE Locals(y, z, u)
    BY <1>1, <1>2, <1>3, <1>4 DEF Locals
<1>5. ASSUME NEW u \in D PROVE Steady(y, scene, n, u) /\ Datablock(y, scene, u) /\ y.todo[u] = 0
    BY DEF Accounted, Calm
<1>6. ASSUME NEW u \in D PROVE Steady(z, scene, n, u) /\ Datablock(z, scene, u)
  <2>1. CASE scene[u].alive /\ u \in y.reg
      BY <1>2, <1>4, <1>5, <2>1, Undisturbed, SteadyUndisturbed
  <2>2. u \in Worlds \union Scenes => scene[u].alive /\ u \in y.reg
      BY <1>5 DEF SceneOK, Datablock, World, SceneBlock
  <2>3. CASE back(u)
    <3>1. y.dirty[u] \in Tiers /\ y.dirty[u] # Tomb
        BY <1>5, <2>3 DEF Shape, Steady
    <3>2. z.dirty[u] = 2 /\ z.shadow[u] = y.shadow[u] /\ u \in z.reg
        BY <1>1, <2>3, <3>1, RatchetTier
    <3>3. Steady(z, scene, n, u)
        BY <1>2, <1>5, <2>3, <3>2 DEF Steady, Tomb
    <3>4. Live(y, scene, u) /\ y.hash[u] = None
        BY <1>5, <2>3 DEF Datablock, Live
    <3>5. Baseline(z, scene, u)
        BY <1>2, <1>3, <3>2, <3>4 DEF Live, Baseline
    <3>6. z.hash[u] # BuildSnapshot(scene, u)
        BY <1>2, <3>4, SnapshotOf, NoneAssumption DEF NoneAssumption
    <3>7. Live(z, scene, u)
        BY <1>2, <3>2, <3>5, <3>6 DEF Live, Marked
    <3> QED
        BY <2>2, <2>3, <3>3, <3>7 DEF Datablock
  <2>4. CASE dead(u)
    <3>1. z.dirty[u] = (IF u \in y.known THEN Tomb ELSE 0) /\ z.shadow[u] = None /\ u \notin z.reg
        BY <1>1, <2>4
    <3>2. Steady(z, scene, n, u)
        BY <1>2, <1>5, <2>4, <3>1 DEF Steady, Within, Tomb
    <3>3. Gone(z, u)
        BY <1>3, <1>5, <2>4, <3>1 DEF Datablock, Gone, Steady
    <3> QED
        BY <2>2, <2>4, <3>2, <3>3 DEF Datablock
  <2>5. CASE ~scene[u].alive /\ u \notin y.reg
    <3>1. Locals(y, z, u)
        BY <1>1, <1>2, <1>3, <2>5 DEF Locals
    <3> QED
        BY <1>2, <1>5, <3>1, Undisturbed, SteadyUndisturbed
  <2> QED
      BY <2>1, <2>3, <2>4, <2>5
<1>7. Named(z, scene)
  <2>1. \A d \in Scenes : d \in D /\ scene[d].alive /\ d \in y.reg
      BY <1>5, Parts DEF SceneOK, Datablock, SceneBlock
  <2> QED
      BY <1>3, <1>4, <2>1, Parts DEF Accounted, Named, Locals
<1>8. Calm(z)
    BY <1>2 DEF Accounted, Calm
<1> QED
    BY <1>2, <1>6, <1>7, <1>8 DEF Accounted, z

\* A hash is taken with nothing to send: it is of what the replica holds, or nothing asks for it.
LEMMA PrimeAccounted ==
    ASSUME SceneOK(scene), NEW y, Shape(y), NEW n \in Nat, ~y.suppress, y.pc = "idle", \A u \in D : y.box[u] = None,
           Accounted(y, scene, n), y.paused \/ \A u \in D : y.dirty[u] = 0, NEW u \in y.prime
    PROVE  Accounted(PrimeHashes(y, u), scene, n)
<1> DEFINE z == PrimeHashes(y, u)
<1>0. u \in D /\ u \notin Scenes
    BY DEF Shape, Sendable
<1>1. /\ Same(y, z, {"prime", "hash"}) /\ z.prime = y.prime \ {u}
      /\ \A d \in D \ {u} : z.hash[d] = y.hash[d]
      /\ z.hash[u] = y.hash[u] \/ (z.hash[u] = Now(u) /\ Seen(y, u) /\ y.hash[u] = None)
    BY <1>0, PrimeShape
<1> HIDE DEF z
<1>2. /\ z.pc = y.pc /\ z.todo = y.todo /\ z.reg = y.reg /\ z.known = y.known /\ z.vis = y.vis /\ z.shadow = y.shadow
      /\ z.dirty = y.dirty /\ z.box = y.box /\ z.boot = y.boot /\ z.rep = y.rep
      /\ z.suppress = y.suppress /\ z.auto = y.auto /\ z.recent = y.recent /\ z.paused = y.paused
    BY <1>1 DEF Same, AllKeys
<1>3. \A d \in D : Coming(z, d) = Coming(y, d)
    BY <1>2 DEF Coming
<1>4. ~y.paused /\ \A d \in D : y.dirty[d] = 0 /\ y.todo[d] = 0
    BY DEF Accounted, Calm
<1>5. \A d \in D \ {u} : Locals(y, z, d)
    BY <1>1, <1>2, <1>3 DEF Locals
<1>6. Steady(y, scene, n, u) /\ Datablock(y, scene, u)
    BY <1>0 DEF Accounted
<1>7. Steady(z, scene, n, u)
  <2>1. Within(z.hash[u], n)
      BY <1>1, <1>6 DEF Steady, Now
  <2> QED
      BY <1>2, <1>6, <2>1 DEF Steady
<1>8. Datablock(z, scene, u)
  <2>1. ASSUME scene[u].alive PROVE Live(z, scene, u)
    <3>1. Live(y, scene, u)
        BY <1>6, <2>1 DEF Datablock
    <3>2. Baseline(z, scene, u)
        BY <1>0, <1>2, <1>3, <3>1 DEF Live, Baseline
    <3>3. Marked(y, scene, u) => Marked(z, scene, u)
        BY <1>1, <1>2 DEF Marked, Blind
    <3>4. (Arrives(y, scene, u) => Arrives(z, scene, u)) /\ (ByDelta(y, scene, u) => ByDelta(z, scene, u))
        BY <1>0, <1>2, <1>3 DEF Arrives, ByDelta
    <3>5. ASSUME u \in y.reg PROVE Coming(y, u) # None /\ (Arrives(y, scene, u) \/ ByDelta(y, scene, u))
      <4>1. Coming(y, u) # None \/ u \notin Worlds
        <5> SUFFICES ASSUME u \in Worlds, Coming(y, u) = None PROVE FALSE
            OBVIOUS
        <5>1. scene[u].used
            BY <1>6 DEF Datablock, World
        <5> QED
            BY <1>4, <5>1, Parts DEF Accounted, Named
      <4>2. CASE Arrives(y, scene, u)
          BY <4>2 DEF Arrives
      <4>3. CASE Marked(y, scene, u)
        <5>1. ByDelta(y, scene, u)
            BY <1>0, <1>4, <3>5, <4>3 DEF Marked, Blind, ByDelta
        <5>2. Coming(y, u) # None
            BY <3>1, <4>1, <5>1 DEF Live, Baseline, ByDelta
        <5> QED
            BY <5>1, <5>2
      <4> QED
          BY <3>1, <4>1, <4>2, <4>3 DEF Live
    <3>6. z.hash[u] = y.hash[u] \/ u \in y.reg
        BY <1>1 DEF Seen
    <3>7. z.hash[u] = BuildSnapshot(scene, u) => Coming(z, u) # None /\ (Arrives(z, scene, u) \/ ByDelta(z, scene, u))
        BY <1>0, <1>3, <3>1, <3>4, <3>5, <3>6 DEF Live
    <3>8. y.reg = z.reg /\ z.box[u] = None /\ (u \notin y.reg => z.hash[u] = None)
        BY <1>0, <1>2, <3>1, <3>6 DEF Live
    <3> QED
        BY <1>0, <1>3, <3>1, <3>2, <3>3, <3>4, <3>7, <3>8 DEF Live
  <2>2. Gone(y, u) => Gone(z, u)
      BY <1>0, <1>2, <1>3 DEF Gone
  <2>3. World(y, scene, u) => World(z, scene, u)
      BY <1>0, <1>1, <1>2, <1>3 DEF World
  <2> QED
      BY <1>0, <1>6, <2>1, <2>2, <2>3 DEF Datablock
<1>9. \A d \in D : Steady(z, scene, n, d) /\ Datablock(z, scene, d)
    BY <1>2, <1>5, <1>7, <1>8, Undisturbed, SteadyUndisturbed DEF Accounted
<1>10. Named(z, scene) /\ Calm(z)
    BY <1>0, <1>2, <1>3, <1>4, Parts DEF Accounted, Named, Calm
<1> QED
    BY <1>2, <1>9, <1>10 DEF Accounted, z

\* A tick takes what is ripe into its list, and the tombstones leave.
LEMMA DrainAccounted ==
    ASSUME SceneOK(scene), NEW y, Shape(y), NEW n \in Nat, ~y.suppress, ~y.paused, y.boot = None, y.pc = "idle",
           \A u \in D : y.box[u] = None, Accounted(y, scene, n), NEW refused \in SUBSET {u \in D : y.dirty[u] = Tomb}
    PROVE  Accounted(Drain(y, refused), scene, n)
<1> DEFINE z == Drain(y, refused)
<1>1. /\ Same(y, z, {"known", "rep", "dirty", "todo", "touch", "budget", "pc"}) /\ z.pc = "flush"
      /\ \A u \in D : /\ u \in z.known <=>
                                  \/ y.dirty[u] # Tomb /\ (u \in y.known \/ y.dirty[u] > 0)
                                  \/ u \in refused /\ u \in y.known
                      /\ z.rep[u] = IF y.dirty[u] = Tomb /\ u \notin refused THEN None ELSE y.rep[u]
                      /\ y.dirty[u] = Tomb /\ u \notin refused => z.dirty[u] = 0 /\ z.todo[u] = 0
                      /\ u \in refused => z.dirty[u] = Tomb /\ z.todo[u] = 0
                      /\ y.dirty[u] = 0 => z.dirty[u] = 0 /\ z.todo[u] = 0
                      /\ y.dirty[u] > 0 => \/ z.dirty[u] = 0 /\ z.todo[u] = y.dirty[u]
                                           \/ z.dirty[u] = y.dirty[u] /\ z.todo[u] = 0
    BY DrainShape
<1> HIDE DEF z
<1>2. /\ z.reg = y.reg /\ z.vis = y.vis /\ z.shadow = y.shadow /\ z.hash = y.hash /\ z.prime = y.prime
      /\ z.box = y.box /\ z.boot = y.boot
      /\ z.suppress = y.suppress /\ z.auto = y.auto /\ z.recent = y.recent /\ z.paused = y.paused
    BY <1>1 DEF Same, AllKeys
<1>3. ASSUME NEW u \in D
      PROVE  /\ Steady(y, scene, n, u) /\ Datablock(y, scene, u) /\ y.dirty[u] \in Tiers /\ y.todo[u] = 0
             /\ Coming(z, u) = IF y.dirty[u] = Tomb /\ u \notin refused THEN None ELSE Coming(y, u)
             /\ y.dirty[u] \notin {Tomb, 0} => y.dirty[u] > 0
  <2>1. Steady(y, scene, n, u) /\ Datablock(y, scene, u) /\ y.todo[u] = 0
      BY DEF Accounted, Calm
  <2>2. y.dirty[u] \in Tiers
      BY DEF Shape
  <2>3. y.dirty[u] \notin {Tomb, 0} => y.dirty[u] > 0
      BY <2>2 DEF Tiers
  <2>4. Coming(z, u) = IF y.dirty[u] = Tomb /\ u \notin refused THEN None ELSE Coming(y, u)
      BY <1>1, <1>2 DEF Coming
  <2> QED
      BY <2>1, <2>2, <2>3, <2>4
<1>4. ASSUME NEW u \in D PROVE Steady(z, scene, n, u) /\ Datablock(z, scene, u)
  <2>1. Steady(y, scene, n, u) /\ Datablock(y, scene, u) /\ y.dirty[u] \in Tiers /\ y.todo[u] = 0
      BY <1>3
  <2>0. CASE u \in refused
    <3>1. y.dirty[u] = Tomb /\ z.dirty[u] = Tomb /\ z.todo[u] = 0 /\ (u \in z.known <=> u \in y.known) /\ Coming(z, u) = Coming(y, u)
        BY <1>1, <1>3, <2>0 DEF Tomb
    <3>2. Locals(y, z, u)
        BY <1>2, <2>1, <3>1 DEF Locals
    <3> QED
        BY <1>2, <2>1, <3>2, Undisturbed, SteadyUndisturbed
  <2>2. CASE y.dirty[u] = Tomb /\ u \notin refused
    <3>1. ~scene[u].alive /\ z.dirty[u] = 0 /\ z.todo[u] = 0 /\ Coming(z, u) = None
        BY <1>1, <1>3, <2>1, <2>2 DEF Steady
    <3>2. Steady(z, scene, n, u)
        BY <1>2, <2>1, <2>2, <3>1 DEF Steady, Tomb
    <3> QED
        BY <3>1, <3>2 DEF Datablock, Gone, SceneOK
  <2>3. CASE y.dirty[u] # Tomb
    <3>1. /\ Coming(z, u) = Coming(y, u) /\ (u \in y.known => u \in z.known)
          /\ z.dirty[u] # Tomb /\ (y.dirty[u] # 2 => z.dirty[u] # 2 /\ z.todo[u] # 2)
          /\ (y.dirty[u] # 1 => z.dirty[u] # 1 /\ z.todo[u] # 1)
          /\ (y.dirty[u] # 0 <=> z.dirty[u] # 0 \/ z.todo[u] # 0) /\ (z.todo[u] # 0 => u \in z.known)
        BY <1>1, <1>3, <2>3 DEF Tomb
    <3>2. Steady(z, scene, n, u)
        BY <1>2, <2>1, <2>3, <3>1 DEF Steady
    <3>3. ASSUME scene[u].alive PROVE Live(z, scene, u)
      <4>1. Live(y, scene, u)
          BY <2>1, <3>3 DEF Datablock
      <4>2. Baseline(z, scene, u)
          BY <1>2, <3>1, <4>1 DEF Live, Baseline
      <4>3. /\ Marked(y, scene, u) => Marked(z, scene, u)
            /\ Arrives(y, scene, u) => Arrives(z, scene, u)
            /\ ByDelta(y, scene, u) => ByDelta(z, scene, u)
          BY <1>2, <2>1, <3>1 DEF Marked, Blind, Arrives, ByDelta
      <4> QED
          BY <1>2, <3>1, <4>1, <4>2, <4>3 DEF Live
    <3>4. Gone(y, u) => Gone(z, u)
        BY <1>2, <2>3, <3>1 DEF Gone
    <3>5. World(y, scene, u) => World(z, scene, u)
        BY <1>2, <3>1 DEF World
    <3>6. SceneBlock(y, scene, u) => SceneBlock(z, scene, u)
        BY <1>2, <3>1 DEF SceneBlock
    <3> QED
        BY <2>1, <3>2, <3>3, <3>4, <3>5, <3>6 DEF Datablock
  <2> QED
      BY <2>0, <2>2, <2>3
<1>5. Named(z, scene)
  <2> SUFFICES ASSUME NEW w \in Worlds, scene[w].used, Coming(z, w) = None
               PROVE  \E d \in Scenes : scene[d].ptr /\ ~z.shadow[d].ptr /\ (z.dirty[d] # 0 \/ z.todo[d] # 0)
      BY DEF Named
  <2>1. y.dirty[w] # Tomb /\ Coming(y, w) = None
      BY <1>3, Parts DEF Steady, SceneOK
  <2>2. PICK d \in Scenes : scene[d].ptr /\ ~y.shadow[d].ptr /\ (y.dirty[d] # 0 \/ y.todo[d] # 0)
      BY <2>1 DEF Accounted, Named
  <2>3. d \in D /\ y.dirty[d] > 0
      BY <1>3, <2>2, Parts DEF Steady, SceneOK
  <2> QED
      BY <1>1, <1>2, <2>2, <2>3
<1>6. Calm(z)
    BY <1>1, <1>2 DEF Calm
<1> QED
    BY <1>2, <1>4, <1>5, <1>6 DEF Accounted, z

\* A tick up to its list.
LEMMA TickAccounted ==
    ASSUME Whole, Allowed = {}, NEW sweep \in BOOLEAN, Tick(sweep, TRUE)
    PROVE  Shape(x') /\ Accounted(x', scene', used'.edit)
<1> DEFINE y == IF sweep THEN SweepDeletions(SweepVisibility(x)) ELSE x
           v == SweepVisibility(x)
<1>1. SceneOK(scene) /\ Shape(x) /\ Accounted(x, scene, used.edit) /\ used.edit \in Nat
    BY WholeFacts
<1>2. /\ x.pc = "idle" /\ x.boot = None /\ ~x.suppress /\ (\A u \in D : x.box[u] = None) /\ scene' = scene /\ used' = used
    BY DEF Tick, Flushing, BoxesEmpty
<1>3. \/ (y.paused \/ \A u \in D : y.dirty[u] = 0) /\ (x' = y \/ \E u \in y.prime : x' = PrimeHashes(y, u))
      \/ ~y.paused /\ \E refused \in SUBSET {u \in D : y.dirty[u] = Tomb} : x' = Drain(y, refused)
    BY DEF Tick
<1>4. /\ Shape(y) /\ Accounted(y, scene, used.edit) /\ y.pc = x.pc /\ y.boot = x.boot /\ y.suppress = x.suppress /\ y.box = x.box
  <2>1. CASE sweep
    <3>1. Shape(v) /\ Same(x, v, {"vis", "dirty", "touch"})
        BY <1>1, VisibilityShape
    <3>2. Accounted(v, scene, used.edit)
        BY <1>1, <1>2, VisibilityAccounted
    <3>3. y = SweepDeletions(v)
        BY <2>1
    <3> HIDE DEF y, v
    <3>4. v.pc = x.pc /\ v.boot = x.boot /\ v.suppress = x.suppress /\ v.box = x.box
        BY <3>1 DEF Same, AllKeys
    <3>5. Shape(y) /\ Same(v, y, {"reg", "shadow", "touch", "dirty"})
        BY <3>1, <3>3, DeletionsShape
    <3>6. y.pc = v.pc /\ y.boot = v.boot /\ y.suppress = v.suppress /\ y.box = v.box
        BY <3>5 DEF Same, AllKeys
    <3>7. Accounted(y, scene, used.edit)
        BY <1>1, <1>2, <3>1, <3>2, <3>3, <3>4, DeletionsAccounted
    <3> QED
        BY <3>4, <3>5, <3>6, <3>7
  <2>2. CASE ~sweep
      BY <1>1, <2>2
  <2> QED
      BY <2>1, <2>2
<1> HIDE DEF y
<1>5. CASE ~y.paused /\ \E refused \in SUBSET {u \in D : y.dirty[u] = Tomb} : x' = Drain(y, refused)
    BY <1>1, <1>2, <1>4, <1>5, DrainShape, DrainAccounted
<1>6. CASE (y.paused \/ \A u \in D : y.dirty[u] = 0) /\ \E u \in y.prime : x' = PrimeHashes(y, u)
  <2>1. PICK u \in y.prime : x' = PrimeHashes(y, u)
      BY <1>6
  <2>2. u \in D
      BY <1>4 DEF Shape, Sendable
  <2> QED
      BY <1>1, <1>2, <1>4, <1>6, <2>1, <2>2, PrimeShape, PrimeAccounted
<1> QED
    BY <1>2, <1>3, <1>4, <1>5, <1>6

-----------------------------------------------------------------------------
(* The loop of flush_tick.                                                 *)

\* What holds of a datablock on the tick's list.
LEMMA ListFacts ==
    ASSUME Whole, x.pc = "flush", NEW u \in D, x.todo[u] # 0
    PROVE  /\ SceneOK(scene) /\ Shape(x) /\ AllKeys \subseteq DOMAIN x /\ HostOK(x) /\ used.edit \in Nat
           /\ ~x.suppress /\ ~x.paused /\ x.boot = None /\ Named(x, scene)
           /\ Steady(x, scene, used.edit, u) /\ Datablock(x, scene, u)
           /\ x.box[u] = None \/ (u \in Worlds /\ x.shadow[u] = Now(u))
           /\ x.box[u] = None => Coming(x, u) = x.rep[u]
           /\ u \in x.known /\ u \in x.reg
           /\ \A d \in D : Steady(x, scene, used.edit, d) /\ Datablock(x, scene, d)
<1>1. SceneOK(scene) /\ HostOK(x) /\ Shape(x) /\ Accounted(x, scene, used.edit) /\ used.edit \in Nat /\ AllKeys \subseteq DOMAIN x
    BY WholeFacts
<1>2. x.boot = None
    BY <1>1 DEF HostOK
<1>3. ~x.suppress /\ ~x.paused
    BY <1>1 DEF Accounted, Silent, Calm
<1>4. Named(x, scene) /\ \A d \in D : Steady(x, scene, used.edit, d) /\ Datablock(x, scene, d)
    BY <1>1, <1>3 DEF Accounted
<1>5. (x.box[u] = None \/ (u \in Worlds /\ x.shadow[u] = Now(u))) /\ u \in x.known /\ u \in x.reg
    BY <1>4 DEF Steady, Now
<1> QED
    BY <1>1, <1>2, <1>3, <1>4, <1>5 DEF Coming

Flushed == {"todo", "budget", "touch", "dirty", "shadow", "hash", "box", "shipped", "rep", "auto"}

\* The rest of the scene does not mind.
LEMMA FlushFrame ==
    ASSUME Whole, x.pc = "flush", NEW u \in D, x.todo[u] # 0, NEW z, Same(x, z, Flushed), x.auto => z.auto,
           NEW touched \in SUBSET D,
           \A d \in D \ touched : /\ z.todo[d] = x.todo[d] /\ z.dirty[d] = x.dirty[d] /\ z.shadow[d] = x.shadow[d]
                                  /\ z.hash[d] = x.hash[d] /\ z.box[d] = x.box[d] /\ z.rep[d] = x.rep[d],
           \A d \in touched : Steady(z, scene, used.edit, d) /\ Datablock(z, scene, d),
           Named(z, scene)
    PROVE  Accounted(z, scene, used.edit)
<1>1. /\ z.pc = x.pc /\ z.reg = x.reg /\ z.known = x.known /\ z.vis = x.vis /\ z.prime = x.prime /\ z.boot = x.boot
      /\ z.suppress = x.suppress /\ z.recent = x.recent /\ z.paused = x.paused
    BY DEF Same, AllKeys, Flushed
<1>2. /\ SceneOK(scene) /\ Shape(x) /\ used.edit \in Nat /\ ~x.suppress /\ ~x.paused
      /\ \A d \in D : Steady(x, scene, used.edit, d) /\ Datablock(x, scene, d)
    BY ListFacts
<1>3. ASSUME NEW d \in D \ touched PROVE Locals(x, z, d)
    BY <1>1, ComingSame DEF Locals
<1>4. ASSUME NEW d \in D PROVE Steady(z, scene, used.edit, d) /\ Datablock(z, scene, d)
  <2>1. CASE d \in touched
      BY <2>1
  <2>2. CASE d \notin touched
      BY <1>1, <1>2, <1>3, <2>2, Undisturbed, SteadyUndisturbed
  <2> QED
      BY <2>1, <2>2
<1>5. Calm(z)
    BY <1>1, <1>2 DEF Calm
<1> QED
    BY <1>1, <1>2, <1>4, <1>5 DEF Accounted

\* A datablock that is sent as it is, by whichever way.
LEMMA SettledLive ==
    ASSUME SceneOK(scene), NEW z, NEW u \in D, u \in z.reg, Arrives(z, scene, u), u \in Tracked => z.shadow[u] = Now(u)
    PROVE  Live(z, scene, u)
<1>1. Now(u) # None /\ Now(u).heavy = scene[u].heavy
    BY NowTyped
<1>2. Baseline(z, scene, u)
    BY DEF Baseline, Arrives
<1>3. Coming(z, u) # None
    BY DEF Arrives
<1> QED
    BY <1>1, <1>2, <1>3 DEF Live

\* It keeps what holds at any time.
LEMMA SettledSteady ==
    ASSUME SceneOK(scene), NEW n \in Nat, NEW y, NEW z, NEW u \in D, Steady(y, scene, n, u), u \in y.reg, u \in z.reg,
           u \in z.known <=> u \in y.known, z.vis[u] = y.vis[u], z.dirty[u] = y.dirty[u],
           z.todo[u] = 0 \/ (z.todo[u] = y.todo[u] /\ (z.box[u] = None \/ (u \in Worlds /\ z.shadow[u] = Now(u)))),
           z.box[u] # None => u \in y.known \/ u \in Worlds,
           z.shadow[u] \in {y.shadow[u], Now(u)}, z.hash[u] \in {y.hash[u], Now(u)}
    PROVE  Steady(z, scene, n, u)
<1>1. Within(Now(u), n) /\ Now(u) = BuildSnapshot(scene, u) /\ Now(u).ptr = scene[u].ptr
    BY NowTyped DEF Steady, Now
<1>2. Within(z.shadow[u], n) /\ Within(z.hash[u], n)
    BY <1>1 DEF Steady
<1>3. z.shadow[u] # None /\ z.shadow[u].ptr => scene[u].ptr
    BY <1>1 DEF Steady
<1> QED
    BY <1>1, <1>2, <1>3 DEF Steady

\* A blob on its way, or skipped because the replica holds exactly this: what a delta
\* would have to carry is never skipped by its hash.
LEMMA BlobSettles ==
    ASSUME Whole, x.pc = "flush", NEW u \in D \ Scenes, x.todo[u] # 0, scene[u].alive, ~ByDelta(x, scene, u),
           NEW y, Shape(y), Same(x, y, {"todo", "budget", "shadow"}), y.todo[u] = 0,
           \A d \in D \ {u} : y.todo[d] = x.todo[d] /\ y.shadow[d] = x.shadow[d],
           u \in Tracked \/ y.shadow[u] = x.shadow[u], NEW left \in 0..Chunks
    PROVE  Shape(FlushT2(y, u, left)) /\ Accounted(FlushT2(y, u, left), scene, used.edit)
<1> DEFINE z == FlushT2(y, u, left)
<1>1. /\ SceneOK(scene) /\ Shape(x) /\ HostOK(x) /\ used.edit \in Nat /\ x.boot = None /\ Named(x, scene)
      /\ Steady(x, scene, used.edit, u) /\ Datablock(x, scene, u)
      /\ x.box[u] = None /\ u \in x.known /\ u \in x.reg
  <2>1. /\ SceneOK(scene) /\ Shape(x) /\ HostOK(x) /\ used.edit \in Nat /\ x.boot = None /\ Named(x, scene)
        /\ Steady(x, scene, used.edit, u) /\ Datablock(x, scene, u)
        /\ x.box[u] = None \/ (u \in Worlds /\ x.shadow[u] = Now(u))
        /\ u \in x.known /\ u \in x.reg
      BY ListFacts
  <2>2. ~(u \in Worlds /\ x.shadow[u] = Now(u))
      BY <2>1, NowTyped, Parts DEF Datablock, World, ByDelta, Tracked
  <2> QED
      BY <2>1, <2>2
<1>2. /\ y.pc = x.pc /\ y.reg = x.reg /\ y.known = x.known /\ y.vis = x.vis /\ y.prime = x.prime /\ y.boot = x.boot
      /\ y.dirty = x.dirty /\ y.hash = x.hash /\ y.box = x.box /\ y.rep = x.rep /\ y.auto = x.auto
    BY DEF Same, AllKeys
<1>3. Seen(y, u)
    BY <1>1, <1>2 DEF Seen
<1>4. /\ Shape(z) /\ Only(y, z, u) /\ z.hash[u] = Now(u)
      /\ z.shadow[u] = IF u \in Tracked THEN Now(u) ELSE y.shadow[u]
      /\ \/ u \in y.shipped /\ y.hash[u] = Now(u) /\ z.box[u] = y.box[u] /\ z.rep[u] = y.rep[u]
         \/ z.box[u] = None /\ z.rep[u] = Now(u)
         \/ left # 0 /\ z.box[u] # None /\ z.box[u].val = Now(u) /\ z.rep[u] = y.rep[u]
    BY <1>1, <1>3, FlushT2Shape
<1> HIDE DEF z
<1>5. /\ Same(x, z, Flushed) /\ z.reg = x.reg /\ z.known = x.known /\ z.vis = x.vis /\ z.prime = x.prime /\ z.boot = None
      /\ z.dirty = x.dirty /\ z.auto = x.auto /\ z.todo = y.todo
      /\ \A d \in D \ {u} : z.shadow[d] = x.shadow[d] /\ z.hash[d] = x.hash[d] /\ z.box[d] = x.box[d] /\ z.rep[d] = x.rep[d]
    BY <1>1, <1>2, <1>4 DEF Only, Same, AllKeys, Flushed
<1>6. Arrives(z, scene, u)
  <2>1. CASE y.hash[u] = Now(u) /\ z.box[u] = y.box[u] /\ z.rep[u] = y.rep[u]
    <3>1. Coming(z, u) = Coming(x, u)
        BY <1>1, <1>2, <1>5, <2>1 DEF Coming
    <3>2. Arrives(x, scene, u)
        BY <1>1, <1>2, <2>1 DEF Datablock, Live, Now
    <3> QED
        BY <1>5, <3>1, <3>2 DEF Arrives
  <2>2. CASE \/ z.box[u] = None /\ z.rep[u] = Now(u)
             \/ z.box[u] # None /\ z.box[u].val = Now(u)
    <3>1. Coming(z, u) = Now(u)
        BY <1>5, <2>2 DEF Coming
    <3> QED
        BY <1>1, <3>1, NowTyped DEF Arrives
  <2> QED
      BY <1>4, <2>1, <2>2
<1>7. Live(z, scene, u)
    BY <1>1, <1>4, <1>5, <1>6, SettledLive
<1>8. Steady(z, scene, used.edit, u)
    BY <1>1, <1>4, <1>5, SettledSteady, SMTT(30)
<1>9. u \in Worlds => World(z, scene, u)
  <2>1. u \in Worlds => u \in Tracked /\ Now(u) # None
      BY <1>1, Parts, NowTyped DEF Tracked
  <2> QED
      BY <1>1, <1>4, <1>5, <2>1 DEF World, Datablock
<1>10. Datablock(z, scene, u)
    BY <1>7, <1>9 DEF Datablock
<1>11. Named(z, scene)
  <2> SUFFICES ASSUME NEW w \in Worlds, scene[w].used, Coming(z, w) = None
               PROVE  \E d \in Scenes : scene[d].ptr /\ ~z.shadow[d].ptr /\ (z.dirty[d] # 0 \/ z.todo[d] # 0)
      BY DEF Named
  <2>1. w # u
      BY <1>6 DEF Arrives
  <2>2. Coming(x, w) = None
      BY <1>1, <1>5, <2>1, Parts DEF Coming
  <2>3. PICK d \in Scenes : scene[d].ptr /\ ~x.shadow[d].ptr /\ (x.dirty[d] # 0 \/ x.todo[d] # 0)
      BY <1>1, <2>2 DEF Named
  <2>4. d \in D \ {u}
      BY Parts
  <2> QED
      BY <1>5, <2>3, <2>4
<1>12. Accounted(z, scene, used.edit)
  <2>1. \A d \in D \ {u} : /\ z.todo[d] = x.todo[d] /\ z.dirty[d] = x.dirty[d] /\ z.shadow[d] = x.shadow[d]
                           /\ z.hash[d] = x.hash[d] /\ z.box[d] = x.box[d] /\ z.rep[d] = x.rep[d]
      BY <1>5
  <2>2. {u} \in SUBSET D /\ \A d \in {u} : Steady(z, scene, used.edit, d) /\ Datablock(z, scene, d)
      BY <1>8, <1>10
  <2> QED
      BY <1>5, <1>11, <2>1, <2>2, FlushFrame
<1> QED
    BY <1>4, <1>12 DEF z

\* What _send_t1 has done before the delta: the target of its pointer is gone ahead.
Ahead(y, u, was, left) ==
    LET ws == Targets(y, u, was)
    IN  IF ws = {} THEN y ELSE FlushT2(EnsureUuid(y, ws), CHOOSE w \in ws : TRUE, left)

Unsent(y, q, d) == q.shadow[d] = y.shadow[d] /\ q.hash[d] = y.hash[d] /\ q.box[d] = y.box[d] /\ q.rep[d] = y.rep[d]
SentNow(q, d) ==
    /\ q.shadow[d] = Now(d) /\ q.hash[d] = Now(d)
    /\ (q.box[d] = None /\ q.rep[d] = Now(d)) \/ (q.box[d] # None /\ q.box[d].val = Now(d))

\* The state in which the delta goes, or does not.
GoneAhead(y, u, was, left, q) ==
    /\ left = 0 => \A w \in Targets(y, u, was) : q.box[w] = None
    /\ Shape(q) /\ Same(y, q, {"shadow", "hash", "box", "shipped", "rep"})
    /\ \A d \in D : Unsent(y, q, d) \/ (d \in Worlds /\ scene[u].ptr /\ SentNow(q, d))
    /\ scene[u].ptr /\ ~was.ptr => \A w \in Worlds : Coming(q, w) # None

\* A target that the replica may lack has left, or waits in its box.
LEMMA TargetSent ==
    ASSUME Whole, x.pc = "flush", NEW u \in D, x.todo[u] # 0,
           NEW y, Shape(y), Same(x, y, {"todo", "shadow"}),
           \A d \in D \ {u} : y.todo[d] = x.todo[d] /\ y.shadow[d] = x.shadow[d],
           NEW was \in Snapshot, NEW left \in 0..Chunks
    PROVE  GoneAhead(y, u, was, left, Ahead(y, u, was, left))
<1> DEFINE ws == Targets(y, u, was)
           w0 == CHOOSE w \in ws : TRUE
           e == EnsureUuid(y, ws)
           q == Ahead(y, u, was, left)
<1>1. /\ SceneOK(scene) /\ Shape(x) /\ HostOK(x) /\ x.boot = None /\ Steady(x, scene, used.edit, u)
      /\ \A w \in D : Datablock(x, scene, w)
    BY ListFacts
<1>2. y.shipped = x.shipped /\ y.rep = x.rep /\ y.box = x.box /\ y.boot = None /\ y.reg = x.reg /\ y.hash = x.hash
    BY <1>1 DEF Same, AllKeys
<1>3. q = IF ws = {} THEN y ELSE FlushT2(e, w0, left)
    BY DEF Ahead
<1>4. /\ ws \subseteq Worlds /\ ws \cap x.shipped = {}
      /\ (ws # {} => scene[u].ptr /\ u \in Scenes /\ u \notin Worlds)
      /\ (scene[u].ptr /\ ~was.ptr => \A w \in Worlds : w \in ws \/ w \in x.shipped)
  <2>1. scene[u].ptr => u \in Scenes /\ u \notin Worlds
      BY <1>1, Parts DEF Steady
  <2> QED
      BY <1>1, <1>2, <2>1 DEF Targets, SceneOK
<1> HIDE DEF ws, q
<1>5. CASE ws = {}
  <2>1. q = y
      BY <1>3, <1>5
  <2>3. scene[u].ptr /\ ~was.ptr => \A w \in Worlds : Coming(y, w) # None
    <3> SUFFICES ASSUME scene[u].ptr, ~was.ptr, NEW w \in Worlds PROVE Coming(y, w) # None
        OBVIOUS
    <3>1. w \in x.shipped /\ x.rep[w] # None
        BY <1>1, <1>4, <1>5 DEF HostOK
    <3>2. y.box[w] # None => y.box[w].val # None
        BY Parts, NoneAssumption DEF Shape, Box, NoneAssumption
    <3> QED
        BY <1>2, <3>1, <3>2 DEF Coming
  <2>4. Same(y, y, {"shadow", "hash", "box", "shipped", "rep"})
      BY DEF Same
  <2> QED
      BY <1>5, <2>1, <2>3, <2>4 DEF GoneAhead, Unsent, q, ws
<1>6. CASE ws # {}
  <2>1. w0 \in ws /\ w0 \in Worlds /\ w0 \in D \ Scenes /\ w0 # u /\ w0 \in Tracked
      BY <1>4, <1>6, Parts DEF Tracked
  <2>2. ws = {w0} /\ Worlds = {w0}
      BY <1>4, <2>1, Parts
  <2> HIDE DEF w0
  <2>3. Shape(e) /\ Same(y, e, {"reg"}) /\ e.reg = y.reg \union ws
      BY <1>4, Parts, EnsureShape
  <2>4. w0 \in y.reg /\ scene[w0].alive
      BY <1>1, <1>2, <2>1 DEF Datablock, World, SceneOK
  <2> HIDE DEF e
  <2>5. /\ e.reg = y.reg /\ e.shipped = y.shipped /\ e.shadow = y.shadow /\ e.hash = y.hash /\ e.box = y.box /\ e.rep = y.rep
        /\ Same(y, e, {"shadow", "hash", "box", "shipped", "rep"}) /\ Seen(e, w0)
      BY <2>2, <2>3, <2>4 DEF Same, AllKeys, Seen
  <2>6. q = FlushT2(e, w0, left)
      BY <1>3, <1>6
  <2>7. /\ Shape(q) /\ Only(e, q, w0) /\ q.hash[w0] = Now(w0) /\ q.shadow[w0] = Now(w0)
        /\ \/ q.box[w0] = None /\ q.rep[w0] = Now(w0)
           \/ left # 0 /\ q.box[w0] # None /\ q.box[w0].val = Now(w0)
      BY <1>1, <1>2, <1>4, <1>6, <2>1, <2>3, <2>5, <2>6, FlushT2Shape
  <2>8. left = 0 => \A w \in ws : q.box[w] = None
      BY <2>2, <2>7
  <2>9. Same(y, q, {"shadow", "hash", "box", "shipped", "rep"})
      BY <2>5, <2>7 DEF Only, Same
  <2>10. \A d \in D \ {w0} : q.shadow[d] = y.shadow[d] /\ q.hash[d] = y.hash[d] /\ q.box[d] = y.box[d] /\ q.rep[d] = y.rep[d]
      BY <2>5, <2>7 DEF Only
  <2>11. Now(w0) # None /\ q.boot = None
      BY <1>1, <1>2, <2>1, <2>9, NowTyped DEF Same, AllKeys
  <2>12. \A w \in Worlds : Coming(q, w) # None
      BY <2>2, <2>7, <2>11 DEF Coming
  <2>13. \A d \in D : Unsent(y, q, d) \/ (d \in Worlds /\ scene[u].ptr /\ SentNow(q, d))
      BY <1>4, <1>6, <2>1, <2>7, <2>10 DEF Unsent, SentNow
  <2> QED
      BY <2>7, <2>8, <2>9, <2>12, <2>13 DEF GoneAhead, q, ws
<1> QED
    BY <1>5, <1>6

\* The delta leaves behind it, or is put back.
LEMMA DeltaSent ==
    ASSUME NEW y, NEW u, NEW was, NEW old, NEW ok \in BOOLEAN, NEW left
    PROVE  SendT1(y, u, was, old, ok, left)
           = IF ~ok \/ \E w \in Targets(y, u, was) : Ahead(y, u, was, left).box[w] # None
             THEN Refused(Ahead(y, u, was, left), u, old) ELSE Applied(Ahead(y, u, was, left), u, was)
BY DEF SendT1, Ahead

\* One delta: what it writes of its datablock, and what else it may touch.
Delta(z, u) ==
    /\ Same(x, z, Flushed) /\ z.dirty = x.dirty /\ z.todo[u] = 0 /\ \A d \in D \ {u} : z.todo[d] = x.todo[d]
    /\ z.shadow[u] = Now(u) /\ z.hash[u] = x.hash[u] /\ z.box[u] = x.box[u]
    /\ x.rep[u] = None => z.rep[u] = None
    /\ x.rep[u] # None =>
         /\ z.rep[u] # None /\ z.rep[u].heavy = x.rep[u].heavy
         /\ z.rep[u].light = IF x.shadow[u].light # scene[u].light THEN scene[u].light ELSE x.rep[u].light
         /\ z.rep[u].swept = IF x.shadow[u].swept # scene[u].swept THEN scene[u].swept ELSE x.rep[u].swept
         /\ z.rep[u].ptr = IF x.shadow[u].ptr # scene[u].ptr THEN scene[u].ptr ELSE x.rep[u].ptr
    /\ \A d \in D \ {u} : Unsent(x, z, d) \/ (d \in Worlds /\ scene[u].ptr /\ SentNow(z, d))
    /\ scene[u].ptr /\ ~x.shadow[u].ptr => \A w \in Worlds : Coming(z, w) # None

\* A delta that leaves is one.
LEMMA DeltaOutcome ==
    ASSUME Whole, x.pc = "flush", NEW u \in D, x.todo[u] # 0, x.shadow[u] # None,
           NEW y, Shape(y), Same(x, y, {"todo", "shadow"}), y.todo[u] = 0, y.shadow[u] = Now(u),
           \A d \in D \ {u} : y.todo[d] = x.todo[d] /\ y.shadow[d] = x.shadow[d], NEW left \in 0..Chunks
    PROVE  LET t == Applied(Ahead(y, u, x.shadow[u], left), u, x.shadow[u]) IN Shape(t) /\ Delta(t, u) /\ t.auto = x.auto
<1> DEFINE was == x.shadow[u]
           q == Ahead(y, u, was, left)
           t == Applied(q, u, was)
<1>1. SceneOK(scene) /\ Shape(x) /\ x.boot = None /\ Steady(x, scene, used.edit, u)
    BY ListFacts
<1>2. was \in Snapshot
    BY <1>1 DEF Shape, File
<1> HIDE DEF was
<1>0. GoneAhead(y, u, was, left, q)
    BY <1>2, TargetSent
<1>3. /\ Shape(q) /\ Same(y, q, {"shadow", "hash", "box", "shipped", "rep"})
      /\ \A d \in D : Unsent(y, q, d) \/ (d \in Worlds /\ scene[u].ptr /\ SentNow(q, d))
      /\ scene[u].ptr /\ ~was.ptr => \A w \in Worlds : Coming(q, w) # None
    BY <1>0 DEF GoneAhead
<1> HIDE DEF q
<1>4. /\ Shape(t) /\ Only(q, t, u) /\ t.shadow = q.shadow /\ t.hash = q.hash /\ t.box = q.box
      /\ q.rep[u] = None => t.rep[u] = None
      /\ q.rep[u] # None =>
           /\ t.rep[u] # None /\ t.rep[u].heavy = q.rep[u].heavy
           /\ t.rep[u].light = IF was.light # scene[u].light THEN scene[u].light ELSE q.rep[u].light
           /\ t.rep[u].swept = IF was.swept # scene[u].swept THEN scene[u].swept ELSE q.rep[u].swept
           /\ t.rep[u].ptr = IF was.ptr # scene[u].ptr THEN scene[u].ptr ELSE q.rep[u].ptr
    BY <1>1, <1>2, <1>3, AppliedShape
<1> HIDE DEF t
<1>5. /\ Same(x, t, Flushed) /\ t.dirty = x.dirty /\ t.todo = y.todo /\ t.auto = x.auto /\ t.boot = q.boot
  <2>1. Same(x, q, {"todo", "shadow", "hash", "box", "shipped", "rep"}) /\ q.todo = y.todo
      BY <1>3 DEF Same, AllKeys
  <2>2. Same(q, t, {"shadow", "hash", "box", "shipped", "rep"})
      BY <1>4 DEF Only
  <2>3. Same(x, t, {"todo", "shadow", "hash", "box", "shipped", "rep"}) /\ t.todo = y.todo /\ t.boot = q.boot
      BY <2>1, <2>2 DEF Same, AllKeys
  <2> QED
      BY <2>3 DEF Same, AllKeys, Flushed
<1>6. y.hash = x.hash /\ y.box = x.box /\ y.rep = x.rep
    BY DEF Same, AllKeys
<1>7. q.shadow[u] = Now(u) /\ q.hash[u] = x.hash[u] /\ q.box[u] = x.box[u] /\ q.rep[u] = x.rep[u]
  <2>1. ~(u \in Worlds /\ scene[u].ptr)
      BY <1>1, Parts DEF Steady
  <2>2. Unsent(y, q, u)
      BY <1>3, <2>1
  <2> QED
      BY <1>6, <2>2 DEF Unsent
<1>8. \A d \in D \ {u} : t.rep[d] = q.rep[d]
    BY <1>4 DEF Only
<1>9. ASSUME NEW d \in D \ {u} PROVE Unsent(x, t, d) \/ (d \in Worlds /\ scene[u].ptr /\ SentNow(t, d))
  <2>1. Unsent(y, q, d) => Unsent(x, t, d)
      BY <1>4, <1>6, <1>8 DEF Unsent
  <2>2. SentNow(q, d) => SentNow(t, d)
      BY <1>4, <1>8 DEF SentNow
  <2> QED
      BY <1>3, <2>1, <2>2
<1>10. ASSUME scene[u].ptr, ~was.ptr, NEW w \in Worlds PROVE Coming(t, w) # None
  <2>1. w \in D \ {u}
      BY <1>1, <1>10, Parts DEF Steady
  <2>2. Coming(t, w) = Coming(q, w)
      BY <1>4, <1>5, <1>8, <2>1 DEF Coming
  <2> QED
      BY <1>3, <1>10, <2>2
<1>11. /\ x.rep[u] = None => t.rep[u] = None
       /\ x.rep[u] # None =>
         /\ t.rep[u] # None /\ t.rep[u].heavy = x.rep[u].heavy
         /\ t.rep[u].light = IF was.light # scene[u].light THEN scene[u].light ELSE x.rep[u].light
         /\ t.rep[u].swept = IF was.swept # scene[u].swept THEN scene[u].swept ELSE x.rep[u].swept
         /\ t.rep[u].ptr = IF was.ptr # scene[u].ptr THEN scene[u].ptr ELSE x.rep[u].ptr
    BY <1>4, <1>7
<1>12. Delta(t, u)
    BY <1>4, <1>5, <1>7, <1>9, <1>10, <1>11 DEF Delta, was
<1> QED
    BY <1>4, <1>5, <1>12 DEF q, t, was

\* A world that went ahead of a delta, or did not.
LEMMA TargetSettles ==
    ASSUME Whole, x.pc = "flush", NEW u \in D, x.todo[u] # 0, NEW z, Same(x, z, Flushed),
           \A d \in D \ {u} : z.todo[d] = x.todo[d] /\ z.dirty[d] = x.dirty[d],
           NEW w \in Worlds \ {u}, Unsent(x, z, w) \/ (scene[u].ptr /\ SentNow(z, w))
    PROVE  Steady(z, scene, used.edit, w) /\ Datablock(z, scene, w) /\ (Coming(x, w) # None => Coming(z, w) # None)
<1>1. /\ SceneOK(scene) /\ Shape(x) /\ used.edit \in Nat /\ x.boot = None
      /\ Steady(x, scene, used.edit, u) /\ \A d \in D : Steady(x, scene, used.edit, d) /\ Datablock(x, scene, d)
    BY ListFacts
<1>2. /\ z.reg = x.reg /\ z.known = x.known /\ z.vis = x.vis /\ z.prime = x.prime /\ z.boot = None /\ z.recent = x.recent
    BY <1>1 DEF Same, AllKeys, Flushed
<1>3. /\ w \in D \ {u} /\ w \in Tracked /\ w \notin Scenes /\ scene[w].alive
      /\ Steady(x, scene, used.edit, w) /\ Datablock(x, scene, w) /\ World(x, scene, w)
  <2>1. w \in D \ {u} /\ w \in Tracked /\ w \notin Scenes
      BY Parts DEF Tracked
  <2> QED
      BY <1>1, <2>1 DEF SceneOK, Datablock
<1>4. z.todo[w] = x.todo[w] /\ z.dirty[w] = x.dirty[w]
    BY <1>3
<1>5. CASE Unsent(x, z, w)
  <2>1. Locals(x, z, w)
      BY <1>1, <1>2, <1>4, <1>5, ComingSame DEF Locals, Unsent
  <2> QED
      BY <1>1, <1>3, <2>1, Undisturbed, SteadyUndisturbed DEF Locals
<1>6. CASE scene[u].ptr /\ SentNow(z, w)
  <2>1. /\ z.shadow[w] = Now(w) /\ z.hash[w] = Now(w)
        /\ (z.box[w] = None /\ z.rep[w] = Now(w)) \/ (z.box[w] # None /\ z.box[w].val = Now(w))
      BY <1>6 DEF SentNow
  <2>2. Coming(z, w) = Now(w) /\ Now(w) # None
      BY <1>1, <1>2, <1>3, <2>1, NowTyped DEF Coming
  <2>3. Arrives(z, scene, w)
      BY <1>1, <1>3, <2>2, NowTyped DEF Arrives
  <2>4. Live(z, scene, w)
      BY <1>1, <1>2, <1>3, <2>1, <2>3, SettledLive DEF World
  <2>5. w \in x.reg /\ w \in z.reg
      BY <1>2, <1>3 DEF World
  <2>6. Steady(z, scene, used.edit, w)
      BY <1>1, <1>2, <1>3, <1>4, <2>1, <2>5, SettledSteady
  <2>7. scene[w].used
      BY <1>1, <1>3, <1>6, Parts DEF SceneOK, Steady
  <2>8. World(z, scene, w)
      BY <1>2, <1>3, <1>4, <2>7 DEF World
  <2> QED
      BY <1>3, <2>2, <2>4, <2>6, <2>8 DEF Datablock
<1> QED
    BY <1>5, <1>6

\* A delta writes what has changed since the shadow; what has not was right before.
LEMMA DeltaSettles ==
    ASSUME Whole, x.pc = "flush", NEW u \in D, x.todo[u] = 1, scene[u].alive, x.shadow[u] # None, x.box[u] = None,
           NEW z, Delta(z, u), x.auto => z.auto, x.shadow[u].heavy = scene[u].heavy \/ (u \in Scenes /\ z.auto)
    PROVE  Accounted(z, scene, used.edit)
<1> DEFINE was == x.shadow[u]
<1>1. /\ SceneOK(scene) /\ Shape(x) /\ used.edit \in Nat /\ x.boot = None /\ Named(x, scene)
      /\ Steady(x, scene, used.edit, u) /\ Datablock(x, scene, u)
      /\ x.box[u] = None /\ Coming(x, u) = x.rep[u] /\ u \in x.known /\ u \in x.reg
      /\ \A d \in D : Steady(x, scene, used.edit, d) /\ Datablock(x, scene, d)
    BY ListFacts
<1>2. was \in Snapshot /\ u \in Tracked
  <2>1. was \in Snapshot
      BY <1>1 DEF Shape, File
  <2>2. u \notin Meshes
      BY <1>1 DEF Steady
  <2> QED
      BY <2>1, <2>2 DEF Tracked
<1>3. \A d \in D \ {u} : Unsent(x, z, d) \/ (d \in Worlds /\ scene[u].ptr /\ SentNow(z, d))
    BY DEF Delta
<1>4. /\ x.rep[u] = None => z.rep[u] = None
      /\ x.rep[u] # None =>
           /\ z.rep[u] # None /\ z.rep[u].heavy = x.rep[u].heavy
           /\ z.rep[u].light = IF was.light # scene[u].light THEN scene[u].light ELSE x.rep[u].light
           /\ z.rep[u].swept = IF was.swept # scene[u].swept THEN scene[u].swept ELSE x.rep[u].swept
           /\ z.rep[u].ptr = IF was.ptr # scene[u].ptr THEN scene[u].ptr ELSE x.rep[u].ptr
    BY DEF Delta
<1>5. scene[u].ptr /\ ~was.ptr => \A w \in Worlds : Coming(z, w) # None
    BY DEF Delta
<1>6. Same(x, z, Flushed) /\ z.dirty = x.dirty /\ z.todo[u] = 0 /\ \A d \in D \ {u} : z.todo[d] = x.todo[d]
    BY DEF Delta
<1>7. /\ z.reg = x.reg /\ z.known = x.known /\ z.vis = x.vis /\ z.prime = x.prime /\ z.boot = None /\ z.recent = x.recent
    BY <1>1, <1>6 DEF Same, AllKeys, Flushed
<1>9. z.shadow[u] = Now(u) /\ z.hash[u] = x.hash[u] /\ z.box[u] = None
    BY <1>1 DEF Delta
<1>10. Coming(z, u) = z.rep[u]
    BY <1>7, <1>9 DEF Coming
<1>11. Live(x, scene, u) /\ Baseline(x, scene, u)
    BY <1>1 DEF Datablock, Live
<1>12. x.rep[u] # None => Arrives(z, scene, u)
  <2> SUFFICES ASSUME x.rep[u] # None PROVE Arrives(z, scene, u)
      OBVIOUS
  <2>1. /\ was.light = scene[u].light => x.rep[u].light = scene[u].light
        /\ was.swept = scene[u].swept => x.rep[u].swept = scene[u].swept
        /\ was.ptr = scene[u].ptr => x.rep[u].ptr = scene[u].ptr
        /\ was.heavy = scene[u].heavy => x.rep[u].heavy = scene[u].heavy \/ (u \in Scenes /\ x.auto)
      BY <1>1, <1>2, <1>11 DEF Baseline
  <2>2. /\ z.rep[u] # None /\ z.rep[u].heavy = x.rep[u].heavy
        /\ z.rep[u].light = scene[u].light /\ z.rep[u].swept = scene[u].swept /\ z.rep[u].ptr = scene[u].ptr
      BY <1>4, <2>1
  <2>3. z.rep[u].heavy = scene[u].heavy \/ (u \in Scenes /\ z.auto)
      BY <2>1, <2>2
  <2> QED
      BY <1>10, <2>2, <2>3 DEF Arrives
<1>13. Live(z, scene, u)
  <2>1. CASE x.rep[u] # None
      BY <1>1, <1>7, <1>9, <1>12, <2>1, SettledLive
  <2>2. CASE x.rep[u] = None
    <3>1. u \in Worlds /\ Coming(z, u) = None
        BY <1>1, <1>2, <1>4, <1>7, <1>9, <1>10, <1>11, <2>2 DEF Baseline
    <3>2. z.hash[u] # BuildSnapshot(scene, u)
        BY <1>1, <1>7, <1>9, <1>11, <2>2 DEF Live
    <3>3. Baseline(z, scene, u)
        BY <3>1 DEF Baseline
    <3> QED
        BY <1>1, <1>7, <1>9, <3>1, <3>2, <3>3 DEF Live
  <2> QED
      BY <2>1, <2>2
<1>14. Steady(z, scene, used.edit, u)
    BY <1>1, <1>6, <1>7, <1>9, SettledSteady
<1>15. Datablock(z, scene, u)
  <2>1. Now(u) # None
      BY <1>1, NowTyped
  <2>2. u \in Worlds => World(z, scene, u)
      BY <1>1, <1>6, <1>7, <1>9, <2>1 DEF Datablock, World
  <2>3. u \in Scenes => SceneBlock(z, scene, u)
    <3> SUFFICES ASSUME u \in Scenes PROVE SceneBlock(z, scene, u)
        OBVIOUS
    <3>1. SceneBlock(x, scene, u) /\ u \notin Worlds
        BY <1>1, Parts DEF Datablock
    <3>2. x.rep[u] # None
        BY <1>1, <1>2, <1>11, <3>1 DEF Baseline
    <3>3. Coming(z, u).heavy = Coming(x, u).heavy
        BY <1>1, <1>4, <1>7, <1>9, <1>10, <3>2
    <3> QED
        BY <1>6, <1>7, <1>9, <2>1, <3>1, <3>3 DEF SceneBlock
  <2> QED
      BY <1>13, <2>2, <2>3 DEF Datablock
<1>16. \A w \in Worlds \ {u} : Steady(z, scene, used.edit, w) /\ Datablock(z, scene, w) /\ (Coming(x, w) # None => Coming(z, w) # None)
  <2>1. x.todo[u] # 0 /\ \A w \in Worlds \ {u} : Unsent(x, z, w) \/ (scene[u].ptr /\ SentNow(z, w))
      BY <1>3, Parts
  <2> QED
      BY <1>6, <2>1, TargetSettles
<1>17. Named(z, scene)
  <2> SUFFICES ASSUME NEW w \in Worlds, scene[w].used, Coming(z, w) = None
               PROVE  \E d \in Scenes : scene[d].ptr /\ ~z.shadow[d].ptr /\ (z.dirty[d] # 0 \/ z.todo[d] # 0)
      BY DEF Named
  <2>1. Coming(x, w) = None
    <3>1. CASE w # u
        BY <1>16, <3>1
    <3>2. CASE w = u
        BY <1>1, <1>12, <3>2 DEF Arrives
    <3> QED
        BY <3>1, <3>2
  <2>2. PICK d \in Scenes : scene[d].ptr /\ ~x.shadow[d].ptr /\ (x.dirty[d] # 0 \/ x.todo[d] # 0)
      BY <1>1, <2>1 DEF Named
  <2>3. d # u
      BY <1>5, <2>2
  <2>4. d \in D \ {u} /\ d \notin Worlds
      BY <2>3, Parts
  <2>5. z.shadow[d] = x.shadow[d] /\ z.todo[d] = x.todo[d] /\ z.dirty[d] = x.dirty[d]
      BY <1>3, <1>6, <2>4 DEF Unsent
  <2> QED
      BY <2>2, <2>5
<1>18. Accounted(z, scene, used.edit)
  <2> DEFINE touched == {u} \union Worlds
  <2>1. touched \in SUBSET D /\ \A d \in touched : Steady(z, scene, used.edit, d) /\ Datablock(z, scene, d)
      BY <1>14, <1>15, <1>16, Parts
  <2>2. \A d \in D \ touched : /\ z.todo[d] = x.todo[d] /\ z.dirty[d] = x.dirty[d] /\ z.shadow[d] = x.shadow[d]
                               /\ z.hash[d] = x.hash[d] /\ z.box[d] = x.box[d] /\ z.rep[d] = x.rep[d]
      BY <1>3, <1>6 DEF Unsent
  <2>3. x.todo[u] # 0
      OBVIOUS
  <2> HIDE DEF touched
  <2> QED
      BY <1>6, <1>17, <2>1, <2>2, <2>3, FlushFrame
<1> QED
    BY <1>18

\* A refused delta is as if nothing had been taken from the list, but for what went ahead of it.
LEMMA RefusedSettles ==
    ASSUME Whole, x.pc = "flush", NEW u \in D, x.todo[u] = 1, scene[u].alive, x.shadow[u] # None, x.box[u] = None,
           NEW y, Shape(y), Same(x, y, {"todo", "shadow"}), y.todo[u] = 0, y.shadow[u] = Now(u),
           \A d \in D \ {u} : y.todo[d] = x.todo[d] /\ y.shadow[d] = x.shadow[d],
           NEW q, Shape(q), Same(y, q, {"shadow", "hash", "box", "shipped", "rep"}),
           \A d \in D : Unsent(y, q, d) \/ (d \in Worlds /\ scene[u].ptr /\ SentNow(q, d))
    PROVE  LET z == Refused(q, u, x.shadow[u]) IN Shape(z) /\ Accounted(z, scene, used.edit)
<1> DEFINE was == x.shadow[u]
           z == Refused(q, u, was)
<1>1. /\ SceneOK(scene) /\ Shape(x) /\ used.edit \in Nat /\ x.boot = None /\ Named(x, scene)
      /\ Steady(x, scene, used.edit, u) /\ Datablock(x, scene, u) /\ u \in x.known /\ u \in x.reg
    BY ListFacts
<1>2. was \in Snapshot
    BY <1>1 DEF Shape, File
<1>3. /\ Shape(z) /\ Same(q, z, {"dirty", "shadow"}) /\ z.dirty[u] = Ratchet(q.dirty[u], 1) /\ z.shadow[u] = was
      /\ \A d \in D \ {u} : z.dirty[d] = q.dirty[d] /\ z.shadow[d] = q.shadow[d]
    BY <1>2, RefusedShape
<1> HIDE DEF z, was
<1>4. /\ Same(x, z, Flushed) /\ z.reg = x.reg /\ z.known = x.known /\ z.vis = x.vis /\ z.prime = x.prime /\ z.boot = None
      /\ z.recent = x.recent /\ z.auto = x.auto /\ z.todo = y.todo /\ q.dirty = x.dirty
      /\ z.hash = q.hash /\ z.box = q.box /\ z.rep = q.rep /\ y.hash = x.hash /\ y.box = x.box /\ y.rep = x.rep
    BY <1>1, <1>3 DEF Same, AllKeys, Flushed
<1>5. z.hash[u] = x.hash[u] /\ z.box[u] = x.box[u] /\ z.rep[u] = x.rep[u]
  <2>1. ~(u \in Worlds /\ scene[u].ptr)
      BY <1>1, Parts DEF Steady
  <2>2. Unsent(y, q, u)
      BY <2>1
  <2> QED
      BY <1>4, <2>2 DEF Unsent
<1>6. ASSUME NEW d \in D \ {u} PROVE Unsent(x, z, d) \/ (d \in Worlds /\ scene[u].ptr /\ SentNow(z, d))
  <2>1. Unsent(y, q, d) => Unsent(x, z, d)
      BY <1>3, <1>4 DEF Unsent
  <2>2. SentNow(q, d) => SentNow(z, d)
      BY <1>3, <1>4 DEF SentNow
  <2> QED
      BY <2>1, <2>2
<1>7. \A d \in D \ {u} : z.todo[d] = x.todo[d] /\ z.dirty[d] = x.dirty[d]
    BY <1>3, <1>4
<1>8. z.dirty[u] = Ratchet(x.dirty[u], 1) /\ z.todo[u] = 0 /\ x.dirty[u] \in {0, 1, 2} /\ z.dirty[u] # 0
      /\ (x.dirty[u] # 2 => z.dirty[u] = 1) /\ z.dirty[u] # Tomb
    BY <1>1, <1>3, <1>4, RatchetTier DEF Shape, Steady, Tiers, Tomb, Ratchet
<1>9. Coming(z, u) = Coming(x, u)
    BY <1>1, <1>4, <1>5, ComingSame
<1>10. Steady(z, scene, used.edit, u)
    BY <1>1, <1>3, <1>4, <1>5, <1>8 DEF Steady, was
<1>11. Live(z, scene, u)
  <2>1. Live(x, scene, u)
      BY <1>1 DEF Datablock
  <2>2. Baseline(z, scene, u)
      BY <1>3, <1>4, <1>9, <2>1 DEF Live, Baseline, was
  <2>3. /\ Arrives(x, scene, u) => Arrives(z, scene, u)
        /\ ByDelta(x, scene, u) => ByDelta(z, scene, u)
      BY <1>3, <1>4, <1>8, <1>9 DEF Arrives, ByDelta, was
  <2>4. Marked(z, scene, u)
      BY <1>8 DEF Marked
  <2> QED
      BY <1>1, <1>4, <1>5, <1>9, <2>1, <2>2, <2>3, <2>4 DEF Live
<1>12. u \in Worlds => World(z, scene, u)
    BY <1>1, <1>3, <1>4, <1>8, <1>9 DEF Datablock, World, was
<1>13. u \in Scenes => SceneBlock(z, scene, u)
    BY <1>1, <1>3, <1>4, <1>5, <1>8, <1>9 DEF Datablock, SceneBlock, was
<1>14. Datablock(z, scene, u)
    BY <1>11, <1>12, <1>13 DEF Datablock
<1>15. \A w \in Worlds \ {u} : Steady(z, scene, used.edit, w) /\ Datablock(z, scene, w) /\ (Coming(x, w) # None => Coming(z, w) # None)
  <2>1. x.todo[u] # 0 /\ \A w \in Worlds \ {u} : Unsent(x, z, w) \/ (scene[u].ptr /\ SentNow(z, w))
      BY <1>6, Parts
  <2> QED
      BY <1>4, <1>7, <2>1, TargetSettles
<1>16. Named(z, scene)
  <2> SUFFICES ASSUME NEW w \in Worlds, scene[w].used, Coming(z, w) = None
               PROVE  \E d \in Scenes : scene[d].ptr /\ ~z.shadow[d].ptr /\ (z.dirty[d] # 0 \/ z.todo[d] # 0)
      BY DEF Named
  <2>1. Coming(x, w) = None
      BY <1>9, <1>15
  <2>2. PICK d \in Scenes : scene[d].ptr /\ ~x.shadow[d].ptr /\ (x.dirty[d] # 0 \/ x.todo[d] # 0)
      BY <1>1, <2>1 DEF Named
  <2>3. CASE d = u
      BY <1>3, <1>8, <2>2, <2>3 DEF was
  <2>4. CASE d # u
    <3>1. d \in D \ {u} /\ d \notin Worlds
        BY <2>4, Parts
    <3> QED
        BY <1>6, <1>7, <2>2, <3>1 DEF Unsent
  <2> QED
      BY <2>3, <2>4
<1>17. Accounted(z, scene, used.edit)
  <2> DEFINE touched == {u} \union Worlds
  <2>1. touched \in SUBSET D /\ \A d \in touched : Steady(z, scene, used.edit, d) /\ Datablock(z, scene, d)
      BY <1>10, <1>14, <1>15, Parts
  <2>2. \A d \in D \ touched : /\ z.todo[d] = x.todo[d] /\ z.dirty[d] = x.dirty[d] /\ z.shadow[d] = x.shadow[d]
                               /\ z.hash[d] = x.hash[d] /\ z.box[d] = x.box[d] /\ z.rep[d] = x.rep[d]
      BY <1>6, <1>7 DEF Unsent
  <2>3. x.todo[u] # 0
      OBVIOUS
  <2> HIDE DEF touched
  <2> QED
      BY <1>4, <1>16, <2>1, <2>2, <2>3, FlushFrame
<1> QED
    BY <1>3, <1>17 DEF z, was

\* A delta leaves or, put back with its shadow, has changed nothing.
LEMMA SendOutcome ==
    ASSUME Whole, x.pc = "flush", NEW u \in D, x.todo[u] = 1, scene[u].alive, x.shadow[u] # None, x.box[u] = None,
           NEW y, Shape(y), Same(x, y, {"todo", "shadow"}), y.todo[u] = 0, y.shadow[u] = Now(u),
           \A d \in D \ {u} : y.todo[d] = x.todo[d] /\ y.shadow[d] = x.shadow[d],
           NEW ok \in BOOLEAN, NEW left \in 0..Chunks
    PROVE  LET t == SendT1(y, u, x.shadow[u], x.shadow[u], ok, left) IN
           Shape(t) /\ ((Delta(t, u) /\ t.auto = x.auto) \/ Accounted(t, scene, used.edit))
<1> DEFINE was == x.shadow[u]
           q == Ahead(y, u, was, left)
           c == Applied(q, u, was)
           t == SendT1(y, u, was, was, ok, left)
<1>1. was \in Snapshot /\ x.todo[u] # 0
    BY ListFacts DEF Shape, File
<1>2. Shape(c) /\ Delta(c, u) /\ c.auto = x.auto
    BY <1>1, DeltaOutcome
<1> HIDE DEF was
<1>3. /\ Shape(q) /\ Same(y, q, {"shadow", "hash", "box", "shipped", "rep"})
      /\ \A d \in D : Unsent(y, q, d) \/ (d \in Worlds /\ scene[u].ptr /\ SentNow(q, d))
  <2>1. GoneAhead(y, u, was, left, q)
      BY <1>1, TargetSent
  <2> HIDE DEF q
  <2> QED
      BY <2>1 DEF GoneAhead
<1>6. t = IF ~ok \/ \E w \in Targets(y, u, was) : q.box[w] # None THEN Refused(q, u, was) ELSE c
    BY DeltaSent
<1> HIDE DEF q, t, c
<1>4. CASE t = c
    BY <1>2, <1>4 DEF t, was
<1>5. CASE t # c
  <2>1. t = Refused(q, u, was)
      BY <1>5, <1>6
  <2>2. Shape(Refused(q, u, was)) /\ Accounted(Refused(q, u, was), scene, used.edit)
      BY <1>3, RefusedSettles DEF was
  <2> QED
      BY <2>1, <2>2 DEF t, was
<1> QED
    BY <1>4, <1>5

\* Nothing holds back the delta beside an escalation.
LEMMA EscalationOutcome ==
    ASSUME Whole, x.pc = "flush", NEW u \in D, x.todo[u] # 0, x.shadow[u] # None,
           NEW y, Shape(y), Same(x, y, {"todo", "shadow"}), y.todo[u] = 0, y.shadow[u] = Now(u),
           \A d \in D \ {u} : y.todo[d] = x.todo[d] /\ y.shadow[d] = x.shadow[d]
    PROVE  LET t == SendT1(y, u, x.shadow[u], None, TRUE, 0) IN Shape(t) /\ Delta(t, u) /\ t.auto = x.auto
<1> DEFINE was == x.shadow[u]
           q == Ahead(y, u, was, 0)
           c == Applied(q, u, was)
           t == SendT1(y, u, was, None, TRUE, 0)
<1>1. was \in Snapshot /\ 0 \in 0..Chunks
    BY ListFacts, FlushAssumption DEF Shape, File, FlushAssumption
<1>2. Shape(c) /\ Delta(c, u) /\ c.auto = x.auto
    BY <1>1, DeltaOutcome
<1> HIDE DEF was
<1>3. GoneAhead(y, u, was, 0, q)
    BY <1>1, TargetSent
<1>4. \A w \in Targets(y, u, was) : q.box[w] = None
    BY <1>3 DEF GoneAhead
<1>5. t = IF \E w \in Targets(y, u, was) : q.box[w] # None THEN Refused(q, u, None) ELSE c
    BY DEF SendT1, Ahead
<1> HIDE DEF q, c, t
<1> QED
    BY <1>2, <1>4, <1>5 DEF t, was

\* Nothing of the datablock is sent: it is gone, put off, without users, or as it was.
LEMMA NothingSent ==
    ASSUME Whole, x.pc = "flush", NEW u \in D, x.todo[u] # 0, NEW z, Same(x, z, {"todo", "budget", "touch", "dirty", "shadow"}),
           \A d \in D \ {u} : z.todo[d] = x.todo[d] /\ z.dirty[d] = x.dirty[d] /\ z.shadow[d] = x.shadow[d],
           Steady(z, scene, used.edit, u), Datablock(z, scene, u),
           u \in Scenes /\ scene[u].ptr /\ ~x.shadow[u].ptr => ~z.shadow[u].ptr /\ z.dirty[u] # 0
    PROVE  Accounted(z, scene, used.edit)
<1>1. /\ z.hash = x.hash /\ z.box = x.box /\ z.rep = x.rep /\ z.boot = x.boot /\ z.auto = x.auto /\ Same(x, z, Flushed)
    BY DEF Same, AllKeys, Flushed
<1>2. \A d \in D : Coming(z, d) = Coming(x, d)
    BY <1>1 DEF Coming
<1>3. Named(x, scene)
    BY ListFacts
<1>4. Named(z, scene)
  <2> SUFFICES ASSUME NEW w \in Worlds, scene[w].used, Coming(z, w) = None
               PROVE  \E d \in Scenes : scene[d].ptr /\ ~z.shadow[d].ptr /\ (z.dirty[d] # 0 \/ z.todo[d] # 0)
      BY DEF Named
  <2>1. PICK d \in Scenes : scene[d].ptr /\ ~x.shadow[d].ptr /\ (x.dirty[d] # 0 \/ x.todo[d] # 0)
      BY <1>2, <1>3, Parts DEF Named
  <2>2. d \in D
      BY Parts
  <2>3. CASE d = u
      BY <2>1, <2>3
  <2>4. CASE d # u
      BY <2>1, <2>2, <2>4
  <2> QED
      BY <2>3, <2>4
<1>5. {u} \in SUBSET D /\ \A d \in {u} : Steady(z, scene, used.edit, d) /\ Datablock(z, scene, d)
    OBVIOUS
<1>6. \A d \in D \ {u} : /\ z.todo[d] = x.todo[d] /\ z.dirty[d] = x.dirty[d] /\ z.shadow[d] = x.shadow[d]
                         /\ z.hash[d] = x.hash[d] /\ z.box[d] = x.box[d] /\ z.rep[d] = x.rep[d]
    BY <1>1
<1> QED
    BY <1>1, <1>4, <1>5, <1>6, FlushFrame

\* A datablock that is gone when its turn comes: the sweep has it still to find.
LEMMA GoneSettles ==
    ASSUME Whole, x.pc = "flush", NEW u \in D, x.todo[u] # 0, ~scene[u].alive, NEW z, Same(x, z, {"todo", "budget"}),
           z.todo[u] = 0, \A d \in D \ {u} : z.todo[d] = x.todo[d]
    PROVE  Accounted(z, scene, used.edit)
<1>1. SceneOK(scene) /\ Steady(x, scene, used.edit, u) /\ Datablock(x, scene, u)
    BY ListFacts
<1>2. /\ Same(x, z, {"todo", "budget", "touch", "dirty", "shadow"})
      /\ z.reg = x.reg /\ z.known = x.known /\ z.vis = x.vis /\ z.shadow = x.shadow /\ z.hash = x.hash /\ z.box = x.box /\ z.rep = x.rep
      /\ z.boot = x.boot /\ z.dirty = x.dirty
    BY DEF Same, AllKeys
<1>3. Coming(z, u) = Coming(x, u) /\ u \notin Worlds \union Scenes
    BY <1>1, <1>2 DEF Coming, SceneOK
<1>4. Steady(z, scene, used.edit, u)
    BY <1>1, <1>2 DEF Steady
<1>5. Datablock(z, scene, u)
    BY <1>1, <1>2, <1>3 DEF Datablock, Gone
<1> QED
    BY <1>2, <1>3, <1>4, <1>5, NothingSent

\* Blobs beyond the tick's budget stay marked.
LEMMA WaitSettles ==
    ASSUME Whole, x.pc = "flush", NEW u \in D, x.todo[u] = 2, NEW z, Same(x, z, {"todo", "touch", "dirty"}),
           z.todo[u] = 0, z.dirty[u] = Ratchet(x.dirty[u], 2), \A d \in D \ {u} : z.todo[d] = x.todo[d] /\ z.dirty[d] = x.dirty[d]
    PROVE  Accounted(z, scene, used.edit)
<1>1. /\ SceneOK(scene) /\ Shape(x) /\ Steady(x, scene, used.edit, u) /\ Datablock(x, scene, u) /\ u \in x.reg /\ u \in x.known
      /\ x.box[u] = None
    BY ListFacts DEF Datablock, World
<1>2. /\ Same(x, z, {"todo", "budget", "touch", "dirty", "shadow"})
      /\ z.reg = x.reg /\ z.known = x.known /\ z.vis = x.vis /\ z.shadow = x.shadow /\ z.hash = x.hash /\ z.box = x.box /\ z.rep = x.rep
      /\ z.boot = x.boot /\ z.auto = x.auto
    BY DEF Same, AllKeys
<1>3. Coming(z, u) = Coming(x, u) /\ u \notin Worlds \union Scenes
    BY <1>1, <1>2 DEF Coming, Datablock, World, SceneBlock
<1>4. z.dirty[u] = 2
    BY <1>1, RatchetTier DEF Shape, Steady
<1>5. Steady(z, scene, used.edit, u)
    BY <1>1, <1>2, <1>4 DEF Steady, Tomb
<1>6. ASSUME scene[u].alive PROVE Live(z, scene, u)
  <2>1. Live(x, scene, u) /\ ~ByDelta(x, scene, u)
      BY <1>1, <1>6 DEF Datablock, ByDelta
  <2>2. Baseline(z, scene, u)
      BY <1>2, <1>3, <2>1 DEF Live, Baseline
  <2>3. Arrives(x, scene, u) => Arrives(z, scene, u)
      BY <1>2, <1>3 DEF Arrives
  <2>4. Marked(z, scene, u)
      BY <1>4 DEF Marked
  <2> QED
      BY <1>1, <1>2, <1>3, <2>1, <2>2, <2>3, <2>4 DEF Live
<1>7. Gone(x, u) => Gone(z, u)
    BY <1>1, <1>2, <1>3 DEF Gone
<1>8. Datablock(z, scene, u)
    BY <1>1, <1>3, <1>6, <1>7 DEF Datablock
<1> QED
    BY <1>2, <1>3, <1>5, <1>8, NothingSent

\* A snapshot and nothing more: a world without users, or nothing has changed since the last.
LEMMA SnapSettles ==
    ASSUME Whole, x.pc = "flush", NEW u \in D, x.todo[u] = 1, scene[u].alive, NEW z, Same(x, z, {"todo", "shadow"}),
           z.todo[u] = 0, z.shadow[u] = Now(u), \A d \in D \ {u} : z.todo[d] = x.todo[d] /\ z.shadow[d] = x.shadow[d],
           x.shadow[u] = Now(u) \/ (x.shadow[u] = None /\ ~scene[u].used)
    PROVE  Accounted(z, scene, used.edit)
<1>1. /\ SceneOK(scene) /\ used.edit \in Nat /\ Steady(x, scene, used.edit, u) /\ Datablock(x, scene, u) /\ u \in x.reg /\ u \in x.known
    BY ListFacts
<1>2. /\ Same(x, z, {"todo", "budget", "touch", "dirty", "shadow"})
      /\ z.reg = x.reg /\ z.known = x.known /\ z.vis = x.vis /\ z.dirty = x.dirty /\ z.hash = x.hash /\ z.box = x.box /\ z.rep = x.rep
      /\ z.boot = x.boot /\ z.auto = x.auto /\ z.prime = x.prime /\ z.recent = x.recent
    BY DEF Same, AllKeys
<1>3. Coming(z, u) = Coming(x, u) /\ u \notin Meshes
    BY <1>1, <1>2 DEF Coming, Steady
<1>4. u \in Tracked /\ Live(x, scene, u) /\ Now(u) # None /\ Now(u) = BuildSnapshot(scene, u)
    BY <1>1, <1>3, NowTyped DEF Tracked, Datablock, Now
<1>5. /\ Now(u).light = scene[u].light /\ Now(u).heavy = scene[u].heavy /\ Now(u).swept = scene[u].swept /\ Now(u).ptr = scene[u].ptr
    BY <1>1, NowTyped
<1>6. Steady(z, scene, used.edit, u)
    BY <1>1, <1>2, SettledSteady
<1>7. Live(z, scene, u)
  <2>1. CASE Coming(x, u) # None
    <3>1. x.shadow[u] = Now(u)
      <4>1. ASSUME x.shadow[u] = None, ~scene[u].used PROVE FALSE
        <5>1. u \in Worlds /\ World(x, scene, u)
            BY <1>1, <4>1 DEF Steady, Datablock
        <5> QED
            BY <2>1, <4>1, <5>1 DEF World
      <4> QED
          BY <4>1
    <3>2. Arrives(z, scene, u)
        BY <1>2, <1>3, <1>4, <1>5, <2>1, <3>1 DEF Live, Baseline, Arrives
    <3> QED
        BY <1>1, <1>2, <3>2, SettledLive
  <2>2. CASE Coming(x, u) = None
    <3>1. u \in Worlds
      <4>1. CASE x.shadow[u] = Now(u)
          BY <1>4, <2>2, <4>1 DEF Live, Baseline
      <4>2. CASE ~scene[u].used
          BY <1>1, <4>2 DEF Steady
      <4> QED
          BY <4>1, <4>2
    <3>2. z.hash[u] # BuildSnapshot(scene, u)
        BY <1>2, <1>4, <2>2 DEF Live
    <3>3. Baseline(z, scene, u)
        BY <1>3, <2>2, <3>1 DEF Baseline
    <3> QED
        BY <1>1, <1>2, <1>3, <1>4, <1>5, <2>2, <3>1, <3>2, <3>3 DEF Live
  <2> QED
      BY <2>1, <2>2
<1>8. u \in Worlds => World(z, scene, u)
    BY <1>1, <1>2, <1>4 DEF Datablock, World
<1>9. u \in Scenes => SceneBlock(z, scene, u)
    BY <1>1, <1>2, <1>3, <1>4 DEF Datablock, SceneBlock
<1>10. Datablock(z, scene, u)
    BY <1>7, <1>8, <1>9 DEF Datablock
<1>11. ~(u \in Scenes /\ scene[u].ptr /\ ~x.shadow[u].ptr)
    BY <1>1, <1>5 DEF Datablock, SceneBlock
<1> QED
    BY <1>2, <1>6, <1>10, <1>11, NothingSent

\* _flush_t1.
LEMMA PathsSettle ==
    ASSUME Whole, x.pc = "flush", NEW u \in D, x.todo[u] = 1, NEW ok \in BOOLEAN, NEW left \in 0..Chunks,
           Escalates(u) => ok /\ left = 0,
           NEW y, Shape(y), Same(x, y, {"todo"}), y.todo[u] = 0, \A d \in D \ {u} : y.todo[d] = x.todo[d]
    PROVE  LET z == FlushT1(y, u, ok, left) IN Shape(z) /\ Accounted(z, scene, used.edit)
<1> DEFINE was == x.shadow[u]
           t == [y EXCEPT !.shadow[u] = Now(u)]
           z == FlushT1(y, u, ok, left)
           a == SendT1(t, u, was, None, ok, left)
           b == SendT1(t, u, was, was, ok, left)
<1>1. /\ SceneOK(scene) /\ Shape(x) /\ u \in x.reg /\ Steady(x, scene, used.edit, u) /\ Datablock(x, scene, u)
    BY ListFacts
<1>2. y.shadow = x.shadow /\ y.reg = x.reg
    BY DEF Same, AllKeys
<1>3. Now(u) \in Snapshot /\ Now(u).heavy = scene[u].heavy
    BY <1>1, NowTyped
<1>4. /\ Shape(t) /\ Only(y, t, u) /\ t.shadow[u] = Now(u)
      /\ t.hash = y.hash /\ t.box = y.box /\ t.rep = y.rep /\ t.shipped = y.shipped
    BY <1>3, SnapShape
<1>5. CASE ~scene[u].alive
  <2>1. z = y
      BY <1>5 DEF FlushT1, Seen
  <2>2. Same(x, y, {"todo", "budget"})
      BY DEF Same
  <2>3. x.todo[u] # 0
      OBVIOUS
  <2>4. Accounted(y, scene, used.edit)
      BY <1>5, <2>2, <2>3, GoneSettles
  <2> QED
      BY <2>1, <2>4
<1>6. CASE scene[u].alive
  <2>1. z = IF was = None THEN IF scene[u].used THEN FlushT2(t, u, left) ELSE t
            ELSE IF was.heavy # Now(u).heavy THEN IF u \in Scenes THEN [a EXCEPT !.auto = TRUE] ELSE FlushT2(t, u, left)
            ELSE IF was = Now(u) THEN t ELSE b
      BY <1>1, <1>2, <1>6 DEF FlushT1, Seen, Structure
  <2> HIDE DEF z, a, b, t
  <2>2. /\ Same(x, t, {"todo", "shadow"}) /\ t.todo[u] = 0
        /\ \A d \in D \ {u} : t.todo[d] = x.todo[d] /\ t.shadow[d] = x.shadow[d]
      BY <1>2, <1>4 DEF Only, Same, AllKeys
  <2>3. u \notin Meshes /\ u \in Tracked
      BY <1>1 DEF Steady, Tracked
  <2>4. CASE \/ was = None /\ scene[u].used
             \/ was # None /\ was.heavy # Now(u).heavy /\ u \notin Scenes
    <3>1. u \notin Scenes /\ ~ByDelta(x, scene, u)
        BY <1>1, <1>2, <1>3, <2>4 DEF Datablock, SceneBlock, ByDelta
    <3>2. Same(x, t, {"todo", "budget", "shadow"}) /\ z = FlushT2(t, u, left)
        BY <2>1, <2>2, <2>4 DEF Same
    <3>3. x.todo[u] # 0 /\ u \in D \ Scenes
        BY <3>1
    <3>4. Shape(FlushT2(t, u, left)) /\ Accounted(FlushT2(t, u, left), scene, used.edit)
        BY <1>4, <1>6, <2>2, <2>3, <3>1, <3>2, <3>3, BlobSettles
    <3> QED
        BY <3>2, <3>4 DEF z
  <2>5. CASE (was = None /\ ~scene[u].used) \/ (was # None /\ was = Now(u))
    <3>1. z = t
        BY <2>1, <2>5
    <3>2. Accounted(t, scene, used.edit)
        BY <1>2, <1>4, <1>6, <2>2, <2>5, SnapSettles
    <3> QED
        BY <1>4, <3>1, <3>2 DEF z
  <2>8. ASSUME was # None, was # Now(u) PROVE x.box[u] = None
    <3>1. x.todo[u] # 0
        OBVIOUS
    <3> QED
        BY <2>8, <3>1, ListFacts
  <2>6. CASE was # None /\ was.heavy # Now(u).heavy /\ u \in Scenes
    <3>0. was # Now(u) /\ ok /\ left = 0 /\ was # None
        BY <2>6 DEF Escalates, Structure
    <3>1. Shape(a) /\ Delta(a, u) /\ a.auto = x.auto /\ x.box[u] = None
      <4>1. x.box[u] = None
          BY <2>8, <3>0
      <4>2. a = SendT1(t, u, was, None, TRUE, 0) /\ x.todo[u] # 0
          BY <3>0 DEF a
      <4> QED
          BY <1>4, <2>2, <3>0, <4>1, <4>2, EscalationOutcome
    <3>2. z = [a EXCEPT !.auto = TRUE]
        BY <2>1, <2>6
    <3>3. AllKeys \subseteq DOMAIN z /\ Same(a, z, {"auto"}) /\ z.auto = TRUE
        BY <3>1, <3>2 DEF Same, AllKeys, Shape
    <3>4. Shape(z)
        BY <3>1, <3>3, ZenonT(40) DEF Shape, Same, AllKeys
    <3>5. Delta(z, u)
      <4>1. /\ z.shadow = a.shadow /\ z.hash = a.hash /\ z.box = a.box /\ z.rep = a.rep /\ z.dirty = a.dirty /\ z.todo = a.todo
            /\ z.boot = a.boot
          BY <3>3 DEF Same, AllKeys
      <4>2. \A w \in Worlds : Coming(z, w) = Coming(a, w)
          BY <4>1 DEF Coming
      <4>3. Same(x, z, Flushed)
          BY <3>1, <3>3 DEF Delta, Same, Flushed
      <4>4. \A d \in D : (Unsent(x, a, d) => Unsent(x, z, d)) /\ (SentNow(a, d) => SentNow(z, d))
          BY <4>1 DEF Unsent, SentNow
      <4> QED
          BY <3>1, <4>1, <4>2, <4>3, <4>4 DEF Delta
    <3>6. Accounted(z, scene, used.edit)
        BY <1>2, <1>6, <2>6, <3>1, <3>3, <3>5, DeltaSettles
    <3> QED
        BY <3>4, <3>6 DEF z
  <2>7. CASE was # None /\ was.heavy = Now(u).heavy /\ was # Now(u)
    <3>1. x.box[u] = None
        BY <2>7, <2>8
    <3>2. Shape(b) /\ ((Delta(b, u) /\ b.auto = x.auto) \/ Accounted(b, scene, used.edit))
        BY <1>4, <1>6, <2>2, <2>7, <3>1, SendOutcome DEF b
    <3>3. z = b
        BY <2>1, <2>7
    <3>4. Delta(b, u) /\ b.auto = x.auto => Accounted(b, scene, used.edit)
        BY <1>2, <1>3, <1>6, <2>7, <3>1, DeltaSettles
    <3> QED
        BY <3>2, <3>3, <3>4 DEF z
  <2> QED
      BY <2>4, <2>5, <2>6, <2>7
<1> QED
    BY <1>5, <1>6

\* One entry of the list.
LEMMA FlushOneAccounted ==
    ASSUME Whole, Allowed = {}, NEW u \in D, FlushOne(u)
    PROVE  Shape(x') /\ Accounted(x', scene', used'.edit)
<1> DEFINE y == [x EXCEPT !.todo[u] = 0]
           f == [y EXCEPT !.budget = @ - 1]
<1>1. /\ x.pc = "flush" /\ x.todo[u] # 0 /\ scene' = scene /\ used' = used
    BY DEF FlushOne
<1>2. PICK ok \in BOOLEAN, left \in 0..Chunks :
                /\ Escalates(u) => ok /\ left = 0
                /\ x' = IF x.todo[u] = 1 THEN FlushT1(y, u, ok, left)
                        ELSE IF x.budget = 0 THEN TouchReady(Mark(y, u, 2), u)
                        ELSE FlushT2(f, u, left)
  <2>1. PICK ok \in BOOLEAN, left \in 0..Chunks :
                /\ (Escalates(u) /\ (~ok \/ left > 0)) => "fallback" \in Allowed
                /\ x' = IF x.todo[u] = 1 THEN FlushT1(y, u, ok, left)
                        ELSE IF x.budget = 0 THEN TouchReady(Mark(y, u, 2), u)
                        ELSE FlushT2(f, u, left)
      BY DEF FlushOne
  <2>2. Escalates(u) => ok /\ left = 0
      BY <2>1, Parts
  <2> HIDE DEF y, f
  <2> QED
      BY <2>1, <2>2
<1>3. /\ SceneOK(scene) /\ Shape(x) /\ AllKeys \subseteq DOMAIN x /\ u \in x.reg /\ Datablock(x, scene, u)
    BY <1>1, ListFacts
<1>4. x.todo \in [D -> 0..2] /\ x.budget \in 0..PerTick /\ PerTick \in Nat
    BY <1>3, FlushAssumption DEF Shape, FlushAssumption
<1>5. /\ AllKeys \subseteq DOMAIN y /\ Same(x, y, {"todo"}) /\ y.todo = [x.todo EXCEPT ![u] = 0]
    BY <1>3 DEF Same, AllKeys
<1>6. y.todo \in [D -> 0..2] /\ y.todo[u] = 0 /\ \A d \in D \ {u} : y.todo[d] = x.todo[d]
    BY <1>4, <1>5
<1>7. Shape(y)
    BY <1>3, <1>5, <1>6 DEF Shape, Same, AllKeys
<1> HIDE DEF y
<1>8. CASE x.todo[u] = 1
    BY <1>1, <1>2, <1>5, <1>6, <1>7, <1>8, PathsSettle
<1>9. CASE x.todo[u] # 1 /\ x.budget = 0
  <2> DEFINE m == Mark(y, u, 2)
  <2>1. x' = [m EXCEPT !.touch[u] = "ripe", !.stuck = @ \ {u}] /\ x.todo[u] = 2
      BY <1>1, <1>2, <1>4, <1>9 DEF TouchReady
  <2>2. Shape(m) /\ Same(y, m, {"dirty"}) /\ m.dirty[u] = Ratchet(y.dirty[u], 2) /\ \A d \in D \ {u} : m.dirty[d] = y.dirty[d]
      BY <1>7, MarkShape
  <2> HIDE DEF m
  <2>3. Shape(x') /\ Same(m, x', {"touch"})
      BY <2>1, <2>2, TouchShape DEF Touches
  <2>4. /\ Same(x, x', {"todo", "touch", "dirty"}) /\ x'.todo = y.todo /\ x'.dirty = m.dirty /\ y.dirty = x.dirty
      BY <1>5, <2>2, <2>3 DEF Same, AllKeys
  <2>5. x'.todo[u] = 0 /\ x'.dirty[u] = Ratchet(x.dirty[u], 2) /\ \A d \in D \ {u} : x'.todo[d] = x.todo[d] /\ x'.dirty[d] = x.dirty[d]
      BY <1>6, <2>2, <2>4
  <2>6. Accounted(x', scene, used.edit)
      BY <1>1, <2>1, <2>4, <2>5, WaitSettles
  <2> QED
      BY <1>1, <2>3, <2>6
<1>10. CASE x.todo[u] # 1 /\ x.budget # 0
  <2>1. x' = FlushT2(f, u, left) /\ x.todo[u] = 2
      BY <1>1, <1>2, <1>4, <1>10
  <2>2. y.budget = x.budget
      BY <1>5 DEF Same, AllKeys
  <2>3. AllKeys \subseteq DOMAIN f /\ Same(y, f, {"budget"}) /\ f.budget = y.budget - 1
      BY <1>5 DEF Same, AllKeys
  <2>4. f.budget \in 0..PerTick
      BY <1>4, <1>10, <2>2, <2>3
  <2>5. Shape(f)
      BY <1>7, <2>3, <2>4 DEF Shape, Same, AllKeys
  <2> HIDE DEF f
  <2>6. /\ Same(x, f, {"todo", "budget"}) /\ Same(x, f, {"todo", "budget", "shadow"}) /\ f.todo = y.todo /\ f.shadow = x.shadow
      BY <1>5, <2>3 DEF Same, AllKeys
  <2>7. u \notin Scenes /\ ~ByDelta(x, scene, u)
      BY <1>3, <2>1 DEF Datablock, SceneBlock, ByDelta
  <2>8. CASE ~scene[u].alive
    <3>1. x' = f
        BY <2>1, <2>8 DEF FlushT2, Seen
    <3>2. Accounted(f, scene, used.edit)
        BY <1>1, <1>6, <2>6, <2>8, GoneSettles
    <3> QED
        BY <1>1, <2>5, <3>1, <3>2
  <2>9. CASE scene[u].alive
      BY <1>1, <1>6, <2>1, <2>5, <2>6, <2>7, <2>9, BlobSettles
  <2> QED
      BY <2>8, <2>9
<1> QED
    BY <1>8, <1>9, <1>10

-----------------------------------------------------------------------------
(* The theorem.                                                            *)

\* Before the handshake's file, everything is known and nothing has been sent.
LEMMA InitAccounted == ASSUME Init PROVE Whole
<1>1. Inv /\ SceneOK(NewScene)
    BY InitInv, NewSceneOK
<1>2. /\ scene = NewScene /\ x = InitialScan(HostSync, NewScene) /\ used = [edit |-> 0, boot |-> 0]
    BY DEF Init
<1>3. Shape(HostSync)
  <2>1. {Tomb, 0, 1, 2} = Tiers /\ PerTick \in Nat /\ Sendable \subseteq D
      BY FlushAssumption DEF Tiers, FlushAssumption, Sendable
  <2> QED
      BY <2>1 DEF Shape, AllKeys, HostSync, Touches, File
<1>4. /\ HostSync.pc = "idle" /\ HostSync.todo = [u \in D |-> 0] /\ HostSync.vis = [u \in D |-> None] /\ HostSync.hash = [u \in D |-> None]
      /\ HostSync.prime = {} /\ HostSync.box = [u \in D |-> None] /\ HostSync.boot = None /\ HostSync.suppress = TRUE
      /\ HostSync.recent = FALSE /\ HostSync.paused = FALSE
    BY DEF HostSync
<1>5. /\ Shape(x) /\ Same(HostSync, x, {"reg", "known", "dirty", "touch", "shadow", "vis"})
      /\ \A u \in D : /\ (u \in x.reg <=> NewScene[u].alive) /\ (u \in x.known <=> NewScene[u].alive)
                      /\ x.dirty[u] = 0
                      /\ x.shadow[u] = IF u \in Tracked /\ InFile(NewScene, u) THEN BuildSnapshot(NewScene, u) ELSE None
                      /\ x.vis[u] = IF u \in Objects /\ InFile(NewScene, u) THEN NewScene[u].swept ELSE HostSync.vis[u]
    BY <1>1, <1>2, <1>3, ScanShape
<1>6. /\ x.pc = "idle" /\ (\A u \in D : x.todo[u] = 0) /\ (\A u \in D : x.hash[u] = None) /\ x.prime = {}
      /\ (\A u \in D : x.box[u] = None) /\ x.boot = None /\ x.suppress = TRUE /\ x.recent = FALSE /\ x.paused = FALSE
    BY <1>4, <1>5 DEF Same, AllKeys
<1>7. used.edit = 0
    BY <1>2
<1>8. ASSUME NEW u \in D PROVE Steady(x, scene, 0, u)
  <2>1. Within(BuildSnapshot(NewScene, u), 0) /\ Within(x.shadow[u], 0) /\ Within(x.hash[u], 0)
      BY <1>5, <1>6, NewSceneFacts DEF Within
  <2>2. x.vis[u] = None \/ x.vis[u] <= 0
      BY <1>4, <1>5, NewSceneFacts
  <2>3. x.shadow[u] = None \/ ~x.shadow[u].ptr
      BY <1>5, NewSceneFacts
  <2>4. u \in x.reg /\ u \in x.known /\ x.dirty[u] = 0 /\ x.todo[u] = 0 /\ x.box[u] = None
      BY <1>5, <1>6, NewSceneFacts
  <2> QED
      BY <1>2, <2>1, <2>2, <2>3, <2>4, NewSceneFacts DEF Steady, Tomb
<1>9. Silent(x)
  <2>1. x.reg = D
      BY <1>5, NewSceneFacts DEF Shape
  <2>2. \A u \in Scenes : x.shadow[u] # None
      BY <1>5, NewSceneFacts, Parts DEF InFile, Tracked
  <2> QED
      BY <1>5, <1>6, <2>1, <2>2 DEF Silent
<1>10. Calm(x)
    BY <1>6 DEF Calm
<1> QED
    BY <1>1, <1>5, <1>6, <1>7, <1>8, <1>9, <1>10 DEF Whole, Accounted

\* Every step keeps the accounts.
LEMMA NextAccounted == ASSUME Allowed = {}, Whole, [Next]_vars PROVE Whole'
<1>1. Inv'
    BY NextInv DEF Whole
<1>2. Shape(x') /\ Accounted(x', scene', used'.edit)
  <2>1. CASE Edits
      BY <2>1, EditAccounted, EditSilentlyAccounted, PointAccounted, DeleteAccounted, NewFileAccounted, TimersAccounted DEF Edits
  <2>2. CASE Bootstrap
      BY <2>2, BootstrapAccounted
  <2>3. CASE Ticks
      BY <2>3, TimersAccounted, BlobChunkAccounted, FlushOneAccounted, BootChunkAccounted, AutoBootAccounted, TickAccounted DEF Ticks
  <2>4. CASE UNCHANGED vars
    <3>1. x' = x /\ scene' = scene /\ used' = used
        BY <2>4, Zenon DEF vars
    <3> QED
        BY <3>1 DEF Whole
  <2> QED
      BY <2>1, <2>2, <2>3, <2>4 DEF Next
<1>3. Shape(x)' /\ Accounted(x, scene, used.edit)'
    BY <1>2 DEF Shape, Accounted, Calm, Steady, Silent, Named, Datablock, Live, Gone, World, SceneBlock, Baseline, Arrives, Marked, Blind,
                ByDelta, Coming, Within, BuildSnapshot
<1> QED
    BY <1>1, <1>3 DEF Whole

\* What is accounted for and no longer pending has arrived.
LEMMA AccountedIsRight == ASSUME Whole PROVE NothingForgotten
<1>1. SceneOK(scene) /\ Shape(x) /\ Accounted(x, scene, used.edit)
    BY WholeFacts
<1> SUFFICES ASSUME NEW u \in D, ~Pending(u)
             PROVE  Agrees(u) \/ (u \in Worlds /\ \E s \in Scenes : Pending(s))
    BY DEF NothingForgotten
<1>2. /\ ~x.suppress /\ x.boot = None /\ x.box[u] = None /\ x.dirty[u] = 0 /\ x.todo[u] = 0
      /\ (scene[u].alive <=> u \in x.reg) /\ (scene[u].alive => x.vis[u] = scene[u].swept) /\ ~(u \in Scenes /\ x.auto)
  <2>1. scene[u].alive \in BOOLEAN
      BY <1>1 DEF SceneOK, Block
  <2> QED
      BY <2>1 DEF Pending, SweepVector
<1>3. Named(x, scene) /\ Datablock(x, scene, u)
    BY <1>1, <1>2 DEF Accounted
<1>4. Coming(x, u) = x.rep[u]
    BY <1>2 DEF Coming
<1>5. CASE ~scene[u].alive
  <2>1. Gone(x, u)
      BY <1>3, <1>5 DEF Datablock
  <2>2. x.rep[u] = None
      BY <1>2, <1>4, <1>5, <2>1 DEF Gone, Tomb
  <2> QED
      BY <1>5, <2>2 DEF Agrees, InFile
<1>6. CASE scene[u].alive
  <2>1. Live(x, scene, u) /\ ~Marked(x, scene, u)
      BY <1>2, <1>3, <1>6 DEF Datablock, Marked
  <2>2. CASE Arrives(x, scene, u)
    <3>1. /\ x.rep[u] # None /\ x.rep[u].light = scene[u].light /\ x.rep[u].swept = scene[u].swept
          /\ x.rep[u].ptr = scene[u].ptr /\ x.rep[u].heavy = scene[u].heavy
        BY <1>2, <1>4, <2>2 DEF Arrives
    <3>2. x.rep[u] \in Snapshot
        BY <1>1, <3>1 DEF Shape, File
    <3>3. x.rep[u] = Now(u)
        BY <3>1, <3>2 DEF Snapshot, Now, BuildSnapshot
    <3> QED
        BY <1>6, <3>3 DEF Agrees, InFile
  <2>3. CASE u \in Worlds /\ Coming(x, u) = None
    <3>1. CASE ~scene[u].used
        BY <1>6, <3>1 DEF Agrees, InFile
    <3>2. CASE scene[u].used
      <4>1. PICK d \in Scenes : x.dirty[d] # 0 \/ x.todo[d] # 0
          BY <1>3, <2>3, <3>2 DEF Named
      <4>2. Pending(d)
          BY <4>1 DEF Pending
      <4> QED
          BY <2>3, <4>2
    <3> QED
        BY <3>1, <3>2
  <2> QED
      BY <2>1, <2>2, <2>3 DEF Live
<1> QED
    BY <1>5, <1>6

\* Nothing is forgotten: in a session in which none of the listed circumstances arises, whatever
\* order the artist edits, points, deletes, undoes, pauses and opens files in, wherever a tick is when
\* she does, and whichever deltas, tombstones and chunks the lanes refuse, a datablock that no queue,
\* flag, sweep or file of HostSync still holds is on the replica as it is on the host
\* (flush_tick, _flush_t1, _flush_t2, _send_t1, _prime_hashes, the sweeps).
THEOREM EditsAccounted == ASSUME Allowed = {} PROVE Spec => []NothingForgotten
<1>1. Init => Whole
    BY InitAccounted
<1>2. Whole /\ [Next]_vars => Whole'
    BY NextAccounted
<1>3. Whole => NothingForgotten
    BY AccountedIsRight
<1> QED
    BY <1>1, <1>2, <1>3, PTL DEF Spec
=============================================================================
