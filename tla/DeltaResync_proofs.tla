------------------------ MODULE DeltaResync_proofs --------------------------
(***************************************************************************)
(* Three invariants of the delta resync, for every value of its constants: *)
(* what the inventory says is so, no wish is written off, and the repair   *)
(* is the whole difference.                                                *)
(***************************************************************************)
EXTENDS DeltaResync, TLAPS, FiniteSetTheorems, WellFoundedInduction

-----------------------------------------------------------------------------
(* The invariant                                                           *)

Versions == [D -> Nat]

Frame == [kind : {"t2", "boot", "end"}, u : D \union {Scene}, ver : Nat \union Versions,
          fix : BOOLEAN, seq : Nat, sd : Nat, gen : Int]

HostKeys == {"ver", "sd", "born", "dirty", "tombs", "known", "scene", "auto", "hash", "prime",
             "mpend", "gen", "dig", "manifest", "req", "queue", "tail", "end", "seq", "fseq",
             "bootSeq", "at", "served", "shipped", "out", "fout"}
ReplicaKeys == {"ver", "sd", "dig", "held", "gen", "mg", "unknown", "want", "boots", "resyncs",
                "failed", "lost", "missed"}

\* What is dirty is there, and so is what the repair still has to send again.
HostOK(g) ==
    /\ HostKeys \subseteq DOMAIN g
    /\ g.ver \in Versions /\ g.hash \in Versions /\ g.mpend \in Versions
    /\ g.sd \in Nat /\ g.seq \in Nat /\ g.gen \in Int /\ g.end \in BOOLEAN
    /\ g.dirty \in SUBSET D /\ \A u \in g.dirty : g.ver[u] # 0
    /\ \A e \in g.queue : e.u \in D

\* A frame of a host that has sent no file beyond gen.
FrameOK(m, gen) ==
    /\ m.kind = "t2" => m.u \in D /\ m.ver \in Nat \ {0}
    /\ m.kind = "boot" => m.ver \in Versions /\ m.gen <= gen

ReplicaOK(p, gen) ==
    /\ ReplicaKeys \subseteq DOMAIN p
    /\ p.ver \in Versions /\ p.held \in Versions /\ p.boots \in Nat /\ p.resyncs \in Nat
    /\ p.gen # None => p.gen \in Int /\ p.gen <= gen

\* A state of replica p or one before it.
Past(s, p) == s # None => s \in Nat \X Nat /\ s[1] <= p.boots /\ s[2] <= p.resyncs

Shape ==
    /\ HostOK(h) /\ h.out = <<>>
    /\ cold \in Seq(Frame) /\ \A i \in 1..Len(cold) : FrameOK(cold[i], h.gen)
    /\ ReplicaOK(r, h.gen)
    /\ \A b \in ctl : b.gen \in Int /\ b.gen <= h.gen /\ b.held \in Versions
    /\ Past(h.served, r) /\ (pong.want => Past(pong.state, r))

(* Who still says which version of u file number n brought: the file on    *)
(* its way, the replica where nothing newer has come, a batch of digests,  *)
(* and the host, in the digests it owes and in those it has yet to take.   *)
HostSays(g, u, v) ==
    \/ g.mpend[u] = v
    \/ u \in g.prime /\ g.hash[u] = 0 /\ u \notin g.dirty /\ g.ver[u] = v
FrameSays(m, n, u, v) == m.kind = "boot" /\ m.gen = n /\ m.ver[u] = v
ReplicaSays(p, n, u, v) == p.gen # None /\ p.gen = n /\ p.held[u] = 0 /\ p.ver[u] = v
BatchSays(b, n, u, v) == b.gen = n /\ b.held[u] = v
Says(n, u, v) ==
    \/ h.gen = n /\ HostSays(h, u, v)
    \/ \E i \in 1..Len(cold) : FrameSays(cold[i], n, u, v)
    \/ ReplicaSays(r, n, u, v)
    \/ \E b \in ctl : BatchSays(b, n, u, v)

\* They agree.
OneFile ==
    \A u \in D : \A n \in Int : \A v, w \in Nat \ {0} : Says(n, u, v) /\ Says(n, u, w) => v = w

Files == OneFile /\ InventoryTrue

\* The wish that counts as answered has its answer under way, unless that has been missed.
Closing(m) == m.fix /\ m.kind \in {"boot", "end"}
Pledge ==
    \/ r.missed
    \/ h.served = <<r.boots, r.resyncs>> => h.end \/ \E i \in 1..Len(cold) : Closing(cold[i])

\* A step that adds nothing to what is said keeps it in agreement.
LEMMA NothingNewSaid ==
    ASSUME OneFile,
           \A u \in D : \A n \in Int : \A v \in Nat \ {0} : Says(n, u, v)' => Says(n, u, v)
    PROVE  OneFile'
<1> SUFFICES ASSUME NEW u \in D, NEW n \in Int, NEW v \in Nat \ {0}, NEW w \in Nat \ {0},
                    Says(n, u, v)', Says(n, u, w)'
             PROVE  v = w
    BY Zenon DEF OneFile
<1>1. Says(n, u, v) /\ Says(n, u, w)
    BY Zenon
<1> QED
    BY <1>1, Zenon DEF OneFile

-----------------------------------------------------------------------------
(* The host                                                                *)

\* Putting one frame on the lane leaves the others where they were.
LEMMA OneMore ==
    ASSUME cold \in Seq(Frame), NEW m \in Frame, NEW q, q = cold \o <<m>>
    PROVE  /\ q \in Seq(Frame) /\ Len(q) = Len(cold) + 1 /\ Len(cold) \in Nat
           /\ \A i \in 1..Len(cold) : q[i] = cold[i] /\ i \in 1..Len(q)
           /\ q[Len(cold) + 1] = m /\ Len(cold) + 1 \in 1..Len(q)
           /\ \A i \in 1..Len(q) : i \in 1..Len(cold) \/ i = Len(cold) + 1
<1>1. q \in Seq(Frame) /\ Len(q) = Len(cold) + 1 /\ Len(cold) \in Nat
    OBVIOUS
<1>2. \A i \in 1..Len(cold) : q[i] = cold[i]
    OBVIOUS
<1>3. q[Len(cold) + 1] = m
    OBVIOUS
<1> QED
    BY <1>1, <1>2, <1>3

\* A host that has sent nothing, or one frame that is no file.
Sent(g) == g.out = <<>> \/ \E m \in Frame : m.kind # "boot" /\ FrameOK(m, g.gen) /\ g.out = <<m>>

\* A step of the host that sends no file, says nothing new and keeps its pledge.
Tame(g) ==
    /\ HostOK(g) /\ g.gen = h.gen /\ Sent(g)
    /\ \A u \in D : \A v \in Nat \ {0} : HostSays(g, u, v) => HostSays(h, u, v)
    /\ Past(g.served, r)
    /\ \/ g.end \/ g.served = None
       \/ g.served = h.served /\ (h.end => \E m : Closing(m) /\ g.out = <<m>>)

\* Such a step keeps the invariant.
LEMMA TameStep ==
    ASSUME Shape, NEW g, Tame(g), Host(g), UNCHANGED <<r, ctl, pong>>
    PROVE  Shape' /\ (OneFile => OneFile') /\ (Pledge => Pledge')
<1>1. /\ h' = [g EXCEPT !.out = <<>>, !.fout = <<>>] /\ cold' = cold \o g.out
      /\ HostKeys \subseteq DOMAIN g
    BY DEF Host, Tame, HostOK
<1>2. /\ DOMAIN h' = DOMAIN g /\ h'.out = <<>>
      /\ h'.ver = g.ver /\ h'.hash = g.hash /\ h'.mpend = g.mpend /\ h'.sd = g.sd
      /\ h'.seq = g.seq /\ h'.gen = g.gen /\ h'.end = g.end /\ h'.dirty = g.dirty
      /\ h'.queue = g.queue /\ h'.prime = g.prime /\ h'.served = g.served
    BY <1>1 DEF HostKeys
<1>3. HostOK(h') /\ h'.gen = h.gen
    BY <1>2, Zenon DEF Tame, HostOK
<1>4. cold \in Seq(Frame) /\ \A i \in 1..Len(cold) : FrameOK(cold[i], h.gen)
    BY Zenon DEF Shape
<1>5. /\ cold' \in Seq(Frame)
      /\ \A i \in 1..Len(cold) : i \in 1..Len(cold') /\ cold'[i] = cold[i]
      /\ \A i \in 1..Len(cold') : \/ i \in 1..Len(cold)
                                  \/ cold'[i].kind # "boot" /\ FrameOK(cold'[i], h.gen)
      /\ \A m : g.out = <<m>> => \E i \in 1..Len(cold') : cold'[i] = m
  <2>1. CASE g.out = <<>>
    <3>1. cold' = cold
        BY <1>1, <1>4, <2>1
    <3>2. \A m : g.out # <<m>>
        BY <2>1
    <3> QED
        BY <1>4, <3>1, <3>2, Zenon
  <2>2. ASSUME NEW m \in Frame, m.kind # "boot", FrameOK(m, g.gen), g.out = <<m>>
        PROVE  /\ cold' \in Seq(Frame)
               /\ \A i \in 1..Len(cold) : i \in 1..Len(cold') /\ cold'[i] = cold[i]
               /\ \A i \in 1..Len(cold') : \/ i \in 1..Len(cold)
                                           \/ cold'[i].kind # "boot" /\ FrameOK(cold'[i], h.gen)
               /\ \A k : g.out = <<k>> => \E i \in 1..Len(cold') : cold'[i] = k
    <3>1. PICK q : q = cold'
        OBVIOUS
    <3>2. q = cold \o <<m>>
        BY <1>1, <2>2, <3>1
    <3>3. /\ q \in Seq(Frame) /\ q[Len(cold) + 1] = m /\ Len(cold) + 1 \in 1..Len(q)
          /\ \A i \in 1..Len(cold) : q[i] = cold[i] /\ i \in 1..Len(q)
          /\ \A i \in 1..Len(q) : i \in 1..Len(cold) \/ i = Len(cold) + 1
        BY <1>4, <3>2, OneMore
    <3>4. \A k : g.out = <<k>> => k = m
        BY <2>2
    <3>5. g.gen = h.gen
        BY DEF Tame
    <3> QED
        BY <2>2, <3>1, <3>3, <3>4, <3>5, Zenon
  <2> QED
      BY <2>1, <2>2, Zenon DEF Tame, Sent
<1>6. Shape'
  <2>1. \A i \in 1..Len(cold') : FrameOK(cold'[i], h'.gen)
      BY <1>3, <1>4, <1>5, Zenon
  <2>2. Past(h'.served, r') /\ (pong'.want => Past(pong'.state, r'))
      BY <1>2, Zenon DEF Shape, Tame
  <2> QED
      BY <1>2, <1>3, <1>5, <2>1, <2>2, Zenon DEF Shape
<1>7. ASSUME OneFile PROVE OneFile'
  <2>1. ASSUME NEW u \in D, NEW n \in Int, NEW v \in Nat \ {0}, Says(n, u, v)'
        PROVE  Says(n, u, v)
    <3>1. CASE h'.gen = n /\ HostSays(h', u, v)
      <4>1. HostSays(g, u, v)
          BY <1>2, <3>1, Zenon DEF HostSays
      <4> QED
          BY <1>3, <3>1, <4>1, Zenon DEF Tame, Says
    <3>2. CASE \E i \in 1..Len(cold') : FrameSays(cold'[i], n, u, v)
        BY <1>5, <3>2, Zenon DEF FrameSays, Says
    <3>3. CASE ReplicaSays(r', n, u, v) \/ \E b \in ctl' : BatchSays(b, n, u, v)
        BY <3>3, Zenon DEF Says
    <3> QED
        BY <2>1, <3>1, <3>2, <3>3, Zenon DEF Says
  <2> QED
      BY <1>7, <2>1, NothingNewSaid, Zenon
<1>8. ASSUME Pledge PROVE Pledge'
  <2>1. <<r'.boots, r'.resyncs>> # None
      BY NoneAssumption DEF Shape, ReplicaOK
  <2> QED
      BY <1>2, <1>5, <1>8, <2>1, Zenon DEF Pledge, Tame
<1> QED
    BY <1>6, <1>7, <1>8

\* A frame as it goes onto the lane.
LEMMA FrameType ==
    ASSUME NEW B, NEW fix \in B, NEW kind \in {"t2", "boot", "end"}, NEW u \in D \union {Scene},
           NEW ver \in Nat \union Versions, NEW seq \in Nat, NEW sd \in Nat, NEW gen \in Int
    PROVE  [kind |-> kind, u |-> u, ver |-> ver, fix |-> fix, seq |-> seq, sd |-> sd, gen |-> gen]
               \in [kind : {"t2", "boot", "end"}, u : D \union {Scene}, ver : Nat \union Versions,
                    fix : B, seq : Nat, sd : Nat, gen : Int]
OBVIOUS

\* What send_bootstrap leaves of the host, and the file it sends.
LEMMA BootstrapSent ==
    ASSUME NEW g, HostOK(g), g.out = <<>>, NEW fix \in BOOLEAN
    PROVE  LET n == SendBootstrap(g, fix)
           IN  /\ HostOK(n) /\ n.gen = g.gen + 1 /\ n.ver = g.ver /\ n.served = g.served
               /\ \A u \in D : n.mpend[u] = 0
               /\ \E m \in Frame : /\ n.out = <<m>> /\ m.kind = "boot" /\ m.gen = g.gen + 1
                                   /\ m.ver = g.ver /\ m.fix = fix /\ FrameOK(m, n.gen)
<1> DEFINE n == SendBootstrap(g, fix)
           b == [kind |-> "boot", u |-> Scene, ver |-> g.ver, fix |-> fix, seq |-> 0,
                 sd |-> g.sd, gen |-> g.gen + 1]
           m == [b EXCEPT !.seq = g.seq + 1]
<1>1. /\ HostKeys \subseteq DOMAIN g /\ g.ver \in Versions /\ g.sd \in Nat /\ g.seq \in Nat
      /\ g.gen \in Int /\ g.dirty \in SUBSET D /\ \A u \in g.dirty : g.ver[u] # 0
    BY DEF HostOK
<1>2. m = [kind |-> "boot", u |-> Scene, ver |-> g.ver, fix |-> fix, seq |-> g.seq + 1,
           sd |-> g.sd, gen |-> g.gen + 1]
    OBVIOUS
<1>3. m \in Frame
  <2>1. g.seq + 1 \in Nat /\ g.gen + 1 \in Int
      BY <1>1
  <2>2. g.ver \in Nat \union Versions /\ Scene \in D \union {Scene}
      BY <1>1, Zenon
  <2> HIDE DEF m
  <2> QED
      BY <1>1, <1>2, <2>1, <2>2, FrameType, Zenon DEF Frame
<1>4. /\ m.kind = "boot" /\ m.gen = g.gen + 1 /\ m.ver = g.ver /\ m.fix = fix
    BY <1>2
<1>5. g.gen + 1 \in Int /\ m.gen <= g.gen + 1 /\ g.seq + 1 \in Nat
    BY <1>1, <1>4
<1> HIDE DEF m
<1>6. Append(<<>>, m) = <<m>>
    OBVIOUS
<1>7. /\ DOMAIN n = DOMAIN g /\ n.gen = g.gen + 1 /\ n.ver = g.ver /\ n.served = g.served
      /\ n.mpend = Empty /\ n.hash = Empty /\ n.queue = {} /\ n.end = FALSE /\ n.sd = g.sd
      /\ n.dirty = g.dirty /\ n.seq = g.seq + 1 /\ n.out = <<m>>
    BY <1>1, <1>6 DEF SendBootstrap, Cold, HostKeys, m
<1> HIDE DEF n
<1>8. Empty \in Versions /\ \A u \in D : Empty[u] = 0
    BY DEF Empty, Versions
<1>9. HostOK(n)
    BY <1>1, <1>5, <1>7, <1>8, Zenon DEF HostOK
<1>10. FrameOK(m, n.gen)
    BY <1>1, <1>4, <1>5, <1>7, Zenon DEF FrameOK
<1> QED
    BY <1>3, <1>4, <1>7, <1>8, <1>9, <1>10, Zenon DEF n

\* A file that is sent keeps the invariant: nobody has said anything of its
\* number yet, and what host and file say is the same.
LEMMA BootStep ==
    ASSUME Shape, NEW g, HostOK(g), g.out = <<>>, g.gen = h.gen, Past(g.served, r),
           NEW fix \in BOOLEAN, fix \/ (g.served = h.served /\ ~h.end),
           Host(SendBootstrap(g, fix)), UNCHANGED <<r, ctl, pong>>
    PROVE  Shape' /\ (OneFile => OneFile') /\ (Pledge => Pledge')
<1> DEFINE n == SendBootstrap(g, fix)
<1>1. /\ HostOK(n) /\ n.gen = g.gen + 1 /\ n.ver = g.ver /\ n.served = g.served
      /\ \A u \in D : n.mpend[u] = 0
    BY BootstrapSent
<1>2. PICK m \in Frame : /\ n.out = <<m>> /\ m.kind = "boot" /\ m.gen = g.gen + 1
                         /\ m.ver = g.ver /\ m.fix = fix /\ FrameOK(m, n.gen)
    BY BootstrapSent
<1>3. h' = [n EXCEPT !.out = <<>>, !.fout = <<>>] /\ cold' = cold \o n.out
    BY DEF Host
<1> HIDE DEF n
<1>4. /\ DOMAIN h' = DOMAIN n /\ h'.out = <<>>
      /\ h'.ver = n.ver /\ h'.hash = n.hash /\ h'.mpend = n.mpend /\ h'.sd = n.sd
      /\ h'.seq = n.seq /\ h'.gen = n.gen /\ h'.end = n.end /\ h'.dirty = n.dirty
      /\ h'.queue = n.queue /\ h'.prime = n.prime /\ h'.served = n.served
  <2>1. HostKeys \subseteq DOMAIN n
      BY <1>1 DEF HostOK
  <2> QED
      BY <1>3, <2>1 DEF HostKeys
<1>5. h.gen \in Int /\ h'.gen = h.gen + 1
    BY <1>1, <1>4 DEF Shape, HostOK
<1>6. PICK q : q = cold'
    OBVIOUS
<1>7. /\ q \in Seq(Frame) /\ q[Len(cold) + 1] = m /\ Len(cold) + 1 \in 1..Len(q)
      /\ \A i \in 1..Len(cold) : q[i] = cold[i] /\ i \in 1..Len(q)
      /\ \A i \in 1..Len(q) : i \in 1..Len(cold) \/ i = Len(cold) + 1
  <2>1. cold \in Seq(Frame) /\ q = cold \o <<m>>
      BY <1>2, <1>3, <1>6 DEF Shape
  <2> QED
      BY <2>1, OneMore
<1>8. Shape'
  <2>1. HostOK(h')
      BY <1>1, <1>4, Zenon DEF HostOK
  <2>2. \A k : FrameOK(k, h.gen) /\ k \in Frame => FrameOK(k, h'.gen)
      BY <1>5 DEF FrameOK, Frame
  <2>3. \A i \in 1..Len(cold) : cold[i] \in Frame /\ FrameOK(cold[i], h.gen)
      BY DEF Shape
  <2>4. \A i \in 1..Len(cold') : FrameOK(cold'[i], h'.gen)
      BY <1>2, <1>4, <1>6, <1>7, <2>2, <2>3, Zenon
  <2>5. ReplicaOK(r', h'.gen)
      BY <1>5 DEF Shape, ReplicaOK
  <2>6. \A b \in ctl' : b.gen \in Int /\ b.gen <= h'.gen /\ b.held \in Versions
      BY <1>5 DEF Shape
  <2>7. Past(h'.served, r') /\ (pong'.want => Past(pong'.state, r'))
      BY <1>1, <1>4, Zenon DEF Shape
  <2> QED
      BY <1>4, <1>6, <1>7, <2>1, <2>4, <2>5, <2>6, <2>7, Zenon DEF Shape
<1>9. ASSUME NEW u \in D, NEW k \in Int, NEW v \in Nat \ {0}, Says(k, u, v)'
      PROVE  (k # h.gen + 1 /\ Says(k, u, v)) \/ (k = h.gen + 1 /\ v = g.ver[u])
  <2>1. CASE h'.gen = k /\ HostSays(h', u, v)
    <3>1. h'.mpend[u] = 0 /\ h'.ver = g.ver
        BY <1>1, <1>4
    <3> QED
        BY <1>5, <2>1, <3>1, Zenon DEF HostSays
  <2>2. CASE \E i \in 1..Len(q) : FrameSays(q[i], k, u, v)
    <3>1. PICK i \in 1..Len(q) : FrameSays(q[i], k, u, v)
        BY <2>2
    <3>2. CASE i = Len(cold) + 1
        BY <1>2, <1>7, <3>1, <3>2 DEF FrameSays
    <3>3. CASE i \in 1..Len(cold)
      <4>1. FrameSays(cold[i], k, u, v) /\ FrameOK(cold[i], h.gen)
          BY <1>7, <3>1, <3>3 DEF Shape
      <4>2. k <= h.gen
          BY <4>1, Zenon DEF FrameOK, FrameSays
      <4> QED
          BY <1>5, <3>3, <4>1, <4>2 DEF Says
    <3> QED
        BY <1>7, <3>2, <3>3, Zenon
  <2>3. CASE ReplicaSays(r', k, u, v)
    <3>1. k <= h.gen /\ ReplicaSays(r, k, u, v)
        BY <2>3 DEF ReplicaSays, Shape, ReplicaOK
    <3> QED
        BY <1>5, <3>1 DEF Says
  <2>4. CASE \E b \in ctl' : BatchSays(b, k, u, v)
    <3>1. PICK b \in ctl : BatchSays(b, k, u, v)
        BY <2>4
    <3>2. k <= h.gen
        BY <3>1 DEF BatchSays, Shape
    <3> QED
        BY <1>5, <3>1, <3>2 DEF Says
  <2> QED
      BY <1>6, <1>9, <2>1, <2>2, <2>3, <2>4, Zenon DEF Says
<1>10. ASSUME OneFile PROVE OneFile'
  <2> SUFFICES ASSUME NEW u \in D, NEW k \in Int, NEW v \in Nat \ {0}, NEW w \in Nat \ {0},
                      Says(k, u, v)', Says(k, u, w)'
               PROVE  v = w
      BY Zenon DEF OneFile
  <2> QED
      BY <1>9, <1>10, Zenon DEF OneFile
<1>11. ASSUME Pledge PROVE Pledge'
  <2>1. CASE fix
    <3>1. Closing(m)
        BY <1>2, <2>1 DEF Closing
    <3> QED
        BY <1>6, <1>7, <3>1, Zenon DEF Pledge
  <2>2. CASE g.served = h.served /\ ~h.end
      BY <1>1, <1>4, <1>6, <1>7, <1>11, <2>2, Zenon DEF Pledge
  <2> QED
      BY <2>1, <2>2
<1> QED
    BY <1>8, <1>10, <1>11

\* The fields of g that the invariant speaks of are those of n.
Like(g, n) ==
    /\ HostKeys \subseteq DOMAIN n
    /\ n.ver = g.ver /\ n.hash = g.hash /\ n.mpend = g.mpend /\ n.sd = g.sd /\ n.gen = g.gen
    /\ n.end = g.end /\ n.dirty = g.dirty /\ n.queue = g.queue /\ n.prime = g.prime
    /\ n.served = g.served

\* A blob that is sent: the host is as it was but for its counters.
LEMMA T2Sent ==
    ASSUME NEW g, HostOK(g), g.out = <<>>, NEW u \in D, g.ver[u] # 0, NEW fix \in BOOLEAN
    PROVE  LET n == SendT2(g, u, fix) IN Like(g, n) /\ HostOK(n) /\ Sent(n)
<1> DEFINE b == [kind |-> "t2", u |-> u, ver |-> g.ver[u], fix |-> fix, seq |-> 0, sd |-> 0, gen |-> 0]
           m == [b EXCEPT !.seq = g.seq + 1]
           n == SendT2(g, u, fix)
<1>1. HostKeys \subseteq DOMAIN g /\ g.seq \in Nat /\ g.ver \in Versions
    BY DEF HostOK
<1>2. m = [kind |-> "t2", u |-> u, ver |-> g.ver[u], fix |-> fix, seq |-> g.seq + 1, sd |-> 0, gen |-> 0]
    OBVIOUS
<1>3. Blob("t2", u, g.ver[u], fix) = b
    BY DEF Blob
<1>4. g.ver[u] \in Nat /\ g.seq + 1 \in Nat /\ 0 \in Nat /\ 0 \in Int
    BY <1>1 DEF Versions
<1>5. m \in Frame /\ m.kind = "t2" /\ m.u = u /\ m.ver = g.ver[u]
  <2>1. m.kind = "t2" /\ m.u = u /\ m.ver = g.ver[u]
      BY <1>2
  <2> HIDE DEF m
  <2>2. g.ver[u] \in Nat \union Versions /\ u \in D \union {Scene}
      BY <1>4, Zenon
  <2>3. m \in Frame
      BY <1>2, <1>4, <2>2, FrameType, Zenon DEF Frame
  <2> QED
      BY <2>1, <2>3
<1> HIDE DEF b
<1>6. n = [Cold(g, b) EXCEPT !.at[u] = g.seq + 1]
    BY <1>3, Zenon DEF SendT2
<1>7. Append(<<>>, m) = <<m>>
    OBVIOUS
<1>8. /\ DOMAIN n = DOMAIN g /\ Like(g, n) /\ n.seq = g.seq + 1 /\ n.out = <<m>>
    BY <1>1, <1>6, <1>7 DEF Cold, HostKeys, Like
<1> HIDE DEF m, n
<1>9. HostOK(n)
    BY <1>4, <1>8, Zenon DEF HostOK, Like
<1>10. FrameOK(m, n.gen)
    BY <1>4, <1>5 DEF FrameOK
<1> QED
    BY <1>5, <1>8, <1>9, <1>10 DEF Sent, n

\* A delta or a tombstone that is sent: the cold lane is not touched.
LEMMA FastSent ==
    ASSUME NEW g, HostOK(g), NEW kind, NEW u
    PROVE  LET n == Fast(g, kind, u) IN Like(g, n) /\ HostOK(n) /\ n.out = g.out
<1> DEFINE x == FastMsg(g, kind, u, g.fseq + 1)
           n == [g EXCEPT !.fseq = @ + 1, !.fout = Append(@, x)]
<1>1. HostKeys \subseteq DOMAIN g
    BY DEF HostOK
<1> HIDE DEF x
<1>2. DOMAIN n = DOMAIN g /\ Like(g, n) /\ n.seq = g.seq /\ n.out = g.out
    BY <1>1 DEF HostKeys, Like
<1> HIDE DEF n
<1>3. HostOK(n)
    BY <1>2, Zenon DEF HostOK, Like
<1> QED
    BY <1>2, <1>3, Zenon DEF n, x, Fast

\* What the host's state alone says of the step to come.
LEMMA HostFacts ==
    ASSUME Shape
    PROVE  /\ HostOK(h) /\ h.out = <<>> /\ HostKeys \subseteq DOMAIN h
           /\ h.ver \in Versions /\ h.hash \in Versions /\ h.mpend \in Versions
           /\ h.sd \in Nat /\ h.seq \in Nat /\ h.gen \in Int /\ h.end \in BOOLEAN
           /\ h.dirty \in SUBSET D /\ (\A u \in h.dirty : h.ver[u] # 0)
           /\ (\A e \in h.queue : e.u \in D) /\ Past(h.served, r)
BY Zenon DEF Shape, HostOK

\* A host like a tame one is tame, if it has sent no more than a blob.
LEMMA TameLike ==
    ASSUME NEW g, Tame(g), g.out = <<>>, NEW n, Like(g, n), HostOK(n), Sent(n)
    PROVE  Tame(n)
<1>1. \A x : g.out # <<x>>
    OBVIOUS
<1>2. \A u \in D : \A v \in Nat \ {0} : HostSays(n, u, v) => HostSays(g, u, v)
    BY Zenon DEF Like, HostSays
<1> QED
    BY <1>1, <1>2, Zenon DEF Tame, Like

\* The artist's changes.
LEMMA EditsTame ==
    ASSUME Shape
    PROVE  /\ \A u \in D : Edit(u) \/ Create(u) \/ Delete(u) => \E g : Tame(g) /\ Host(g)
           /\ \A how : Restructure(how) => \E g : Tame(g) /\ Host(g)
<1> USE DEF Change
<1>1. ASSUME NEW u \in D, Edit(u) PROVE \E g : Tame(g) /\ Host(g)
  <2> DEFINE g == [h EXCEPT !.ver[u] = @ + 1, !.dirty = @ \union {u}]
  <2>1. Host(g)
      BY <1>1, Zenon DEF Edit
  <2>2. /\ DOMAIN g = DOMAIN h /\ g.ver = [h.ver EXCEPT ![u] = @ + 1] /\ g.dirty = h.dirty \union {u}
        /\ g.hash = h.hash /\ g.mpend = h.mpend /\ g.sd = h.sd /\ g.gen = h.gen /\ g.end = h.end
        /\ g.queue = h.queue /\ g.prime = h.prime /\ g.served = h.served /\ g.seq = h.seq
        /\ g.out = <<>>
      BY HostFacts DEF HostKeys
  <2> HIDE DEF g
  <2>3. g.ver \in Versions /\ g.ver[u] # 0 /\ \A w \in D : w # u => g.ver[w] = h.ver[w]
      BY <2>2, HostFacts DEF Versions
  <2>4. HostOK(g)
      BY <2>2, <2>3, HostFacts, Zenon DEF HostOK
  <2>5. \A w \in D : \A v \in Nat \ {0} : HostSays(g, w, v) => HostSays(h, w, v)
      BY <2>2, <2>3, Zenon DEF HostSays
  <2>6. Tame(g)
      BY <2>2, <2>4, <2>5, HostFacts, Zenon DEF Tame, Sent
  <2> QED
      BY <2>1, <2>6, Zenon
<1>2. ASSUME NEW u \in D, Create(u) PROVE \E g : Tame(g) /\ Host(g)
  <2> DEFINE g == [h EXCEPT !.ver[u] = 1, !.born = @ \union {u}, !.dirty = @ \union {u}]
  <2>1. Host(g)
      BY <1>2, Zenon DEF Create
  <2>2. /\ DOMAIN g = DOMAIN h /\ g.ver = [h.ver EXCEPT ![u] = 1] /\ g.dirty = h.dirty \union {u}
        /\ g.hash = h.hash /\ g.mpend = h.mpend /\ g.sd = h.sd /\ g.gen = h.gen /\ g.end = h.end
        /\ g.queue = h.queue /\ g.prime = h.prime /\ g.served = h.served /\ g.seq = h.seq
        /\ g.out = <<>>
      BY HostFacts DEF HostKeys
  <2> HIDE DEF g
  <2>3. g.ver \in Versions /\ g.ver[u] # 0 /\ \A w \in D : w # u => g.ver[w] = h.ver[w]
      BY <2>2, HostFacts DEF Versions
  <2>4. HostOK(g)
      BY <2>2, <2>3, HostFacts, Zenon DEF HostOK
  <2>5. \A w \in D : \A v \in Nat \ {0} : HostSays(g, w, v) => HostSays(h, w, v)
      BY <2>2, <2>3, Zenon DEF HostSays
  <2>6. Tame(g)
      BY <2>2, <2>4, <2>5, HostFacts, Zenon DEF Tame, Sent
  <2> QED
      BY <2>1, <2>6, Zenon
<1>3. ASSUME NEW u \in D, Delete(u) PROVE \E g : Tame(g) /\ Host(g)
  <2> DEFINE g == [h EXCEPT !.ver[u] = 0, !.dirty = @ \ {u}, !.tombs = @ \union {u}]
  <2>1. Host(g)
      BY <1>3, Zenon DEF Delete
  <2>2. /\ DOMAIN g = DOMAIN h /\ g.ver = [h.ver EXCEPT ![u] = 0] /\ g.dirty = h.dirty \ {u}
        /\ g.hash = h.hash /\ g.mpend = h.mpend /\ g.sd = h.sd /\ g.gen = h.gen /\ g.end = h.end
        /\ g.queue = h.queue /\ g.prime = h.prime /\ g.served = h.served /\ g.seq = h.seq
        /\ g.out = <<>>
      BY HostFacts DEF HostKeys
  <2> HIDE DEF g
  <2>3. g.ver \in Versions /\ g.ver[u] = 0 /\ \A w \in D : w # u => g.ver[w] = h.ver[w]
      BY <2>2, HostFacts DEF Versions
  <2>4. HostOK(g)
      BY <2>2, <2>3, HostFacts, Zenon DEF HostOK
  <2>5. \A w \in D : \A v \in Nat \ {0} : HostSays(g, w, v) => HostSays(h, w, v)
      BY <2>2, <2>3, Zenon DEF HostSays
  <2>6. Tame(g)
      BY <2>2, <2>4, <2>5, HostFacts, Zenon DEF Tame, Sent
  <2> QED
      BY <2>1, <2>6, Zenon
<1>4. ASSUME NEW how, Restructure(how) PROVE \E g : Tame(g) /\ Host(g)
  <2> DEFINE g == [h EXCEPT !.sd = @ + 1, !.scene = how]
  <2>1. Host(g)
      BY <1>4, Zenon DEF Restructure
  <2>2. /\ DOMAIN g = DOMAIN h /\ g.ver = h.ver /\ g.dirty = h.dirty
        /\ g.hash = h.hash /\ g.mpend = h.mpend /\ g.sd = h.sd + 1 /\ g.gen = h.gen /\ g.end = h.end
        /\ g.queue = h.queue /\ g.prime = h.prime /\ g.served = h.served /\ g.seq = h.seq
        /\ g.out = <<>>
      BY HostFacts DEF HostKeys
  <2> HIDE DEF g
  <2>3. g.sd \in Nat
      BY <2>2, HostFacts
  <2>4. HostOK(g)
      BY <2>2, <2>3, HostFacts, Zenon DEF HostOK
  <2>5. \A w \in D : \A v \in Nat \ {0} : HostSays(g, w, v) => HostSays(h, w, v)
      BY <2>2, Zenon DEF HostSays
  <2>6. Tame(g)
      BY <2>2, <2>4, <2>5, HostFacts, Zenon DEF Tame, Sent
  <2> QED
      BY <2>1, <2>6, Zenon
<1> QED
    BY <1>1, <1>2, <1>3, <1>4, Zenon

\* What flush_tick sends when no repair is under way, but for the file.
LEMMA FlushTame ==
    ASSUME Shape
    PROVE  /\ \A u \in D : FlushT2(u) \/ FlushTomb(u) => \E g : Tame(g) /\ Host(g)
           /\ FlushScene \/ AutoCovered => \E g : Tame(g) /\ Host(g)
<1> USE DEF Timer
<1>1. ASSUME NEW u \in D, FlushT2(u) PROVE \E g : Tame(g) /\ Host(g)
  <2> DEFINE g == [h EXCEPT !.dirty = @ \ {u}, !.known = @ \union {u}]
             n == [g EXCEPT !.hash[u] = g.ver[u], !.mpend[u] = 0]
  <2>1. u \in h.dirty /\ Host(IF g.hash[u] = g.ver[u] THEN g ELSE SendT2(n, u, FALSE))
      BY <1>1, Zenon DEF FlushT2
  <2>2. /\ DOMAIN g = DOMAIN h /\ g.ver = h.ver /\ g.dirty = h.dirty \ {u}
        /\ g.hash = h.hash /\ g.mpend = h.mpend /\ g.sd = h.sd /\ g.gen = h.gen /\ g.end = h.end
        /\ g.queue = h.queue /\ g.prime = h.prime /\ g.served = h.served /\ g.seq = h.seq
        /\ g.out = <<>>
      BY HostFacts DEF HostKeys
  <2> HIDE DEF g
  <2>3. HostKeys \subseteq DOMAIN g
      BY <2>2, HostFacts
  <2>4. /\ DOMAIN n = DOMAIN g /\ n.ver = g.ver /\ n.dirty = g.dirty
        /\ n.hash = [g.hash EXCEPT ![u] = g.ver[u]] /\ n.mpend = [g.mpend EXCEPT ![u] = 0]
        /\ n.sd = g.sd /\ n.gen = g.gen /\ n.end = g.end /\ n.queue = g.queue
        /\ n.prime = g.prime /\ n.served = g.served /\ n.seq = g.seq /\ n.out = <<>>
      BY <2>2, <2>3 DEF HostKeys
  <2> HIDE DEF n
  <2>5. h.ver[u] # 0 /\ h.ver \in Versions /\ h.hash \in Versions /\ h.mpend \in Versions
      BY <2>1, HostFacts
  <2>6. HostOK(g)
      BY <2>2, HostFacts, Zenon DEF HostOK
  <2>7. CASE g.hash[u] = g.ver[u]
    <3>1. \A w \in D : \A v \in Nat \ {0} : HostSays(g, w, v) => HostSays(h, w, v)
        BY <2>2, <2>5, <2>7, Zenon DEF HostSays
    <3>2. Tame(g)
        BY <2>2, <2>6, <3>1, HostFacts, Zenon DEF Tame, Sent
    <3> QED
        BY <2>1, <2>7, <3>2, Zenon
  <2>8. CASE g.hash[u] # g.ver[u]
    <3>1. /\ n.hash \in Versions /\ n.mpend \in Versions /\ n.hash[u] # 0 /\ n.mpend[u] = 0
          /\ \A w \in D : w # u => n.hash[w] = h.hash[w] /\ n.mpend[w] = h.mpend[w]
        BY <2>2, <2>4, <2>5 DEF Versions
    <3>2. HostOK(n)
        BY <2>4, <2>6, <3>1, Zenon DEF HostOK
    <3>3. \A w \in D : \A v \in Nat \ {0} : HostSays(n, w, v) => HostSays(h, w, v)
        BY <2>2, <2>4, <3>1, Zenon DEF HostSays
    <3>4. Tame(n)
        BY <2>2, <2>4, <3>2, <3>3, HostFacts, Zenon DEF Tame, Sent
    <3>5. FALSE \in BOOLEAN /\ n.ver[u] # 0
        BY <2>2, <2>4, <2>5, Zenon
    <3>6. Tame(SendT2(n, u, FALSE))
        BY <2>4, <3>2, <3>4, <3>5, T2Sent, TameLike, Zenon
    <3> QED
        BY <2>1, <2>8, <3>6, Zenon
  <2> QED
      BY <2>7, <2>8
<1>2. ASSUME NEW u \in D, FlushTomb(u) PROVE \E g : Tame(g) /\ Host(g)
  <2> DEFINE g == [h EXCEPT !.tombs = @ \ {u}, !.known = @ \ {u}]
  <2>1. Host(Fast(g, "tomb", u))
      BY <1>2, Zenon DEF FlushTomb, SendTombstone
  <2>2. DOMAIN g = DOMAIN h /\ Like(h, g) /\ g.seq = h.seq /\ g.out = <<>>
      BY HostFacts DEF HostKeys, Like
  <2> HIDE DEF g
  <2>3. HostOK(g)
      BY <2>2, HostFacts, Zenon DEF HostOK, Like
  <2>4. Tame(g)
      BY <2>2, <2>3, HostFacts, Zenon DEF Tame, Sent, Like, HostSays
  <2>5. Tame(Fast(g, "tomb", u))
      BY <2>2, <2>3, <2>4, FastSent, TameLike, Zenon DEF Sent
  <2> QED
      BY <2>1, <2>5, Zenon
<1>3. ASSUME FlushScene PROVE \E g : Tame(g) /\ Host(g)
  <2> DEFINE g == [h EXCEPT !.scene = "same", !.auto = TRUE, !.dig = h.sd]
  <2>1. Host(IF h.scene = "rides" THEN Fast(g, "t1", Scene) ELSE g)
      BY <1>3, Zenon DEF FlushScene
  <2>2. DOMAIN g = DOMAIN h /\ Like(h, g) /\ g.seq = h.seq /\ g.out = <<>>
      BY HostFacts DEF HostKeys, Like
  <2> HIDE DEF g
  <2>3. HostOK(g)
      BY <2>2, HostFacts, Zenon DEF HostOK, Like
  <2>4. Tame(g)
      BY <2>2, <2>3, HostFacts, Zenon DEF Tame, Sent, Like, HostSays
  <2>5. Tame(Fast(g, "t1", Scene))
      BY <2>2, <2>3, <2>4, FastSent, TameLike, Zenon DEF Sent
  <2> QED
      BY <2>1, <2>4, <2>5, Zenon
<1>4. ASSUME AutoCovered PROVE \E g : Tame(g) /\ Host(g)
  <2> DEFINE g == [h EXCEPT !.auto = FALSE]
  <2>1. Host(g)
      BY <1>4, Zenon DEF AutoCovered
  <2>2. DOMAIN g = DOMAIN h /\ Like(h, g) /\ g.seq = h.seq /\ g.out = <<>>
      BY HostFacts DEF HostKeys, Like
  <2> HIDE DEF g
  <2>3. HostOK(g)
      BY <2>2, HostFacts, Zenon DEF HostOK, Like
  <2>4. Tame(g)
      BY <2>2, <2>3, HostFacts, Zenon DEF Tame, Sent, Like, HostSays
  <2> QED
      BY <2>1, <2>4, Zenon
<1> QED
    BY <1>1, <1>2, <1>3, <1>4, Zenon

\* The digests _prime_hashes takes are of what the running file brought.
LEMMA PrimeTame ==
    ASSUME Shape, PrimeHashes
    PROVE  \E g : Tame(g) /\ Host(g)
<1> DEFINE new == [u \in D |-> IF u \in h.prime /\ h.hash[u] = 0 THEN h.ver[u] ELSE 0]
           hash == [u \in D |-> IF new[u] # 0 THEN new[u] ELSE h.hash[u]]
           mpend == [u \in D |-> IF new[u] # 0 THEN new[u] ELSE h.mpend[u]]
           g == [h EXCEPT !.prime = {}, !.hash = hash, !.mpend = mpend]
<1>1. h.dirty = {} /\ Host(g)
    BY ZenonT(30) DEF PrimeHashes, Timer
<1>2. /\ hash \in Versions /\ mpend \in Versions
      /\ \A u \in D : mpend[u] = h.mpend[u] \/ (u \in h.prime /\ h.hash[u] = 0 /\ mpend[u] = h.ver[u])
    BY HostFacts DEF Versions
<1> HIDE DEF hash, mpend
<1>3. /\ DOMAIN g = DOMAIN h /\ g.ver = h.ver /\ g.dirty = h.dirty
      /\ g.hash = hash /\ g.mpend = mpend /\ g.sd = h.sd /\ g.gen = h.gen /\ g.end = h.end
      /\ g.queue = h.queue /\ g.prime = {} /\ g.served = h.served /\ g.seq = h.seq
      /\ g.out = <<>>
    BY HostFacts DEF HostKeys
<1> HIDE DEF g
<1>4. HostOK(g)
    BY <1>2, <1>3, HostFacts, Zenon DEF HostOK
<1>5. ASSUME NEW u \in D, NEW v \in Nat \ {0}, HostSays(g, u, v) PROVE HostSays(h, u, v)
  <2>1. mpend[u] = v
      BY <1>3, <1>5, Zenon DEF HostSays
  <2>2. u \notin h.dirty
      BY <1>1
  <2> QED
      BY <1>2, <2>1, <2>2, Zenon DEF HostSays
<1>6. Tame(g)
    BY <1>3, <1>4, <1>5, HostFacts, Zenon DEF Tame, Sent
<1> QED
    BY <1>1, <1>6, Zenon

\* The entries of the repair, and its end.
LEMMA RepairTame ==
    ASSUME Shape
    PROVE  /\ \A e \in h.queue : ResendT2(e) => \E g : Tame(g) /\ Host(g)
           /\ \A u \in h.tail : SendT1Full(u) => \E g : Tame(g) /\ Host(g)
           /\ EndDelta => \E g : Tame(g) /\ Host(g)
<1> USE DEF Timer
<1>1. ASSUME NEW e \in h.queue, ResendT2(e) PROVE \E g : Tame(g) /\ Host(g)
  <2> DEFINE u == e.u
             hash == [h.hash EXCEPT ![u] = IF h.ver[u] = 0 THEN @ ELSE h.ver[u]]
             g == [h EXCEPT !.queue = @ \ {e}, !.hash[u] = IF h.ver[u] = 0 THEN @ ELSE h.ver[u]]
  <2>1. Host(IF h.ver[u] = 0 THEN Fast(g, "tomb", u)
             ELSE IF e.expect = h.ver[u] THEN g ELSE SendT2(g, u, TRUE))
      BY <1>1, Zenon DEF ResendT2, SendTombstone
  <2>2. u \in D
      BY HostFacts
  <2> HIDE DEF u
  <2>3. /\ DOMAIN g = DOMAIN h /\ g.ver = h.ver /\ g.dirty = h.dirty
        /\ g.hash = hash /\ g.mpend = h.mpend /\ g.sd = h.sd /\ g.gen = h.gen /\ g.end = h.end
        /\ g.queue = h.queue \ {e} /\ g.prime = h.prime /\ g.served = h.served /\ g.seq = h.seq
        /\ g.out = <<>>
      BY HostFacts DEF HostKeys
  <2> HIDE DEF g
  <2>4. /\ hash \in Versions
        /\ \A w \in D : hash[w] = h.hash[w] \/ hash[w] # 0
      BY <2>2, HostFacts DEF Versions
  <2> HIDE DEF hash
  <2>5. HostOK(g)
      BY <2>3, <2>4, HostFacts, Zenon DEF HostOK
  <2>6. \A w \in D : \A v \in Nat \ {0} : HostSays(g, w, v) => HostSays(h, w, v)
      BY <2>3, <2>4, Zenon DEF HostSays
  <2>7. Tame(g)
      BY <2>3, <2>5, <2>6, HostFacts, Zenon DEF Tame, Sent
  <2>8. Tame(Fast(g, "tomb", u))
      BY <2>3, <2>5, <2>7, FastSent, TameLike, Zenon DEF Sent
  <2>9. ASSUME h.ver[u] # 0 PROVE Tame(SendT2(g, u, TRUE))
    <3>1. TRUE \in BOOLEAN /\ g.ver[u] # 0
        BY <2>3, <2>9, Zenon
    <3> QED
        BY <2>2, <2>3, <2>5, <2>7, <3>1, T2Sent, TameLike, Zenon
  <2> QED
      BY <2>1, <2>7, <2>8, <2>9, Zenon
<1>2. ASSUME NEW u \in h.tail, SendT1Full(u) PROVE \E g : Tame(g) /\ Host(g)
  <2> DEFINE g == [h EXCEPT !.tail = @ \ {u}]
  <2>1. Host(IF u = Scene \/ u \in Live(h) THEN Fast(g, "t1", u) ELSE Fast(g, "tomb", u))
      BY <1>2, Zenon DEF SendT1Full, SendTombstone
  <2>2. DOMAIN g = DOMAIN h /\ Like(h, g) /\ g.seq = h.seq /\ g.out = <<>>
      BY HostFacts DEF HostKeys, Like
  <2> HIDE DEF g
  <2>3. HostOK(g)
      BY <2>2, HostFacts, Zenon DEF HostOK, Like
  <2>4. Tame(g)
      BY <2>2, <2>3, HostFacts, Zenon DEF Tame, Sent, Like, HostSays
  <2>5. \A kind : Tame(Fast(g, kind, u))
      BY <2>2, <2>3, <2>4, FastSent, TameLike, Zenon DEF Sent
  <2> QED
      BY <2>1, <2>5, Zenon
<1>3. ASSUME EndDelta PROVE \E g : Tame(g) /\ Host(g)
  <2>1. PICK yes \in BOOLEAN : yes = TRUE
      OBVIOUS
  <2> DEFINE b == [kind |-> "end", u |-> Scene, ver |-> 0, fix |-> yes, seq |-> 0, sd |-> 0, gen |-> 0]
             m == [b EXCEPT !.seq = h.seq + 1]
             e == [h EXCEPT !.end = FALSE]
             g == [e EXCEPT !.seq = @ + 1, !.out = Append(@, [b EXCEPT !.seq = e.seq + 1])]
  <2>2. Blob("end", Scene, 0, TRUE) = b
    <3>1. Blob("end", Scene, 0, yes) = b
        BY DEF Blob
    <3> QED
        BY <2>1, <3>1, Zenon
  <2>3. m = [kind |-> "end", u |-> Scene, ver |-> 0, fix |-> yes, seq |-> h.seq + 1, sd |-> 0, gen |-> 0]
      OBVIOUS
  <2>4. m.kind = "end" /\ m.fix = TRUE
      BY <2>1, <2>3
  <2>5. h.seq + 1 \in Nat /\ 0 \in Nat /\ 0 \in Int
      BY HostFacts
  <2>6. e.seq = h.seq /\ e.out = <<>> /\ DOMAIN e = DOMAIN h /\ e.end = FALSE
      BY HostFacts DEF HostKeys
  <2>7. Host(g)
      BY <1>3, <2>2, Zenon DEF EndDelta, Cold
  <2>8. [b EXCEPT !.seq = e.seq + 1] = m
      BY <2>6
  <2> HIDE DEF b, m
  <2>9. m \in Frame
    <3>1. 0 \in Nat \union Versions /\ Scene \in D \union {Scene}
        BY <2>5, Zenon
    <3> QED
        BY <2>3, <2>5, <3>1, FrameType, Zenon DEF Frame
  <2>10. Append(<<>>, m) = <<m>>
      OBVIOUS
  <2>11. /\ DOMAIN g = DOMAIN h /\ g.ver = h.ver /\ g.dirty = h.dirty
         /\ g.hash = h.hash /\ g.mpend = h.mpend /\ g.sd = h.sd /\ g.gen = h.gen /\ g.end = FALSE
         /\ g.queue = h.queue /\ g.prime = h.prime /\ g.served = h.served /\ g.seq = h.seq + 1
         /\ g.out = <<m>>
      BY <2>6, <2>8, <2>10, HostFacts DEF HostKeys
  <2> HIDE DEF g, e
  <2>12. HostOK(g)
      BY <2>5, <2>11, HostFacts, Zenon DEF HostOK
  <2>13. FrameOK(m, g.gen) /\ Closing(m)
      BY <2>4 DEF FrameOK, Closing
  <2>14. \A w \in D : \A v \in Nat \ {0} : HostSays(g, w, v) => HostSays(h, w, v)
      BY <2>11, Zenon DEF HostSays
  <2>15. m.kind # "boot"
      BY <2>4
  <2>16. Tame(g)
      BY <2>9, <2>11, <2>12, <2>13, <2>14, <2>15, HostFacts, Zenon DEF Tame, Sent
  <2> QED
      BY <2>7, <2>16, Zenon
<1> QED
    BY <1>1, <1>2, <1>3, Zenon

\* A batch says what the host has said until then.
LEMMA BatchStep ==
    ASSUME Shape, SendManifestBatch
    PROVE  Shape' /\ (OneFile => OneFile') /\ (Pledge => Pledge')
<1> DEFINE b == [gen |-> h.gen, held |-> h.mpend]
<1>1. /\ h' = [h EXCEPT !.mpend = Empty] /\ ctl' = ctl \union {b}
      /\ r' = r /\ cold' = cold /\ pong' = pong
    BY DEF SendManifestBatch
<1>2. /\ DOMAIN h' = DOMAIN h /\ h'.ver = h.ver /\ h'.dirty = h.dirty
      /\ h'.hash = h.hash /\ h'.mpend = Empty /\ h'.sd = h.sd /\ h'.gen = h.gen /\ h'.end = h.end
      /\ h'.queue = h.queue /\ h'.prime = h.prime /\ h'.served = h.served /\ h'.seq = h.seq
      /\ h'.out = <<>>
    BY <1>1, HostFacts DEF HostKeys
<1>3. Empty \in Versions /\ \A u \in D : Empty[u] = 0
    BY DEF Empty, Versions
<1>4. b.gen = h.gen /\ b.held = h.mpend
    OBVIOUS
<1>5. b.gen \in Int /\ b.gen <= h.gen /\ b.held \in Versions
    BY <1>4, HostFacts
<1> HIDE DEF b
<1>6. Shape'
  <2>1. HostOK(h')
      BY <1>2, <1>3, HostFacts, Zenon DEF HostOK
  <2>2. \A c \in ctl' : c.gen \in Int /\ c.gen <= h'.gen /\ c.held \in Versions
      BY <1>1, <1>2, <1>5, Zenon DEF Shape
  <2> QED
      BY <1>1, <1>2, <2>1, <2>2, Zenon DEF Shape
<1>7. ASSUME OneFile PROVE OneFile'
  <2>1. ASSUME NEW u \in D, NEW n \in Int, NEW v \in Nat \ {0}, Says(n, u, v)'
        PROVE  Says(n, u, v)
    <3>1. CASE h'.gen = n /\ HostSays(h', u, v)
      <4>1. HostSays(h, u, v)
          BY <1>2, <1>3, <3>1, Zenon DEF HostSays
      <4> QED
          BY <1>2, <3>1, <4>1, Zenon DEF Says
    <3>2. CASE \E c \in ctl' : BatchSays(c, n, u, v)
      <4>1. PICK c \in ctl' : BatchSays(c, n, u, v)
          BY <3>2
      <4>2. CASE c = b
          BY <1>4, <4>1, <4>2, Zenon DEF BatchSays, HostSays, Says
      <4>3. CASE c \in ctl
          BY <4>1, <4>3, Zenon DEF Says
      <4> QED
          BY <1>1, <4>2, <4>3, Zenon
    <3> QED
        BY <1>1, <2>1, <3>1, <3>2, Zenon DEF Says
  <2> QED
      BY <1>7, <2>1, NothingNewSaid, Zenon
<1>8. ASSUME Pledge PROVE Pledge'
    BY <1>1, <1>2, <1>8, Zenon DEF Pledge
<1> QED
    BY <1>6, <1>7, <1>8

\* The file on request, and the file the artist's restructuring asks for.
LEMMA FileSteps ==
    ASSUME Shape, ForceResync \/ AutoBoot
    PROVE  Shape' /\ (OneFile => OneFile') /\ (Pledge => Pledge')
<1>1. CASE ForceResync
  <2>1. Host(SendBootstrap(h, Repairing)) /\ UNCHANGED <<r, ctl, pong>>
      BY <1>1 DEF ForceResync
  <2>2. Repairing \in BOOLEAN /\ (~Repairing => ~h.end)
      BY DEF Repairing
  <2> QED
      BY <2>1, <2>2, HostFacts, BootStep, Zenon
<1>2. CASE AutoBoot
  <2> DEFINE g == [h EXCEPT !.auto = FALSE]
  <2>1. Host(SendBootstrap(g, FALSE)) /\ UNCHANGED <<r, ctl, pong>> /\ ~h.end
      BY <1>2, Zenon DEF AutoBoot, Timer, Repairing
  <2>2. DOMAIN g = DOMAIN h /\ Like(h, g) /\ g.seq = h.seq /\ g.out = <<>>
      BY HostFacts DEF HostKeys, Like
  <2> HIDE DEF g
  <2>3. HostOK(g) /\ g.gen = h.gen /\ g.served = h.served
      BY <2>2, HostFacts, Zenon DEF HostOK, Like
  <2>4. FALSE \in BOOLEAN
      OBVIOUS
  <2> QED
      BY <2>1, <2>2, <2>3, <2>4, HostFacts, BootStep, Zenon
<1> QED
    BY <1>1, <1>2

\* delta_state: only the digest, the request and the manifest change.
LEMMA StateLike ==
    ASSUME Shape, NEW s, NEW late
    PROVE  LET g == DeltaState(h, s, late)[1] IN Like(h, g) /\ HostOK(g) /\ g.out = <<>>
<1> DEFINE n == [h EXCEPT !.dig = h.sd]
           Good(g) == DOMAIN g = DOMAIN h /\ Like(h, g) /\ g.seq = h.seq /\ g.out = <<>>
<1>1. Good(n)
    BY HostFacts DEF HostKeys, Like
<1> HIDE DEF n
<1>2. HostKeys \subseteq DOMAIN n
    BY <1>1, HostFacts
<1>3. \A q : Good([n EXCEPT !.req = q])
    BY <1>1, <1>2 DEF HostKeys, Like
<1>4. \A q, m : Good([n EXCEPT !.req = q, !.manifest = m])
    BY <1>1, <1>2 DEF HostKeys, Like
<1>5. ASSUME NEW g, Good(g) PROVE HostOK(g)
    BY <1>5, HostFacts, Zenon DEF HostOK, Like
<1>6. Good(DeltaState(h, s, late)[1])
  <2> HIDE DEF Good
  <2> QED
      BY <1>1, <1>3, <1>4 DEF DeltaState, n
<1> QED
    BY <1>5, <1>6

\* send_delta: the repair is under way.
LEMMA DeltaSent ==
    ASSUME NEW g, HostOK(g), NEW plan, plan.resend \union plan.verify \subseteq D
    PROVE  LET n == SendDelta(g, plan)
           IN  /\ HostOK(n) /\ n.end /\ n.out = g.out /\ n.gen = g.gen /\ n.served = g.served
               /\ \A u \in D : \A v : HostSays(n, u, v) => HostSays(g, u, v)
<1> DEFINE gone == SetToSeq(plan.tombs)
           fout == g.fout \o [i \in 1..Len(gone) |-> FastMsg(g, "tomb", gone[i], g.fseq + i)]
           fseq == g.fseq + Len(gone)
           queue == {[u |-> u, expect |-> g.manifest.held[u]] : u \in plan.resend \union plan.verify}
           tail == {Scene} \union plan.at
           n == [g EXCEPT !.fseq = fseq, !.fout = fout, !.queue = queue, !.tail = tail,
                          !.end = TRUE, !.manifest = None]
<1>1. HostKeys \subseteq DOMAIN g
    BY DEF HostOK
<1>2. \A e \in queue : e.u \in D
    OBVIOUS
<1>3. n = SendDelta(g, plan)
    BY DEF SendDelta
<1> HIDE DEF fout, fseq, queue, tail
<1>4. /\ DOMAIN n = DOMAIN g /\ n.ver = g.ver /\ n.dirty = g.dirty
      /\ n.hash = g.hash /\ n.mpend = g.mpend /\ n.sd = g.sd /\ n.gen = g.gen /\ n.end = TRUE
      /\ n.queue = queue /\ n.prime = g.prime /\ n.served = g.served /\ n.seq = g.seq
      /\ n.out = g.out
    BY <1>1 DEF HostKeys
<1> HIDE DEF n
<1>5. HostOK(n)
    BY <1>2, <1>4, Zenon DEF HostOK
<1>6. \A u \in D : \A v : HostSays(n, u, v) => HostSays(g, u, v)
    BY <1>4, Zenon DEF HostSays
<1> QED
    BY <1>3, <1>4, <1>5, <1>6, Zenon

\* The watch: a plan, a file, or nothing yet.
LEMMA WatchStep ==
    ASSUME Shape, NEW late, NEW limited, Watch(late, limited)
    PROVE  Shape' /\ (OneFile => OneFile') /\ (Pledge => Pledge')
<1> DEFINE d == DeltaState(h, pong, late)
           g == d[1]
           n == Served(g, pong)
<1>1. pong.want /\ Host(Answer(g, pong, d[2], limited)) /\ UNCHANGED <<r, ctl, pong>>
    BY DEF Watch, Timer
<1>2. Like(h, g) /\ HostOK(g) /\ g.out = <<>>
    BY StateLike
<1> HIDE DEF d, g
<1>3. HostKeys \subseteq DOMAIN g /\ Past(pong.state, r)
    BY <1>1, <1>2 DEF Shape, HostOK
<1>4. \A s : LET k == [g EXCEPT !.served = s]
             IN  /\ DOMAIN k = DOMAIN g /\ k.ver = g.ver /\ k.dirty = g.dirty
                 /\ k.hash = g.hash /\ k.mpend = g.mpend /\ k.sd = g.sd /\ k.gen = g.gen
                 /\ k.end = g.end /\ k.queue = g.queue /\ k.prime = g.prime /\ k.seq = g.seq
                 /\ k.out = <<>> /\ k.served = s
    BY <1>2, <1>3 DEF HostKeys
<1>5. \A s : LET k == [g EXCEPT !.served = s]
             IN  /\ HostOK(k) /\ k.out = <<>> /\ k.gen = h.gen /\ k.served = s
                 /\ \A u \in D : \A v : HostSays(k, u, v) => HostSays(h, u, v)
  <2> TAKE s
  <2> DEFINE k == [g EXCEPT !.served = s]
  <2>1. /\ DOMAIN k = DOMAIN g /\ k.ver = g.ver /\ k.dirty = g.dirty
        /\ k.hash = g.hash /\ k.mpend = g.mpend /\ k.sd = g.sd /\ k.gen = g.gen
        /\ k.end = g.end /\ k.queue = g.queue /\ k.prime = g.prime /\ k.seq = g.seq
        /\ k.out = <<>> /\ k.served = s
      BY <1>4
  <2> HIDE DEF k
  <2>2. HostOK(k)
      BY <1>2, <2>1, Zenon DEF HostOK
  <2>3. k.gen = h.gen /\ \A u \in D : \A v : HostSays(k, u, v) => HostSays(h, u, v)
      BY <1>2, <2>1, Zenon DEF Like, HostSays
  <2> QED
      BY <2>1, <2>2, <2>3, Zenon DEF k
<1>6. Tame(g)
    BY <1>2, HostFacts, Zenon DEF Tame, Sent, Like, HostSays
<1>7. Past(None, r)
    BY DEF Past
<1>8. Tame([g EXCEPT !.served = None])
    BY <1>5, <1>7, Zenon DEF Tame, Sent
<1>9. /\ HostOK(n) /\ n.out = <<>> /\ n.gen = h.gen /\ n.served = pong.state
      /\ \A u \in D : \A v : HostSays(n, u, v) => HostSays(h, u, v)
    BY <1>5, Zenon DEF Served
<1>10. ASSUME PlanDelta(g, pong.lane) # None
       PROVE  Tame(SendDelta(n, PlanDelta(g, pong.lane)))
  <2>1. PICK plan : plan = PlanDelta(g, pong.lane)
      OBVIOUS
  <2>2. plan.resend \union plan.verify \subseteq D
      BY <1>10, <2>1 DEF PlanDelta, Live
  <2>3. LET k == SendDelta(n, plan)
        IN  /\ HostOK(k) /\ k.end /\ k.out = n.out /\ k.gen = n.gen /\ k.served = n.served
            /\ \A u \in D : \A v : HostSays(k, u, v) => HostSays(n, u, v)
      BY <1>9, <2>2, DeltaSent
  <2> QED
      BY <1>3, <1>9, <2>1, <2>3, Zenon DEF Tame, Sent
<1>11. CASE Host(SendBootstrap(n, TRUE))
  <2>1. TRUE \in BOOLEAN
      OBVIOUS
  <2> QED
      BY <1>1, <1>3, <1>9, <1>11, <2>1, BootStep, Zenon
<1>12. CASE \E k : Tame(k) /\ Host(k)
    BY <1>1, <1>12, TameStep, Zenon
<1> QED
    BY <1>1, <1>6, <1>8, <1>10, <1>11, <1>12, Zenon DEF Answer

-----------------------------------------------------------------------------
(* The replica                                                             *)

\* What is left of the lane when its first frame is gone.
LEMMA OneLess ==
    ASSUME cold \in Seq(Frame), cold # <<>>, NEW q, q = Tail(cold)
    PROVE  /\ q \in Seq(Frame) /\ 1 \in 1..Len(cold) /\ Head(cold) = cold[1]
           /\ \A i \in 1..Len(q) : \E j \in 1..Len(cold) : q[i] = cold[j]
           /\ \A j \in 1..Len(cold) : j = 1 \/ \E i \in 1..Len(q) : q[i] = cold[j]
<1>1. q \in Seq(Frame) /\ Len(q) = Len(cold) - 1 /\ Len(cold) \in Nat \ {0}
    OBVIOUS
<1>2. \A i \in 1..Len(q) : q[i] = cold[i + 1] /\ i + 1 \in 1..Len(cold)
    BY <1>1
<1>3. \A j \in 1..Len(cold) : j = 1 \/ (j - 1 \in 1..Len(q) /\ (j - 1) + 1 = j)
    BY <1>1
<1>4. 1 \in 1..Len(cold) /\ Head(cold) = cold[1]
    BY <1>1
<1> QED
    BY <1>1, <1>2, <1>3, <1>4, Zenon

\* The cold lane stays or loses its first frame.
Shrinks == cold' = cold \/ (cold # <<>> /\ cold' = Tail(cold))

\* A step that changes the replica and takes from the lanes.
LEMMA TakeStep ==
    ASSUME Shape, UNCHANGED <<h, pong>>, ctl' \subseteq ctl, Shrinks, ReplicaOK(r', h.gen),
           r.boots <= r'.boots, r.resyncs <= r'.resyncs,
           \A u \in D : \A n \in Int : \A v \in Nat \ {0} : ReplicaSays(r', n, u, v) => Says(n, u, v)
    PROVE  Shape' /\ (OneFile => OneFile')
<1>1. /\ cold' \in Seq(Frame)
      /\ \A i \in 1..Len(cold') : \E j \in 1..Len(cold) : cold'[i] = cold[j]
  <2>1. cold \in Seq(Frame)
      BY Zenon DEF Shape
  <2>2. CASE cold' = cold
      BY <2>1, <2>2, Zenon
  <2>3. CASE cold # <<>> /\ cold' = Tail(cold)
    <3>1. PICK q : q = cold'
        OBVIOUS
    <3>2. q = Tail(cold) /\ cold # <<>>
        BY <2>3, <3>1
    <3>3. q \in Seq(Frame) /\ \A i \in 1..Len(q) : \E j \in 1..Len(cold) : q[i] = cold[j]
        BY <2>1, <3>2, OneLess
    <3> QED
        BY <3>1, <3>3, Zenon
  <2> QED
      BY <2>2, <2>3 DEF Shrinks
<1>2. ASSUME NEW s, Past(s, r) PROVE Past(s, r')
    BY <1>2 DEF Past, Shape, ReplicaOK
<1>3. Shape'
  <2>1. \A i \in 1..Len(cold') : FrameOK(cold'[i], h'.gen)
      BY <1>1, Zenon DEF Shape
  <2>2. Past(h'.served, r') /\ (pong'.want => Past(pong'.state, r'))
      BY <1>2, Zenon DEF Shape
  <2>3. HostOK(h') /\ h'.out = <<>> /\ ReplicaOK(r', h'.gen)
      BY Zenon DEF Shape
  <2>4. \A b \in ctl' : b.gen \in Int /\ b.gen <= h'.gen /\ b.held \in Versions
      BY Zenon DEF Shape
  <2> QED
      BY <1>1, <2>1, <2>2, <2>3, <2>4, Zenon DEF Shape
<1>4. ASSUME OneFile PROVE OneFile'
  <2>1. ASSUME NEW u \in D, NEW n \in Int, NEW v \in Nat \ {0}, Says(n, u, v)'
        PROVE  Says(n, u, v)
    <3>1. CASE h'.gen = n /\ HostSays(h', u, v)
        BY <3>1, Zenon DEF Says
    <3>2. CASE \E i \in 1..Len(cold') : FrameSays(cold'[i], n, u, v)
        BY <1>1, <3>2, Zenon DEF Says
    <3>3. CASE \E b \in ctl' : BatchSays(b, n, u, v)
        BY <3>3, Zenon DEF Says
    <3> QED
        BY <2>1, <3>1, <3>2, <3>3, Zenon DEF Says
  <2> QED
      BY <1>4, <2>1, NothingNewSaid, Zenon
<1> QED
    BY <1>3, <1>4

\* The pledge outlives a frame that closes nothing, and it is redeemed by
\* one that does: the counts are past the wish then.
LEMMA PledgeStep ==
    ASSUME Shape, h' = h, Shrinks, ReplicaOK(r', h.gen), Pledge,
           \/ r'.missed
           \/ /\ r'.boots = r.boots /\ r'.resyncs = r.resyncs /\ r'.missed = r.missed
              /\ cold' = cold \/ ~Closing(Head(cold))
           \/ r'.boots > r.boots \/ r'.resyncs > r.resyncs
    PROVE  Pledge'
<1>1. CASE r'.boots > r.boots \/ r'.resyncs > r.resyncs
  <2>1. h.served # <<r'.boots, r'.resyncs>>
    <3> SUFFICES ASSUME h.served = <<r'.boots, r'.resyncs>> PROVE FALSE
        OBVIOUS
    <3>1. r'.boots \in Nat /\ r'.resyncs \in Nat /\ r.boots \in Nat /\ r.resyncs \in Nat
        BY DEF Shape, ReplicaOK
    <3>2. h.served # None
        BY <3>1, NoneAssumption
    <3>3. r'.boots <= r.boots /\ r'.resyncs <= r.resyncs
        BY <3>2 DEF Shape, Past
    <3> QED
        BY <1>1, <3>1, <3>3
  <2> QED
      BY <2>1, Zenon DEF Pledge
<1>2. CASE /\ r'.boots = r.boots /\ r'.resyncs = r.resyncs /\ r'.missed = r.missed
           /\ cold' = cold \/ ~Closing(Head(cold))
  <2>1. CASE cold' = cold
      BY <1>2, <2>1, Zenon DEF Pledge
  <2>2. CASE cold # <<>> /\ cold' = Tail(cold) /\ ~Closing(Head(cold))
    <3>1. PICK q : q = cold'
        OBVIOUS
    <3>2. q = Tail(cold) /\ cold # <<>> /\ cold \in Seq(Frame)
        BY <2>2, <3>1 DEF Shape
    <3>3. /\ Head(cold) = cold[1]
          /\ \A j \in 1..Len(cold) : j = 1 \/ \E i \in 1..Len(q) : q[i] = cold[j]
        BY <3>2, OneLess
    <3>4. (\E j \in 1..Len(cold) : Closing(cold[j])) => \E i \in 1..Len(q) : Closing(q[i])
        BY <2>2, <3>3, Zenon
    <3> QED
        BY <1>2, <3>1, <3>4, Zenon DEF Pledge
  <2> QED
      BY <1>2, <2>1, <2>2, Zenon DEF Shrinks
<1>3. CASE r'.missed
    BY <1>3, Zenon DEF Pledge
<1> QED
    BY <1>1, <1>2, <1>3

\* The fields that fast messages leave alone, and what they make of the rest.
LEMMA FastApplied ==
    ASSUME NEW p, ReplicaKeys \subseteq DOMAIN p, p.ver \in Versions, p.held \in Versions, NEW msgs
    PROVE  LET q == ApplyFast(p, msgs)
           IN  /\ DOMAIN q = DOMAIN p /\ q.ver \in Versions /\ q.held \in Versions
               /\ q.gen = p.gen /\ q.boots = p.boots /\ q.resyncs = p.resyncs /\ q.missed = p.missed
               /\ \A u \in D : \/ q.ver[u] = p.ver[u] /\ q.held[u] = p.held[u]
                               \/ q.ver[u] = 0
<1> DEFINE gone == Buried(p, msgs)
           ver == [u \in D |-> IF u \in gone THEN 0 ELSE p.ver[u]]
           held == [u \in D |-> IF u \in gone THEN 0 ELSE p.held[u]]
           dig == Digest(p, msgs)
           lost == MeetsUnknown(p, msgs)
           q == [p EXCEPT !.ver = ver, !.held = held, !.dig = dig,
                          !.unknown = @ \/ lost, !.want = @ \/ lost]
<1>1. q = ApplyFast(p, msgs)
    BY DEF ApplyFast
<1> HIDE DEF gone, dig, lost
<1>2. /\ ver \in Versions /\ held \in Versions
      /\ \A u \in D : (ver[u] = p.ver[u] /\ held[u] = p.held[u]) \/ ver[u] = 0
    BY DEF Versions
<1> HIDE DEF ver, held
<1>3. /\ DOMAIN q = DOMAIN p /\ q.ver = ver /\ q.held = held
      /\ q.gen = p.gen /\ q.boots = p.boots /\ q.resyncs = p.resyncs /\ q.missed = p.missed
    BY DEF ReplicaKeys
<1> HIDE DEF q
<1> QED
    BY <1>1, <1>2, <1>3, Zenon

\* cold_done is the same for what the invariant speaks of.
LEMMA DoneApplied ==
    ASSUME NEW p, ReplicaKeys \subseteq DOMAIN p, p.ver \in Versions, p.held \in Versions, NEW seq
    PROVE  LET q == Done(p, seq)
           IN  /\ DOMAIN q = DOMAIN p /\ q.ver \in Versions /\ q.held \in Versions
               /\ q.gen = p.gen /\ q.boots = p.boots /\ q.resyncs = p.resyncs /\ q.missed = p.missed
               /\ \A u \in D : \/ q.ver[u] = p.ver[u] /\ q.held[u] = p.held[u]
                               \/ q.ver[u] = 0
<1> DEFINE mg == ColdDone(p.mg, seq)
           k == [p EXCEPT !.mg = mg]
           due == Due(p.mg, seq)
<1>1. Done(p, seq) = ApplyFast(k, due)
    BY DEF Done
<1> HIDE DEF mg, due
<1>2. /\ DOMAIN k = DOMAIN p /\ k.ver = p.ver /\ k.held = p.held
      /\ k.gen = p.gen /\ k.boots = p.boots /\ k.resyncs = p.resyncs /\ k.missed = p.missed
    BY DEF ReplicaKeys
<1> HIDE DEF k
<1>3. LET q == ApplyFast(k, due)
      IN  /\ DOMAIN q = DOMAIN k /\ q.ver \in Versions /\ q.held \in Versions
          /\ q.gen = k.gen /\ q.boots = k.boots /\ q.resyncs = k.resyncs /\ q.missed = k.missed
          /\ \A u \in D : \/ q.ver[u] = k.ver[u] /\ q.held[u] = k.held[u]
                          \/ q.ver[u] = 0
    BY <1>2, FastApplied, Zenon
<1> QED
    BY <1>1, <1>2, <1>3, Zenon

\* What the replica's state and the first frame of the lane are.
LEMMA ReplicaFacts ==
    ASSUME Shape
    PROVE  /\ ReplicaKeys \subseteq DOMAIN r /\ r.ver \in Versions /\ r.held \in Versions
           /\ r.boots \in Nat /\ r.resyncs \in Nat
           /\ (r.gen # None => r.gen \in Int /\ r.gen <= h.gen)
           /\ (cold # <<>> => /\ Head(cold) \in Frame /\ FrameOK(Head(cold), h.gen)
                              /\ \A n, u, v : FrameSays(Head(cold), n, u, v) => Says(n, u, v))
<1>1. /\ ReplicaKeys \subseteq DOMAIN r /\ r.ver \in Versions /\ r.held \in Versions
      /\ r.boots \in Nat /\ r.resyncs \in Nat
      /\ (r.gen # None => r.gen \in Int /\ r.gen <= h.gen)
    BY Zenon DEF Shape, ReplicaOK
<1>2. ASSUME cold # <<>>
      PROVE  /\ Head(cold) \in Frame /\ FrameOK(Head(cold), h.gen)
             /\ \A n, u, v : FrameSays(Head(cold), n, u, v) => Says(n, u, v)
  <2>1. cold \in Seq(Frame) /\ \A i \in 1..Len(cold) : FrameOK(cold[i], h.gen)
      BY Zenon DEF Shape
  <2>2. 1 \in 1..Len(cold) /\ Head(cold) = cold[1] /\ Head(cold) \in Frame
      BY <1>2, <2>1
  <2> QED
      BY <2>1, <2>2, Zenon DEF Says
<1> QED
    BY <1>1, <1>2

\* A frame is applied, or fails to be.
LEMMA ColdTaken ==
    ASSUME Shape, NEW fails \in BOOLEAN, TakeCold(fails)
    PROVE  Shape' /\ (OneFile => OneFile') /\ (Pledge => Pledge') /\ (InventoryTrue => InventoryTrue')
<1>1. PICK m : m = Head(cold)
    OBVIOUS
<1> DEFINE want == r.want \/ ~Contiguous(r.mg.cold, m.seq)
           seen == Observe(r.mg.cold, m.seq)
           p == [r EXCEPT !.want = want, !.mg.cold = seen]
           k == CASE fails -> Raised(p, m)
                  [] ~fails /\ m.kind = "boot" -> ApplyBoot(p, m)
                  [] ~fails /\ m.kind = "end" -> EndResync(p)
                  [] ~fails /\ m.kind = "t2" -> ApplyT2(p, m)
<1>2. /\ cold # <<>> /\ cold' = Tail(cold) /\ r' = Done(k, m.seq)
      /\ h' = h /\ ctl' = ctl /\ pong' = pong /\ (fails => m.kind # "end")
  <2>1. Observed(r, m.seq) = p
      BY DEF Observed
  <2> HIDE DEF p
  <2> QED
      BY <1>1, <2>1, Zenon DEF TakeCold
<1>3. /\ m \in Frame /\ FrameOK(m, h.gen)
      /\ \A n, u, v : FrameSays(m, n, u, v) => Says(n, u, v)
    BY <1>1, <1>2, ReplicaFacts, Zenon
<1>4. m.kind \in {"t2", "boot", "end"} /\ m.gen \in Int
    BY <1>3 DEF Frame
<1> HIDE DEF want, seen
<1>5. /\ DOMAIN p = DOMAIN r /\ p.ver = r.ver /\ p.held = r.held
      /\ p.gen = r.gen /\ p.boots = r.boots /\ p.resyncs = r.resyncs /\ p.missed = r.missed
    BY ReplicaFacts DEF ReplicaKeys
<1> HIDE DEF p
<1>6. ReplicaKeys \subseteq DOMAIN p
    BY <1>5, ReplicaFacts
<1>7. /\ DOMAIN k = DOMAIN r /\ k.ver \in Versions /\ k.held \in Versions
      /\ \/ /\ m.kind = "boot" /\ k.boots = r.boots + 1 /\ k.resyncs = r.resyncs
            /\ k.ver = m.ver /\ k.gen = m.gen /\ \A u \in D : k.held[u] = 0
         \/ /\ k.gen = r.gen /\ k.boots = r.boots
            /\ \/ m.kind = "end" /\ k.resyncs = r.resyncs + 1
               \/ m.kind = "boot" /\ k.resyncs = r.resyncs /\ k.missed
               \/ m.kind = "t2" /\ k.resyncs = r.resyncs /\ k.missed = r.missed
            /\ \A u \in D : \/ k.ver[u] = r.ver[u] /\ k.held[u] = r.held[u]
                            \/ k.ver[u] = k.held[u] /\ k.held[u] # 0
  <2>1. CASE m.kind = "boot" /\ ~fails
    <3>1. k = ApplyBoot(p, m)
        BY <2>1
    <3>2. PICK mg : mg = ClearColdGap(p.mg)
        OBVIOUS
    <3>3. k = [p EXCEPT !.ver = m.ver, !.sd = m.sd, !.dig = m.sd, !.held = Empty, !.gen = m.gen,
                        !.failed = {}, !.missed = FALSE, !.want = FALSE, !.unknown = FALSE, !.boots = @ + 1, !.mg = mg]
        BY <3>1, <3>2 DEF ApplyBoot
    <3> HIDE DEF k
    <3>4. /\ DOMAIN k = DOMAIN p /\ k.ver = m.ver /\ k.held = Empty /\ k.gen = m.gen
          /\ k.boots = p.boots + 1 /\ k.resyncs = p.resyncs
        BY <1>6, <3>3 DEF ReplicaKeys
    <3>5. Empty \in Versions /\ \A u \in D : Empty[u] = 0
        BY DEF Empty, Versions
    <3>6. m.ver \in Versions
        BY <1>3, <2>1, Zenon DEF FrameOK
    <3> QED
        BY <1>5, <2>1, <3>4, <3>5, <3>6, Zenon
  <2>2. CASE m.kind = "end"
    <3>1. k = EndResync(p)
        BY <1>2, <2>2
    <3>2. PICK mg : mg = ClearColdGap(p.mg)
        OBVIOUS
    <3>3. k = [p EXCEPT !.mg = mg, !.unknown = FALSE, !.want = FALSE, !.resyncs = @ + 1]
        BY <3>1, <3>2 DEF EndResync
    <3> HIDE DEF k
    <3>4. /\ DOMAIN k = DOMAIN p /\ k.ver = p.ver /\ k.held = p.held /\ k.gen = p.gen
          /\ k.boots = p.boots /\ k.resyncs = p.resyncs + 1
        BY <1>6, <3>3 DEF ReplicaKeys
    <3> QED
        BY <1>5, <2>2, <3>4, ReplicaFacts, Zenon
  <2>3. CASE m.kind = "t2" /\ fails
    <3>1. k = [p EXCEPT !.failed = @ \union {m.u}]
        BY <2>3 DEF Raised
    <3>2. /\ DOMAIN k = DOMAIN p /\ k.ver = p.ver /\ k.held = p.held /\ k.gen = p.gen
          /\ k.boots = p.boots /\ k.resyncs = p.resyncs /\ k.missed = p.missed
        BY <1>6, <3>1 DEF ReplicaKeys
    <3> QED
        BY <1>5, <2>3, <3>2, ReplicaFacts, Zenon
  <2>4. CASE m.kind = "t2" /\ ~fails
    <3>1. k = [p EXCEPT !.ver[m.u] = m.ver, !.held[m.u] = m.ver, !.failed = @ \ {m.u}]
        BY <2>4 DEF ApplyT2
    <3> HIDE DEF k
    <3>2. /\ DOMAIN k = DOMAIN p /\ k.ver = [p.ver EXCEPT ![m.u] = m.ver]
          /\ k.held = [p.held EXCEPT ![m.u] = m.ver] /\ k.gen = p.gen
          /\ k.boots = p.boots /\ k.resyncs = p.resyncs /\ k.missed = p.missed
        BY <1>6, <3>1 DEF ReplicaKeys
    <3>3. m.u \in D /\ m.ver \in Nat \ {0}
        BY <1>3, <2>4, Zenon DEF FrameOK
    <3>4. /\ k.ver \in Versions /\ k.held \in Versions
          /\ \A u \in D : \/ k.ver[u] = r.ver[u] /\ k.held[u] = r.held[u]
                          \/ k.ver[u] = k.held[u] /\ k.held[u] # 0
      <4>1. p.ver \in [D -> Nat] /\ p.held \in [D -> Nat]
          BY <1>5, ReplicaFacts DEF Versions
      <4>2. /\ k.ver \in [D -> Nat] /\ k.ver[m.u] = m.ver
            /\ \A u \in D : u # m.u => k.ver[u] = p.ver[u]
          BY <3>2, <3>3, <4>1
      <4>3. /\ k.held \in [D -> Nat] /\ k.held[m.u] = m.ver
            /\ \A u \in D : u # m.u => k.held[u] = p.held[u]
          BY <3>2, <3>3, <4>1
      <4>4. m.ver # 0
          BY <3>3
      <4> QED
          BY <1>5, <4>2, <4>3, <4>4, Zenon DEF Versions
    <3> QED
        BY <1>5, <2>4, <3>2, <3>4, Zenon
  <2>5. CASE m.kind = "boot" /\ fails
    <3>1. k = [p EXCEPT !.missed = TRUE]
        BY <2>5 DEF Raised
    <3>2. /\ DOMAIN k = DOMAIN p /\ k.ver = p.ver /\ k.held = p.held /\ k.gen = p.gen
          /\ k.boots = p.boots /\ k.resyncs = p.resyncs /\ k.missed = TRUE
        BY <1>6, <3>1 DEF ReplicaKeys
    <3> QED
        BY <1>5, <2>5, <3>2, ReplicaFacts, Zenon
  <2> QED
      BY <1>4, <2>1, <2>2, <2>3, <2>4, <2>5
<1> HIDE DEF k
<1>8. PICK q : q = r'
    OBVIOUS
<1>9. /\ DOMAIN q = DOMAIN k /\ q.ver \in Versions /\ q.held \in Versions
      /\ q.gen = k.gen /\ q.boots = k.boots /\ q.resyncs = k.resyncs /\ q.missed = k.missed
      /\ \A u \in D : \/ q.ver[u] = k.ver[u] /\ q.held[u] = k.held[u]
                      \/ q.ver[u] = 0
  <2>1. q = Done(k, m.seq) /\ ReplicaKeys \subseteq DOMAIN k
      BY <1>2, <1>7, <1>8, ReplicaFacts
  <2> QED
      BY <1>7, <2>1, DoneApplied
<1>10. ReplicaOK(q, h.gen)
  <2>1. q.boots \in Nat /\ q.resyncs \in Nat
      BY <1>7, <1>9, ReplicaFacts
  <2>2. q.gen # None => q.gen \in Int /\ q.gen <= h.gen
      BY <1>3, <1>4, <1>7, <1>9, ReplicaFacts, Zenon DEF FrameOK
  <2> QED
      BY <1>7, <1>9, <2>1, <2>2, ReplicaFacts, Zenon DEF ReplicaOK
<1>11. ASSUME NEW u \in D, NEW n \in Int, NEW v \in Nat \ {0}, ReplicaSays(q, n, u, v)
       PROVE  Says(n, u, v)
  <2>1. q.gen # None /\ q.gen = n /\ q.held[u] = 0 /\ q.ver[u] = v /\ v # 0
      BY <1>11 DEF ReplicaSays
  <2>2. k.gen # None /\ k.gen = n /\ k.held[u] = 0 /\ k.ver[u] = v
      BY <1>9, <2>1, Zenon
  <2>3. FrameSays(m, n, u, v) \/ ReplicaSays(r, n, u, v)
      BY <1>7, <2>1, <2>2, Zenon DEF FrameSays, ReplicaSays
  <2> QED
      BY <1>3, <2>3, Zenon DEF Says
<1>12. r.boots <= q.boots /\ r.resyncs <= q.resyncs
    BY <1>7, <1>9, ReplicaFacts
<1>13. Shape' /\ (OneFile => OneFile')
  <2>1. Shrinks /\ UNCHANGED <<h, pong>> /\ ctl' \subseteq ctl
      BY <1>2 DEF Shrinks
  <2> QED
      BY <1>8, <1>10, <1>11, <1>12, <2>1, TakeStep, Zenon
<1>14. ASSUME Pledge PROVE Pledge'
  <2>1. \/ q.boots > r.boots \/ q.resyncs > r.resyncs \/ q.missed
        \/ q.boots = r.boots /\ q.resyncs = r.resyncs /\ q.missed = r.missed /\ ~Closing(Head(cold))
      BY <1>1, <1>7, <1>9, ReplicaFacts DEF Closing
  <2>2. Shrinks
      BY <1>2 DEF Shrinks
  <2> QED
      BY <1>2, <1>8, <1>10, <1>14, <2>1, <2>2, PledgeStep, Zenon
<1>15. ASSUME InventoryTrue PROVE InventoryTrue'
  <2>1. ASSUME NEW u \in D, q.held[u] # 0, q.ver[u] # 0 PROVE q.held[u] = q.ver[u]
      BY <1>7, <1>9, <1>15, <2>1, Zenon DEF InventoryTrue
  <2> QED
      BY <1>8, <2>1, Zenon DEF InventoryTrue
<1> QED
    BY <1>13, <1>14, <1>15

\* A delta or a tombstone is applied, or parked.
LEMMA FastTaken ==
    ASSUME Shape, TakeFast
    PROVE  Shape' /\ (OneFile => OneFile') /\ (Pledge => Pledge') /\ (InventoryTrue => InventoryTrue')
<1>1. PICK q : q = r'
    OBVIOUS
<1>2. /\ h' = h /\ cold' = cold /\ ctl' = ctl /\ pong' = pong
      /\ q = IF Admissible(r.mg, Head(fast)) THEN ApplyFast(r, {Head(fast)})
             ELSE [r EXCEPT !.mg = Park(@, Head(fast))]
    BY <1>1, Zenon DEF TakeFast
<1>3. /\ DOMAIN q = DOMAIN r /\ q.ver \in Versions /\ q.held \in Versions
      /\ q.gen = r.gen /\ q.boots = r.boots /\ q.resyncs = r.resyncs /\ q.missed = r.missed
      /\ \A u \in D : \/ q.ver[u] = r.ver[u] /\ q.held[u] = r.held[u]
                      \/ q.ver[u] = 0
  <2>1. CASE q = ApplyFast(r, {Head(fast)})
      BY <2>1, ReplicaFacts, FastApplied
  <2>2. CASE q = [r EXCEPT !.mg = Park(@, Head(fast))]
    <3>1. PICK mg : mg = Park(r.mg, Head(fast))
        OBVIOUS
    <3>2. q = [r EXCEPT !.mg = mg]
        BY <2>2, <3>1
    <3>3. /\ DOMAIN q = DOMAIN r /\ q.ver = r.ver /\ q.held = r.held
          /\ q.gen = r.gen /\ q.boots = r.boots /\ q.resyncs = r.resyncs /\ q.missed = r.missed
        BY <3>2, ReplicaFacts DEF ReplicaKeys
    <3> QED
        BY <3>3, ReplicaFacts, Zenon
  <2> QED
      BY <1>2, <2>1, <2>2, Zenon
<1>4. ReplicaOK(q, h.gen)
    BY <1>3, ReplicaFacts, Zenon DEF ReplicaOK
<1>5. ASSUME NEW u \in D, NEW n \in Int, NEW v \in Nat \ {0}, ReplicaSays(q, n, u, v)
      PROVE  Says(n, u, v)
  <2>1. v # 0
      OBVIOUS
  <2> QED
      BY <1>3, <1>5, <2>1, Zenon DEF ReplicaSays, Says
<1>6. r.boots <= q.boots /\ r.resyncs <= q.resyncs
    BY <1>3, ReplicaFacts
<1>7. Shrinks /\ UNCHANGED <<h, pong>> /\ ctl' \subseteq ctl
    BY <1>2 DEF Shrinks
<1>8. Shape' /\ (OneFile => OneFile')
    BY <1>1, <1>4, <1>5, <1>6, <1>7, TakeStep, Zenon
<1>9. ASSUME Pledge PROVE Pledge'
    BY <1>1, <1>2, <1>3, <1>4, <1>7, <1>9, PledgeStep, Zenon
<1>10. ASSUME InventoryTrue PROVE InventoryTrue'
    BY <1>1, <1>3, <1>10, Zenon DEF InventoryTrue
<1> QED
    BY <1>8, <1>9, <1>10

\* A batch that is merged tells of the file the replica runs: where the
\* inventory has nothing yet, it says what that file brought.
LEMMA BatchMerged ==
    ASSUME Shape, NEW b \in ctl, MergeManifest(b)
    PROVE  /\ Shape' /\ (OneFile => OneFile') /\ (Pledge => Pledge')
           /\ (OneFile /\ InventoryTrue => InventoryTrue')
<1>1. PICK q : q = r'
    OBVIOUS
<1> DEFINE held == [u \in D |-> IF r.held[u] = 0 THEN b.held[u] ELSE r.held[u]]
<1>2. /\ h' = h /\ cold' = cold /\ ctl' \subseteq ctl /\ pong' = pong /\ r.gen # None
      /\ q = r \/ (b.gen = r.gen /\ q = [r EXCEPT !.held = held])
    BY <1>1 DEF MergeManifest, Mergeable
<1>3. b.gen \in Int /\ b.held \in Versions
    BY DEF Shape
<1>4. held \in Versions /\ \A u \in D : held[u] = IF r.held[u] = 0 THEN b.held[u] ELSE r.held[u]
    BY <1>3, ReplicaFacts DEF Versions
<1> HIDE DEF held
<1>5. /\ DOMAIN q = DOMAIN r /\ q.ver = r.ver /\ (q.held = r.held \/ (b.gen = r.gen /\ q.held = held))
      /\ q.gen = r.gen /\ q.boots = r.boots /\ q.resyncs = r.resyncs /\ q.missed = r.missed
    BY <1>2, ReplicaFacts DEF ReplicaKeys
<1>6. ReplicaOK(q, h.gen)
    BY <1>4, <1>5, ReplicaFacts, Zenon DEF ReplicaOK
<1>7. ASSUME NEW u \in D, NEW n \in Int, NEW v \in Nat \ {0}, ReplicaSays(q, n, u, v)
      PROVE  Says(n, u, v)
  <2>1. r.held[u] = 0
      BY <1>4, <1>5, <1>7, Zenon DEF ReplicaSays
  <2> QED
      BY <1>5, <1>7, <2>1, Zenon DEF ReplicaSays, Says
<1>8. r.boots <= q.boots /\ r.resyncs <= q.resyncs
    BY <1>5, ReplicaFacts
<1>9. Shrinks /\ UNCHANGED <<h, pong>>
    BY <1>2 DEF Shrinks
<1>10. Shape' /\ (OneFile => OneFile')
    BY <1>1, <1>2, <1>6, <1>7, <1>8, <1>9, TakeStep, Zenon
<1>11. ASSUME Pledge PROVE Pledge'
    BY <1>1, <1>2, <1>5, <1>6, <1>9, <1>11, PledgeStep, Zenon
<1>12. ASSUME OneFile, InventoryTrue PROVE InventoryTrue'
  <2>1. ASSUME NEW u \in D, q.held[u] # 0, q.ver[u] # 0 PROVE q.held[u] = q.ver[u]
    <3>1. CASE q.held[u] = r.held[u]
        BY <1>5, <1>12, <2>1, <3>1, Zenon DEF InventoryTrue
    <3>2. CASE r.held[u] = 0 /\ q.held[u] = b.held[u] /\ b.gen = r.gen
      <4>1. Says(b.gen, u, b.held[u]) /\ Says(b.gen, u, r.ver[u])
          BY <1>2, <3>2, Zenon DEF Says, BatchSays, ReplicaSays
      <4>2. b.held[u] \in Nat \ {0} /\ r.ver[u] \in Nat \ {0}
          BY <1>3, <1>5, <2>1, <3>2, ReplicaFacts DEF Versions
      <4> QED
          BY <1>3, <1>5, <1>12, <3>2, <4>1, <4>2, Zenon DEF OneFile
    <3> QED
        BY <1>4, <1>5, <3>1, <3>2, Zenon
  <2> QED
      BY <1>1, <2>1, Zenon DEF InventoryTrue
<1> QED
    BY <1>10, <1>11, <1>12

\* A frame is lost; if it is one of the repair, that has been missed.
LEMMA ColdLost ==
    ASSUME Shape, LoseCold
    PROVE  Shape' /\ (OneFile => OneFile') /\ (Pledge => Pledge') /\ (InventoryTrue => InventoryTrue')
<1>1. PICK q : q = r'
    OBVIOUS
<1>2. /\ h' = h /\ cold # <<>> /\ cold' = Tail(cold) /\ ctl' = ctl /\ pong' = pong
      /\ q = [r EXCEPT !.lost = Head(cold).seq, !.missed = @ \/ Head(cold).fix]
    BY <1>1, Zenon DEF LoseCold
<1>3. /\ DOMAIN q = DOMAIN r /\ q.ver = r.ver /\ q.held = r.held
      /\ q.gen = r.gen /\ q.boots = r.boots /\ q.resyncs = r.resyncs
      /\ q.missed = (r.missed \/ Head(cold).fix)
    BY <1>2, ReplicaFacts DEF ReplicaKeys
<1>4. ReplicaOK(q, h.gen)
    BY <1>3, ReplicaFacts, Zenon DEF ReplicaOK
<1>5. ASSUME NEW u \in D, NEW n \in Int, NEW v \in Nat \ {0}, ReplicaSays(q, n, u, v)
      PROVE  Says(n, u, v)
    BY <1>3, <1>5, Zenon DEF ReplicaSays, Says
<1>6. r.boots <= q.boots /\ r.resyncs <= q.resyncs
    BY <1>3, ReplicaFacts
<1>7. Shrinks /\ UNCHANGED <<h, pong>> /\ ctl' \subseteq ctl
    BY <1>2 DEF Shrinks
<1>8. Shape' /\ (OneFile => OneFile')
    BY <1>1, <1>4, <1>5, <1>6, <1>7, TakeStep, Zenon
<1>9. ASSUME Pledge PROVE Pledge'
  <2>1. CASE q.missed
      BY <1>1, <2>1, Zenon DEF Pledge
  <2>2. CASE ~q.missed
    <3>1. ~r.missed /\ ~Closing(Head(cold))
        BY <1>3, <2>2, Zenon DEF Closing
    <3>2. (\E j \in 1..Len(cold) : Closing(cold[j])) => \E i \in 1..Len(cold') : Closing(cold'[i])
      <4>1. PICK rest : rest = cold'
          OBVIOUS
      <4>2. cold \in Seq(Frame) /\ cold # <<>> /\ rest = Tail(cold)
          BY <1>2, <4>1 DEF Shape
      <4>3. /\ Head(cold) = cold[1]
            /\ \A j \in 1..Len(cold) : j = 1 \/ \E i \in 1..Len(rest) : rest[i] = cold[j]
          BY <4>2, OneLess
      <4> QED
          BY <3>1, <4>1, <4>3, Zenon
    <3> QED
        BY <1>1, <1>2, <1>3, <1>9, <3>1, <3>2, Zenon DEF Pledge
  <2> QED
      BY <2>1, <2>2
<1>10. ASSUME InventoryTrue PROVE InventoryTrue'
    BY <1>1, <1>3, <1>10, Zenon DEF InventoryTrue
<1> QED
    BY <1>8, <1>9, <1>10

\* The replica answers a request for its inventory, and tells its status.
LEMMA Told ==
    ASSUME Shape, ServeManifest \/ Pong
    PROVE  Shape' /\ (OneFile => OneFile') /\ (Pledge => Pledge') /\ r' = r
<1>1. /\ r' = r /\ cold' = cold /\ ctl' = ctl
      /\ (pong'.want => pong' = pong \/ pong'.state = <<r.boots, r.resyncs>>)
  <2>1. Status(r).want => Status(r).state = <<r.boots, r.resyncs>>
      BY DEF Status, NoWish
  <2> QED
      BY <2>1, Zenon DEF ServeManifest, Pong
<1>2. Like(h, h') /\ DOMAIN h' = DOMAIN h /\ h'.seq = h.seq /\ h'.out = h.out
  <2>1. CASE h' = h
      BY <2>1, HostFacts DEF Like
  <2>2. CASE ServeManifest
    <3>1. PICK a : h' = [h EXCEPT !.req = a]
        BY <2>2 DEF ServeManifest
    <3> QED
        BY <3>1, HostFacts DEF HostKeys, Like
  <2> QED
      BY <2>1, <2>2, Zenon DEF Pong
<1>3. Shape'
  <2>1. HostOK(h') /\ h'.out = <<>> /\ h'.gen = h.gen /\ h'.served = h.served
      BY <1>2, HostFacts, Zenon DEF HostOK, Like
  <2>2. Past(<<r.boots, r.resyncs>>, r)
      BY ReplicaFacts DEF Past
  <2> QED
      BY <1>1, <2>1, <2>2, Zenon DEF Shape
<1>4. ASSUME OneFile PROVE OneFile'
  <2>1. ASSUME NEW u \in D, NEW n \in Int, NEW v \in Nat \ {0}, Says(n, u, v)'
        PROVE  Says(n, u, v)
      BY <1>1, <1>2, <2>1, Zenon DEF Says, HostSays, Like
  <2> QED
      BY <1>4, <2>1, NothingNewSaid, Zenon
<1>5. ASSUME Pledge PROVE Pledge'
    BY <1>1, <1>2, <1>5, Zenon DEF Pledge, Like
<1> QED
    BY <1>1, <1>3, <1>4, <1>5

-----------------------------------------------------------------------------
(* The inventory and the wish: the theorems                                *)

\* The handshake's file is under way, and nothing else says anything yet.
LEMMA Beginning ==
    ASSUME Init
    PROVE  Shape /\ Pledge /\ (~Leftover => Files)
<1> DEFINE g == SendBootstrap(HostSync, FALSE)
<1>1. /\ h = [g EXCEPT !.out = <<>>] /\ cold = g.out /\ ctl = {}
      /\ r = Replica /\ pong = Status(Replica)
    BY Zenon DEF Init
<1>2. Empty \in Versions /\ \A u \in D : Empty[u] = 0
    BY DEF Empty, Versions
<1>3. /\ HostKeys \subseteq DOMAIN HostSync /\ HostSync.ver \in Versions
      /\ HostSync.hash = Empty /\ HostSync.mpend = Empty /\ HostSync.sd = 1 /\ HostSync.seq = 0
      /\ HostSync.gen = -1 /\ HostSync.end = FALSE /\ HostSync.dirty = {}
      /\ HostSync.queue = {} /\ HostSync.out = <<>> /\ HostSync.served = None
    BY DEF HostSync, HostKeys, Versions
<1>4. HostOK(HostSync)
  <2>1. 1 \in Nat /\ 0 \in Nat /\ -1 \in Int
      OBVIOUS
  <2> QED
      BY <1>2, <1>3, <2>1, Zenon DEF HostOK
<1>5. FALSE \in BOOLEAN
    OBVIOUS
<1>6. HostOK(g) /\ g.gen = 0 /\ g.ver = HostSync.ver /\ g.served = None /\ \A u \in D : g.mpend[u] = 0
  <2>1. /\ HostOK(g) /\ g.gen = HostSync.gen + 1 /\ g.ver = HostSync.ver
        /\ g.served = HostSync.served /\ \A u \in D : g.mpend[u] = 0
      BY <1>3, <1>4, <1>5, BootstrapSent
  <2>2. HostSync.gen + 1 = 0
      BY <1>3
  <2> QED
      BY <1>3, <2>1, <2>2, Zenon
<1>7. PICK m \in Frame : /\ g.out = <<m>> /\ m.kind = "boot" /\ m.ver = g.ver /\ FrameOK(m, g.gen)
    BY <1>3, <1>4, <1>5, <1>6, BootstrapSent, Zenon
<1> HIDE DEF g
<1>8. /\ DOMAIN h = DOMAIN g /\ h.ver = g.ver /\ h.dirty = g.dirty
      /\ h.hash = g.hash /\ h.mpend = g.mpend /\ h.sd = g.sd /\ h.gen = g.gen /\ h.end = g.end
      /\ h.queue = g.queue /\ h.prime = g.prime /\ h.served = g.served /\ h.seq = g.seq
      /\ h.out = <<>>
  <2>1. HostKeys \subseteq DOMAIN g
      BY <1>6 DEF HostOK
  <2> QED
      BY <1>1, <2>1 DEF HostKeys
<1>9. HostOK(h)
    BY <1>6, <1>8, Zenon DEF HostOK
<1>10. cold \in Seq(Frame) /\ Len(cold) = 1 /\ cold[1] = m /\ \A i \in 1..Len(cold) : i = 1
    BY <1>1, <1>7
<1>11. /\ ReplicaKeys \subseteq DOMAIN r /\ r.ver \in Versions /\ r.held = Empty
       /\ r.boots = 0 /\ r.resyncs = 0 /\ r.gen = (IF Leftover THEN 0 ELSE None)
       /\ (~Leftover => \A u \in D : r.ver[u] = 0) /\ r.want = FALSE
    BY <1>1 DEF Replica, ReplicaKeys, Versions
<1>12. Shape
  <2>1. ReplicaOK(r, h.gen)
      BY <1>2, <1>6, <1>8, <1>11 DEF ReplicaOK
  <2>2. Past(h.served, r) /\ ~pong.want
      BY <1>1, <1>6, <1>8, <1>11 DEF Past, Status, NoWish
  <2>3. \A i \in 1..Len(cold) : FrameOK(cold[i], h.gen)
      BY <1>7, <1>8, <1>10, Zenon
  <2> QED
      BY <1>1, <1>8, <1>9, <1>10, <2>1, <2>2, <2>3, Zenon DEF Shape
<1>13. Pledge
  <2>1. <<r.boots, r.resyncs>> # None
      BY <1>11, NoneAssumption
  <2> QED
      BY <1>6, <1>8, <2>1, Zenon DEF Pledge
<1>14. ASSUME ~Leftover PROVE Files
  <2>1. ASSUME NEW u \in D, NEW n \in Int, NEW v \in Nat \ {0}, Says(n, u, v) PROVE v = g.ver[u]
    <3>1. v # 0
        OBVIOUS
    <3> QED
        BY <1>1, <1>6, <1>7, <1>8, <1>10, <1>11, <1>14, <2>1, <3>1, Zenon
        DEF Says, HostSays, FrameSays, ReplicaSays, BatchSays
  <2>2. OneFile
      BY <2>1, Zenon DEF OneFile
  <2>3. InventoryTrue
      BY <1>2, <1>11, Zenon DEF InventoryTrue
  <2> QED
      BY <2>2, <2>3 DEF Files
<1> QED
    BY <1>12, <1>13, <1>14

\* One step keeps each part of the invariant.
LEMMA Step ==
    ASSUME Shape, [Next]_vars
    PROVE  Shape' /\ (Files => Files') /\ (Pledge => Pledge')
<1> DEFINE Kept == Shape' /\ (OneFile => OneFile') /\ (Pledge => Pledge')
<1>1. ASSUME r' = r PROVE InventoryTrue => InventoryTrue'
    BY <1>1, Zenon DEF InventoryTrue
<1>2. ASSUME NEW g, Tame(g), Host(g), UNCHANGED <<r, ctl, pong>> PROVE Kept
    BY <1>2, TameStep
<1>3. CASE Edits
  <2>1. ASSUME NEW u \in D, Edit(u) \/ Create(u) \/ Delete(u) PROVE Kept /\ r' = r
    <3>1. UNCHANGED <<r, ctl, pong>>
        BY <2>1 DEF Edit, Create, Delete, Change
    <3> QED
        BY <1>2, <2>1, <3>1, EditsTame, Zenon
  <2>2. ASSUME NEW how, Restructure(how) PROVE Kept /\ r' = r
    <3>1. UNCHANGED <<r, ctl, pong>>
        BY <2>2 DEF Restructure, Change
    <3> QED
        BY <1>2, <2>2, <3>1, EditsTame, Zenon
  <2>3. ASSUME ForceResync PROVE Kept /\ r' = r
      BY <2>3, FileSteps, Zenon DEF ForceResync
  <2> QED
      BY <1>1, <1>3, <2>1, <2>2, <2>3, Zenon DEF Edits, Files
<1>4. CASE Flush
  <2>1. ASSUME \/ \E u \in D : FlushT2(u) \/ FlushTomb(u)
               \/ PrimeHashes \/ FlushScene \/ AutoCovered
               \/ \E e \in h.queue : ResendT2(e)
               \/ \E u \in h.tail : SendT1Full(u)
               \/ EndDelta
        PROVE  Kept /\ r' = r
    <3>1. UNCHANGED <<r, ctl, pong>>
      <4>1. \E g : Timer(g)
          BY <2>1, Zenon
          DEF FlushT2, FlushTomb, PrimeHashes, FlushScene, AutoCovered, ResendT2, SendT1Full, EndDelta
      <4> QED
          BY <4>1 DEF Timer
    <3>2. \E g : Tame(g) /\ Host(g)
        BY <2>1, FlushTame, PrimeTame, RepairTame, Zenon
    <3> QED
        BY <1>2, <3>1, <3>2, Zenon
  <2>2. ASSUME AutoBoot PROVE Kept /\ r' = r
      BY <2>2, FileSteps, Zenon DEF AutoBoot, Timer
  <2>3. ASSUME SendManifestBatch PROVE Kept /\ r' = r
      BY <2>3, BatchStep, Zenon DEF SendManifestBatch
  <2> QED
      BY <1>1, <1>4, <2>1, <2>2, <2>3, Zenon DEF Flush, Files
<1>5. CASE \E late, limited \in BOOLEAN : Watch(late, limited)
  <2>1. Kept
      BY <1>5, WatchStep, Zenon
  <2>2. r' = r
      BY <1>5, Zenon DEF Watch, Timer
  <2> QED
      BY <1>1, <2>1, <2>2, Zenon DEF Files
<1>6. CASE ServeManifest \/ Pong
    BY <1>1, <1>6, Told, Zenon DEF Files
<1>7. CASE TakeCold(FALSE) \/ TakeCold(TRUE)
  <2>1. FALSE \in BOOLEAN /\ TRUE \in BOOLEAN
      OBVIOUS
  <2> QED
      BY <1>7, <2>1, ColdTaken, Zenon DEF Files
<1>8. CASE TakeFast
    BY <1>8, FastTaken, Zenon DEF Files
<1>9. CASE \E b \in ctl : MergeManifest(b)
    BY <1>9, BatchMerged, Zenon DEF Files
<1>10. CASE LoseCold
    BY <1>10, ColdLost, Zenon DEF Files
<1>11. CASE UNCHANGED vars
  <2>1. h' = h /\ r' = r /\ cold' = cold /\ ctl' = ctl /\ pong' = pong
      BY <1>11 DEF vars
  <2>2. Shape'
      BY <2>1, Zenon DEF Shape
  <2>3. ASSUME OneFile PROVE OneFile'
      BY <2>1, <2>3, NothingNewSaid, Zenon DEF Says
  <2>4. ASSUME Pledge PROVE Pledge'
      BY <2>1, <2>4, Zenon DEF Pledge
  <2> QED
      BY <1>1, <2>1, <2>2, <2>3, <2>4, Zenon DEF Files
<1> QED
    BY <1>3, <1>4, <1>5, <1>6, <1>7, <1>8, <1>9, <1>10, <1>11, Zenon DEF Next, Take

\* In every reachable state the parts of the system are of the shape the code
\* relies on: no file, batch or inventory is of a later file than the host has
\* sent, and the wish that counts as answered is one the replica has had.
THEOREM SpecShape == Spec => []Shape
<1>1. Init => Shape
    BY Beginning
<1>2. Shape /\ [Next]_vars => Shape'
    BY Step
<1> QED
    BY <1>1, <1>2, PTL DEF Spec

\* What the replica's inventory says it holds it holds, whatever is lost, fails
\* or overtakes what, with any number of datablocks, files and repairs, when the
\* replica starts afresh (ring0/replica_apply.py, _held and _merge_manifests).
THEOREM InventoryHolds ==
    ASSUME ~Leftover
    PROVE  Spec => []InventoryTrue
<1>1. Init => Shape /\ Files
    BY Beginning
<1>2. Shape /\ Files /\ [Next]_vars => (Shape /\ Files)'
    BY Step
<1>3. Shape /\ Files => InventoryTrue
    BY DEF Files
<1> QED
    BY <1>1, <1>2, <1>3, PTL DEF Spec

\* No wish is written off: while it counts as answered its repair is under way, whatever is lost,
\* fails or is edited, until a file has failed or a frame of the repair itself has been lost
\* (ring1/liveness.py, ResyncPolicy.decide; ring0/replica_apply.py, _apply_pending_batch).
THEOREM NoWishWrittenOff == Spec => []WishStands
<1>1. Init => Shape /\ Pledge
    BY Beginning
<1>2. Shape /\ Pledge /\ [Next]_vars => (Shape /\ Pledge)'
    BY Step
<1>3. Pledge => WishStands
  <2> SUFFICES ASSUME Pledge, Quiet, ~r.missed PROVE h.served # <<r.boots, r.resyncs>>
      BY Zenon DEF WishStands
  <2>1. cold = <<>> /\ ~h.end
      BY Zenon DEF Quiet, Repairing
  <2>2. \A i \in 1..Len(cold) : FALSE
      BY <2>1
  <2> QED
      BY <2>1, <2>2, Zenon DEF Pledge
<1> QED
    BY <1>1, <1>2, <1>3, PTL DEF Spec

-----------------------------------------------------------------------------
(* The repair is whole: the invariant                                      *)
(*                                                                         *)
(* Of the scene and of every datablock that has not been deleted.  Both    *)
(* ends have a version of each (the scene's is that of its structure; what *)
(* the replica has got of it is what its digest says, where that is ahead),*)
(* a file carries one of each and a blob one of its datablock.             *)

Things == D \union {Scene}
Has(p, u) == IF u = Scene THEN p.sd ELSE p.ver[u]
Got(p, u) == IF u = Scene THEN IF p.dig > p.sd THEN p.dig ELSE p.sd ELSE p.ver[u]
Carries(m, u) == m.kind = "boot" \/ (m.kind = "t2" /\ m.u = u)
Val(m, u) == IF m.kind = "boot" THEN Has(m, u) ELSE m.ver
Gone(g, u) == u \in g.born /\ g.ver[u] = 0

\* What else is of which type.
Post == [kind : {"t1", "tomb"}, u : Things, dig : Nat, after : Nat, seq : Nat]
Inventory(s) == s.held \in Versions /\ s.dig \in Nat
Filed(g) == g.shipped \in Nat /\ g.shipped <= g.sd /\ g.dig <= g.sd
HostKinds(g) ==
    /\ g.born \subseteq D /\ g.tail \subseteq g.born \union {Scene}
    /\ (\A u \in g.tombs : Gone(g, u)) /\ (\A e \in g.queue : e.u \in g.born /\ e.expect \in Nat)
    /\ g.at \in Versions /\ g.bootSeq \in Nat /\ g.fseq \in Nat /\ g.dig \in Nat
    /\ g.bootSeq <= g.seq /\ (\A u \in D : g.at[u] <= g.seq)
    /\ (g.manifest # None => Inventory(g.manifest)) /\ (g.req.at = "answered" => Inventory(g.req))
    /\ Filed(g)
ReplicaKinds(p) ==
    /\ p.sd \in Nat /\ p.dig \in Nat /\ p.lost \in Nat /\ p.failed \subseteq D /\ p.mg \in Merger(Post)
Kinds == HostKinds(h) /\ h.fout = <<>> /\ ReplicaKinds(r) /\ fast \in Seq(Post)

\* Frames come in the order of their seqs, and a fast message about a datablock
\* follows all that carry it.
Lined ==
    /\ r.mg.cold.last <= h.seq /\ r.mg.coldApplied <= h.seq /\ r.lost <= h.seq
    /\ \A i \in 1..Len(cold) : /\ cold[i].seq > r.mg.cold.last /\ cold[i].seq > r.mg.coldApplied
                               /\ cold[i].seq > r.lost /\ cold[i].seq <= h.seq
                               /\ \A u \in Things : Carries(cold[i], u) => cold[i].seq <= After(h, u)
    /\ \A i, j \in 1..Len(cold) : i < j => cold[i].seq < cold[j].seq

\* Versions climb from the replica along the lane to the host.
Climbs(u) ==
    /\ Got(r, u) <= Has(h, u)
    /\ \A i \in 1..Len(cold) : Carries(cold[i], u) =>
          /\ Got(r, u) <= Val(cold[i], u) /\ Val(cold[i], u) <= Has(h, u)
          /\ \A j \in 1..Len(cold) : i < j /\ Carries(cold[j], u) => Val(cold[i], u) <= Val(cold[j], u)

\* The digest the host would send, where it has one, is behind nothing that is
\* sent, and up to date or about to be.
Hashed(u) ==
    /\ h.hash[u] <= h.ver[u]
    /\ h.hash[u] # 0 => /\ r.ver[u] <= h.hash[u]
                        /\ \A i \in 1..Len(cold) : Carries(cold[i], u) => Val(cold[i], u) <= h.hash[u]
    /\ u \in h.dirty \/ h.hash[u] \in {0, h.ver[u]}

\* What an inventory says of a thing, wherever it has got to, is not ahead of
\* what the replica has of it.
Claim(s, u) == IF u = Scene THEN s.dig ELSE s.held[u]
Asked(g, u) ==
    /\ g.manifest # None => Claim(g.manifest, u) <= Got(r, u)
    /\ g.req.at = "answered" => Claim(g.req, u) <= Got(r, u)
    /\ \A e \in g.queue : e.u = u => e.expect <= Got(r, u)
Behind(u) == Claim(r, u) <= Got(r, u) /\ Asked(h, u)

\* Neither are the digests of the batches when their file has been loaded.
TellsOf(n, u, v) == (h.gen = n /\ HostSays(h, u, v)) \/ \E b \in ctl : BatchSays(b, n, u, v)
Covers(u) ==
    \A n \in Int : \A v \in Nat \ {0} : TellsOf(n, u, v) =>
        /\ r.gen # None /\ r.gen = n => v <= r.ver[u]
        /\ \A i \in 1..Len(cold) : cold[i].kind = "boot" /\ cold[i].gen = n => v <= cold[i].ver[u]

\* The digests of the structure that the scene's deltas carry climb along the fast lane, as the
\* files do that each of them waits for, and so no file on its way is behind the replica's digest.
Afoot(x) == (\E i \in 1..Len(fast) : fast[i] = x) \/ x \in r.mg.parked
OfScene(x) == x.kind = "t1" /\ x.u = Scene
\* One such delta against the host, the replica and the lane ...
Fits(x) ==
    /\ x.dig <= h.dig /\ x.after <= h.bootSeq
    /\ r.dig > r.sd => r.dig <= x.dig
    /\ \A i \in 1..Len(cold) : cold[i].kind = "boot" /\ cold[i].seq > x.after => x.dig <= cold[i].sd
\* ... and against another.
InTurn(x, y) == OfScene(x) /\ OfScene(y) => x.dig <= y.dig
Posts ==
    /\ \A x : Afoot(x) => x.seq <= h.fseq /\ (OfScene(x) => Fits(x))
    /\ \A x, y : Afoot(x) /\ Afoot(y) /\ x.after < y.after => InTurn(x, y)
    /\ \A i, j \in 1..Len(fast) : i < j => InTurn(fast[i], fast[j])
    /\ \A x \in r.mg.parked : x.after > r.mg.coldApplied
                              /\ \A i \in 1..Len(fast) : InTurn(x, fast[i])
    /\ r.dig > r.sd => r.dig <= h.dig

\* A tombstone goes after the datablock and after all that carries it; a
\* datablock that is gone has one coming, or is gone from the replica too.
Tomb(x, u) == Afoot(x) /\ x.kind = "tomb" /\ x.u = u
Brought(u) == \E i \in 1..Len(cold) : Carries(cold[i], u) /\ Val(cold[i], u) # 0
Graves(u) ==
    /\ \A x : Tomb(x, u) =>
          /\ Gone(h, u)
          /\ \A i \in 1..Len(cold) : Carries(cold[i], u) /\ Val(cold[i], u) # 0 => cold[i].seq <= x.after
    /\ Gone(h, u) /\ u \notin h.tombs /\ (\A x : ~Tomb(x, u)) => r.ver[u] = 0 /\ ~Brought(u)

\* Something was lost, and the replica asks for it or will.
Hole == r.want \/ r.lost > r.mg.cold.last

\* Where the host's version of a thing is: still to be sent, there, refused by
\* Blender, or in a frame on the lane.
Owed(g, u) == IF u = Scene THEN g.sd # g.shipped ELSE u \in g.dirty /\ g.hash[u] # g.ver[u]
Refused(u) == u \in r.failed /\ \A i \in 1..Len(cold) : Carries(cold[i], u) => Val(cold[i], u) = Has(h, u)
There(u) == Owed(h, u) \/ Got(r, u) = Has(h, u) \/ Refused(u)
Brings(g, m, u) == Carries(m, u) /\ Val(m, u) = Has(g, u)

\* A file or a part of the repair is missed, and no file comes before frame c; nor between frames i and c.
Barred(c) == r.missed /\ \A k \in 1..Len(cold) : cold[k].kind = "boot" => k > c
NoFile(i, c) == \A k \in 1..Len(cold) : cold[k].kind = "boot" => k <= i \/ k > c

\* The difference is made up for: now, unless a hole shows or will; at a file;
\* at the end of a repair, whatever is lost before it; and once a repair that
\* is being sent has been.
Now(u) == r.missed \/ Hole \/ There(u) \/ \E i \in 1..Len(cold) : Brings(h, cold[i], u)
AtFile(u) ==
    \A c \in 1..Len(cold) : cold[c].kind = "boot" =>
        Owed(h, u) \/ \E i \in 1..Len(cold) : i >= c /\ Brings(h, cold[i], u)
AtEnd(u) ==
    \A c \in 1..Len(cold) : cold[c].kind = "end" =>
        \/ Barred(c) \/ There(u)
        \/ \E i \in 1..Len(cold) : (i > c \/ (cold[i].fix /\ NoFile(i, c))) /\ Brings(h, cold[i], u)
Listed(u) ==
    h.end => \/ Barred(Len(cold)) \/ There(u) \/ \E e \in h.queue : e.u = u
             \/ \E i \in 1..Len(cold) : cold[i].fix /\ NoFile(i, Len(cold)) /\ Brings(h, cold[i], u)
Whole(u) == Now(u) /\ AtFile(u) /\ AtEnd(u) /\ Listed(u)

Mended ==
    /\ Kinds /\ Lined /\ Posts
    /\ \A u \in Things : ~Gone(h, u) => Climbs(u) /\ Behind(u) /\ Whole(u)
    /\ \A u \in D : Graves(u) /\ (u \notin h.born => h.ver[u] = 0)
                    /\ (~Gone(h, u) => Hashed(u) /\ Covers(u))

\* The types of what the invariant compares.
LEMMA Values ==
    ASSUME Shape, Kinds, NEW u \in Things
    PROVE  /\ Has(h, u) \in Nat /\ Got(r, u) \in Nat
           /\ \A i \in 1..Len(cold) : /\ cold[i] \in Frame /\ cold[i].seq \in Nat
                                      /\ (Carries(cold[i], u) => Val(cold[i], u) \in Nat)
<1>1. /\ h.ver \in [D -> Nat] /\ r.ver \in [D -> Nat] /\ h.sd \in Nat /\ r.sd \in Nat /\ cold \in Seq(Frame)
      /\ r.dig \in Nat /\ \A i \in 1..Len(cold) : FrameOK(cold[i], h.gen)
    BY Zenon DEF Shape, HostOK, ReplicaOK, Kinds, ReplicaKinds, Versions
<1>2. Has(h, u) \in Nat /\ Got(r, u) \in Nat
    BY <1>1 DEF Has, Got, Things
<1>3. ASSUME NEW i \in 1..Len(cold)
      PROVE  /\ cold[i] \in Frame /\ cold[i].seq \in Nat
             /\ (Carries(cold[i], u) => Val(cold[i], u) \in Nat)
  <2>1. PICK m : m = cold[i]
      OBVIOUS
  <2>2. m \in Frame /\ FrameOK(m, h.gen)
      BY <1>1, <2>1
  <2>3. m.seq \in Nat /\ m.sd \in Nat
      BY <2>2 DEF Frame
  <2>4. CASE m.kind = "boot"
    <3>1. m.ver \in [D -> Nat]
        BY <2>2, <2>4, Zenon DEF FrameOK, Versions
    <3> QED
        BY <2>1, <2>2, <2>3, <2>4, <3>1 DEF Val, Has, Things
  <2>5. CASE m.kind # "boot"
    <3>1. Carries(m, u) => m.ver \in Nat
        BY <2>2, <2>5 DEF FrameOK, Carries
    <3> QED
        BY <2>1, <2>2, <2>3, <2>5, <3>1 DEF Val
  <2> QED
      BY <2>4, <2>5
<1> QED
    BY <1>2, <1>3

-----------------------------------------------------------------------------
(* The host's steps                                                        *)

\* A frame that is new carries what the host has, and what follows it names it.
NewFrame(m) ==
    /\ m.seq = h.seq + 1 /\ h'.seq = h.seq + 1
    /\ \A u \in Things : Carries(m, u) => Val(m, u) = Has(h', u)
    /\ \A u \in Things : Carries(m, u) => After(h', u) = h'.seq
    /\ m.kind = "end" => m.fix /\ h.end /\ h.queue = {}
    /\ m.kind = "boot" => ~h'.end
Grows ==
    /\ Len(cold) \in Nat /\ Len(cold') \in Nat
    /\ \A i \in 1..Len(cold) : i \in 1..Len(cold') /\ cold'[i] = cold[i]
    /\ \A i \in 1..Len(cold') : i \in 1..Len(cold) \/ (i = Len(cold) + 1 /\ NewFrame(cold'[i]))

\* The counts go up.
Later ==
    /\ h'.seq \in Nat /\ h.seq <= h'.seq
    /\ \A u \in Things : After(h, u) \in Nat /\ After(h', u) \in Nat /\ After(h, u) <= After(h', u)

\* The frames stay in line when one is added.
LEMMA LinedGrows ==
    ASSUME Shape, Kinds, Lined, r' = r, Grows, Later
    PROVE  Lined'
<1>1. /\ h.seq \in Nat /\ h'.seq \in Nat /\ h.seq <= h'.seq
      /\ r.mg.cold.last \in Nat /\ r.mg.coldApplied \in Nat /\ r.lost \in Nat
    BY DEF Later, Kinds, ReplicaKinds, Merger, Tracker, Shape, HostOK
<1>2. /\ r'.mg.cold.last <= h'.seq /\ r'.mg.coldApplied <= h'.seq /\ r'.lost <= h'.seq
    BY <1>1 DEF Lined
<1>3. \A i \in 1..Len(cold) : cold[i].seq \in Nat
    BY Values DEF Things
<1>4. ASSUME NEW i \in 1..Len(cold')
      PROVE  /\ cold'[i].seq > r'.mg.cold.last /\ cold'[i].seq > r'.mg.coldApplied
             /\ cold'[i].seq > r'.lost /\ cold'[i].seq <= h'.seq
             /\ \A u \in Things : Carries(cold'[i], u) => cold'[i].seq <= After(h', u)
  <2>1. PICK m : m = cold'[i]
      OBVIOUS
  <2>2. CASE i \in 1..Len(cold)
    <3>1. m = cold[i]
        BY <2>1, <2>2, Zenon DEF Grows
    <3>2. /\ m.seq > r.mg.cold.last /\ m.seq > r.mg.coldApplied /\ m.seq > r.lost /\ m.seq <= h.seq
          /\ m.seq \in Nat /\ \A u \in Things : Carries(m, u) => m.seq <= After(h, u)
        BY <1>3, <2>2, <3>1, Zenon DEF Lined
    <3>3. \A u \in Things : Carries(m, u) => m.seq <= After(h', u)
        BY <3>2 DEF Later
    <3> QED
        BY <1>1, <2>1, <3>2, <3>3
  <2>3. CASE NewFrame(m)
    <3>1. m.seq = h.seq + 1 /\ h'.seq = h.seq + 1 /\ \A u \in Things : Carries(m, u) => After(h', u) = h'.seq
        BY <2>3, Zenon DEF NewFrame
    <3> QED
        BY <1>1, <2>1, <3>1 DEF Lined
  <2> QED
      BY <2>1, <2>2, <2>3, Zenon DEF Grows
<1>5. ASSUME NEW i \in 1..Len(cold'), NEW j \in 1..Len(cold'), i < j PROVE cold'[i].seq < cold'[j].seq
  <2>1. i \in 1..Len(cold)
      BY <1>5 DEF Grows
  <2>2. CASE j \in 1..Len(cold)
      BY <1>5, <2>1, <2>2, Zenon DEF Grows, Lined
  <2>3. CASE NewFrame(cold'[j])
      BY <1>1, <1>3, <2>1, <2>3 DEF Grows, NewFrame, Lined
  <2> QED
      BY <2>2, <2>3, Zenon DEF Grows
<1> QED
    BY <1>2, <1>4, <1>5, Zenon DEF Lined

\* Versions still climb when the host has a newer one and a frame brings it.
LEMMA ClimbsOn ==
    ASSUME Shape, Kinds, NEW u \in Things, Climbs(u), r' = r, Grows,
           Has(h', u) \in Nat, Has(h, u) <= Has(h', u)
    PROVE  Climbs(u)'
<1>1. /\ Has(h, u) \in Nat /\ Got(r, u) \in Nat
      /\ \A i \in 1..Len(cold) : Carries(cold[i], u) => Val(cold[i], u) \in Nat
    BY Values
<1>2. Got(r', u) <= Has(h', u)
    BY <1>1 DEF Climbs
<1>3. ASSUME NEW i \in 1..Len(cold'), Carries(cold'[i], u)
      PROVE  /\ Got(r', u) <= Val(cold'[i], u) /\ Val(cold'[i], u) <= Has(h', u)
             /\ \A j \in 1..Len(cold') : i < j /\ Carries(cold'[j], u) => Val(cold'[i], u) <= Val(cold'[j], u)
  <2>1. CASE i \in 1..Len(cold)
    <3>1. /\ cold'[i] = cold[i] /\ Carries(cold[i], u) /\ Val(cold[i], u) \in Nat
          /\ Got(r, u) <= Val(cold[i], u) /\ Val(cold[i], u) <= Has(h, u)
        BY <1>1, <1>3, <2>1, Zenon DEF Climbs, Grows
    <3>2. Got(r', u) <= Val(cold'[i], u) /\ Val(cold'[i], u) <= Has(h', u)
        BY <1>1, <3>1
    <3>3. ASSUME NEW j \in 1..Len(cold'), i < j, Carries(cold'[j], u)
          PROVE  Val(cold'[i], u) <= Val(cold'[j], u)
      <4>1. CASE j \in 1..Len(cold)
          BY <2>1, <3>1, <3>3, <4>1, Zenon DEF Climbs, Grows
      <4>2. CASE NewFrame(cold'[j])
        <5>1. Val(cold'[j], u) = Has(h', u)
            BY <3>3, <4>2, Zenon DEF NewFrame
        <5> QED
            BY <3>2, <5>1
      <4> QED
          BY <4>1, <4>2, Zenon DEF Grows
    <3> QED
        BY <3>2, <3>3
  <2>2. CASE i = Len(cold) + 1 /\ NewFrame(cold'[i])
    <3>1. Val(cold'[i], u) = Has(h', u)
        BY <1>3, <2>2, Zenon DEF NewFrame
    <3>2. \A j \in 1..Len(cold') : ~(i < j)
        BY <2>2 DEF Grows
    <3> QED
        BY <1>2, <3>1, <3>2
  <2> QED
      BY <2>1, <2>2, Zenon DEF Grows
<1> QED
    BY <1>2, <1>3, Zenon DEF Climbs

\* The digest of a datablock is taken, thrown away or left alone.
HashMove(u) ==
    \/ h'.hash[u] \in {0, h'.ver[u]}
    \/ /\ h'.hash[u] = h.hash[u] /\ h.ver[u] <= h'.ver[u]
       /\ u \in h'.dirty \/ (h'.ver[u] = h.ver[u] /\ u \notin h.dirty)
       /\ \A i \in 1..Len(cold') : i \in 1..Len(cold) \/ ~Carries(cold'[i], u)

\* The digest stays behind what is sent.
LEMMA HashedOn ==
    ASSUME Shape, Kinds, NEW u \in D, Hashed(u), Climbs(u)', r' = r, Grows, h'.ver[u] \in Nat, HashMove(u)
    PROVE  Hashed(u)'
<1>1. Has(h', u) = h'.ver[u] /\ Got(r', u) = r'.ver[u] /\ u \in Things
    BY DeltaAssumption DEF Has, Got, Things
<1>2. h.ver[u] \in Nat /\ h.hash[u] \in Nat
    BY DEF Shape, HostOK, Versions
<1>3. CASE h'.hash[u] = 0
    BY <1>3 DEF Hashed
<1>4. CASE h'.hash[u] = h'.ver[u]
  <2>1. r'.ver[u] <= h'.hash[u] /\ \A i \in 1..Len(cold') : Carries(cold'[i], u) => Val(cold'[i], u) <= h'.hash[u]
      BY <1>1, <1>4, Zenon DEF Climbs
  <2>2. h'.hash[u] <= h'.ver[u] /\ h'.hash[u] \in {0, h'.ver[u]}
      BY <1>4
  <2> QED
      BY <2>1, <2>2, Zenon DEF Hashed
<1>5. CASE /\ h'.hash[u] = h.hash[u] /\ h.ver[u] <= h'.ver[u]
           /\ u \in h'.dirty \/ (h'.ver[u] = h.ver[u] /\ u \notin h.dirty)
           /\ \A i \in 1..Len(cold') : i \in 1..Len(cold) \/ ~Carries(cold'[i], u)
  <2>1. h'.hash[u] <= h'.ver[u]
      BY <1>2, <1>5 DEF Hashed
  <2>2. u \in h'.dirty \/ h'.hash[u] \in {0, h'.ver[u]}
      BY <1>5 DEF Hashed
  <2>3. \A i \in 1..Len(cold') : Carries(cold'[i], u) => i \in 1..Len(cold) /\ cold'[i] = cold[i]
      BY <1>5, Zenon DEF Grows
  <2>4. h'.hash[u] # 0 => /\ r'.ver[u] <= h'.hash[u]
                          /\ \A i \in 1..Len(cold') : Carries(cold'[i], u) => Val(cold'[i], u) <= h'.hash[u]
      BY <1>5, <2>3, Zenon DEF Hashed
  <2> QED
      BY <2>1, <2>2, <2>4, Zenon DEF Hashed
<1> QED
    BY <1>3, <1>4, <1>5, Zenon DEF HashMove

\* The host's version is still to be sent, goes out now, is there already, or
\* is where it was.
WholeMove(u) ==
    \/ Owed(h', u)
    \/ \E i \in 1..Len(cold') : i = Len(cold) + 1 /\ Carries(cold'[i], u) /\ (cold'[i].fix \/ ~h'.end)
    \/ Got(r, u) = Has(h', u)
    \/ /\ Has(h', u) = Has(h, u) /\ (Owed(h, u) => Owed(h', u))
       /\ h'.end => \/ h.end /\ \A e \in h.queue : e.u = u => e \in h'.queue
                    \/ \E e \in h'.queue : e.u = u

\* What bars a frame still does, and where there was no file there is none.
LEMMA BarsOn ==
    ASSUME r' = r, Grows
    PROVE  /\ \A c \in 1..Len(cold) : /\ Barred(c) => Barred(c)'
                                      /\ \A i \in Int : NoFile(i, c) => NoFile(i, c)'
           /\ h'.end => /\ Barred(Len(cold)) => Barred(Len(cold))'
                        /\ \A i \in Int : NoFile(i, Len(cold)) => NoFile(i, Len(cold))'
           /\ NoFile(Len(cold), Len(cold))'
<1>1. ASSUME NEW c \in Nat, c \in 1..Len(cold)
      PROVE  /\ Barred(c) => Barred(c)'
             /\ \A i \in Int : NoFile(i, c) => NoFile(i, c)'
  <2>1. \A k \in 1..Len(cold') : (k \in 1..Len(cold) /\ cold'[k] = cold[k]) \/ k > c
      BY <1>1 DEF Grows
  <2> QED
      BY <2>1, Zenon DEF Barred, NoFile
<1>2. ASSUME h'.end
      PROVE  /\ Barred(Len(cold)) => Barred(Len(cold))'
             /\ \A i \in Int : NoFile(i, Len(cold)) => NoFile(i, Len(cold))'
  <2>1. \A k \in 1..Len(cold') : cold'[k].kind = "boot" => k \in 1..Len(cold) /\ cold'[k] = cold[k]
      BY <1>2, Zenon DEF Grows, NewFrame
  <2>2. \A k \in 1..Len(cold) : ~(k > Len(cold))
      BY DEF Grows
  <2> QED
      BY <2>1, <2>2, Zenon DEF Barred, NoFile
<1>3. NoFile(Len(cold), Len(cold))'
    BY DEF NoFile, Grows
<1>4. \A c \in 1..Len(cold) : c \in Nat
    BY DEF Grows
<1> QED
    BY <1>1, <1>2, <1>3, <1>4, Zenon

\* The difference is still made up for.
LEMMA WholeOn ==
    ASSUME Shape, Kinds, NEW u \in Things, Whole(u), Climbs(u)', r' = r, Grows,
           Has(h', u) \in Nat, WholeMove(u)
    PROVE  Whole(u)'
<1>1. /\ Got(r, u) \in Nat
      /\ \A i \in 1..Len(cold) : Carries(cold[i], u) => Val(cold[i], u) \in Nat
    BY Values
<1>2. \A i \in 1..Len(cold') : NewFrame(cold'[i]) /\ Carries(cold'[i], u) => Val(cold'[i], u) = Has(h', u)
    BY Zenon DEF NewFrame
<1>3. CASE Owed(h', u)
    BY <1>3, Zenon DEF Whole, Now, AtFile, AtEnd, Listed, There
<1>4. ASSUME NEW i \in 1..Len(cold'), i = Len(cold) + 1, Carries(cold'[i], u), cold'[i].fix \/ ~h'.end
      PROVE  Whole(u)'
  <2>1. i \notin 1..Len(cold) /\ \A c \in 1..Len(cold') : i >= c /\ (c # i => i > c)
      BY <1>4 DEF Grows
  <2>2. Brings(h', cold'[i], u)
      BY <1>2, <1>4, <2>1, Zenon DEF Grows, Brings
  <2>3. cold'[i].kind # "end"
      BY <1>4 DEF Carries
  <2>4. h'.end => cold'[i].fix /\ NoFile(i, Len(cold))'
    <3>1. i = Len(cold')
        BY <1>4 DEF Grows
    <3> QED
        BY <1>4, <3>1, BarsOn, Zenon
  <2> QED
      BY <1>4, <2>1, <2>2, <2>3, <2>4, Zenon DEF Whole, Now, AtFile, AtEnd, Listed
<1>5. CASE Got(r, u) = Has(h', u)
  <2>1. There(u)'
      BY <1>5, Zenon DEF There
  <2>2. ASSUME NEW c \in 1..Len(cold'), cold'[c].kind = "boot" PROVE Brings(h', cold'[c], u) /\ c >= c
    <3>1. Carries(cold'[c], u)
        BY <2>2 DEF Carries
    <3>2. Got(r', u) <= Val(cold'[c], u) /\ Val(cold'[c], u) <= Has(h', u)
        BY <3>1, Zenon DEF Climbs
    <3>3. Val(cold'[c], u) \in Nat
        BY <1>1, <1>2, <3>1 DEF Grows
    <3>4. Val(cold'[c], u) = Has(h', u)
        BY <1>5, <3>2, <3>3
    <3> QED
        BY <3>1, <3>4 DEF Brings
  <2> QED
      BY <2>1, <2>2, Zenon DEF Whole, Now, AtFile, AtEnd, Listed
<1>6. CASE /\ Has(h', u) = Has(h, u) /\ (Owed(h, u) => Owed(h', u))
           /\ h'.end => \/ h.end /\ \A e \in h.queue : e.u = u => e \in h'.queue
                        \/ \E e \in h'.queue : e.u = u
  <2>1. \A i \in 1..Len(cold) : Brings(h, cold[i], u) => i \in 1..Len(cold') /\ Brings(h', cold'[i], u) /\ cold'[i] = cold[i]
      BY <1>6, Zenon DEF Grows, Brings
  <2>2. There(u) => There(u)'
    <3>1. Refused(u) => Refused(u)'
        BY <1>2, <1>6, Zenon DEF Refused, Grows
    <3> QED
        BY <1>6, <3>1, Zenon DEF There
  <2>3. Now(u)'
      BY <2>1, <2>2, Zenon DEF Whole, Now, Hole
  <2>4. AtFile(u)'
    <3> SUFFICES ASSUME NEW c \in 1..Len(cold'), cold'[c].kind = "boot"
                 PROVE  Owed(h', u) \/ \E i \in 1..Len(cold') : i >= c /\ Brings(h', cold'[i], u)
        BY Zenon DEF AtFile
    <3>1. CASE c \in 1..Len(cold)
      <4>1. Owed(h, u) \/ \E i \in 1..Len(cold) : i >= c /\ Brings(h, cold[i], u)
          BY <3>1, Zenon DEF Whole, AtFile, Grows
      <4> QED
          BY <1>6, <2>1, <4>1, Zenon
    <3>2. CASE NewFrame(cold'[c])
      <4>1. Brings(h', cold'[c], u)
          BY <1>2, <3>2, Zenon DEF Brings, Carries
      <4>2. c >= c
          OBVIOUS
      <4> QED
          BY <4>1, <4>2, Zenon
    <3> QED
        BY <3>1, <3>2, Zenon DEF Grows
  <2>5. AtEnd(u)'
    <3> SUFFICES ASSUME NEW c \in 1..Len(cold'), cold'[c].kind = "end"
                 PROVE  \/ Barred(c)' \/ There(u)'
                        \/ \E i \in 1..Len(cold') : /\ i > c \/ (cold'[i].fix /\ NoFile(i, c)')
                                                    /\ Brings(h', cold'[i], u)
        BY Zenon DEF AtEnd
    <3>1. CASE c \in 1..Len(cold)
      <4>1. \/ Barred(c) \/ There(u)
            \/ \E i \in 1..Len(cold) : (i > c \/ (cold[i].fix /\ NoFile(i, c))) /\ Brings(h, cold[i], u)
          BY <3>1, Zenon DEF Whole, AtEnd, Grows
      <4>2. \A i \in 1..Len(cold) : i \in Int
          OBVIOUS
      <4> QED
          BY <2>1, <2>2, <3>1, <4>1, <4>2, BarsOn, Zenon
    <3>2. cold'[c].kind # "boot"
        OBVIOUS
    <3>3. CASE c = Len(cold) + 1 /\ NewFrame(cold'[c])
      <4>1. h.end /\ h.queue = {}
          BY <3>3, Zenon DEF NewFrame
      <4>2. \/ Barred(Len(cold)) \/ There(u)
            \/ \E i \in 1..Len(cold) : cold[i].fix /\ NoFile(i, Len(cold)) /\ Brings(h, cold[i], u)
          BY <4>1, Zenon DEF Whole, Listed
      <4>3. \A k \in 1..Len(cold') : cold'[k].kind = "boot" => k \in 1..Len(cold) /\ cold'[k] = cold[k] /\ ~(k > Len(cold))
        <5>1. \A k \in 1..Len(cold') : cold'[k].kind = "boot" => k # c
            BY <3>2
        <5>2. \A k \in 1..Len(cold') : k \in 1..Len(cold) \/ k = c
            BY <3>3 DEF Grows
        <5>3. \A k \in 1..Len(cold) : cold'[k] = cold[k] /\ ~(k > Len(cold))
            BY DEF Grows
        <5> QED
            BY <5>1, <5>2, <5>3, Zenon
      <4>4. Barred(Len(cold)) => Barred(c)'
          BY <4>3, Zenon DEF Barred
      <4>5. \A i : NoFile(i, Len(cold)) => NoFile(i, c)'
          BY <4>3, Zenon DEF NoFile
      <4> QED
          BY <2>1, <2>2, <4>2, <4>4, <4>5, Zenon
    <3> QED
        BY <3>1, <3>3, Zenon DEF Grows
  <2>6. Listed(u)'
    <3> SUFFICES ASSUME h'.end
                 PROVE  \/ Barred(Len(cold))' \/ There(u)' \/ \E e \in h'.queue : e.u = u
                        \/ \E i \in 1..Len(cold') : cold'[i].fix /\ NoFile(i, Len(cold))' /\ Brings(h', cold'[i], u)
        BY Zenon DEF Listed
    <3>1. CASE h.end /\ \A e \in h.queue : e.u = u => e \in h'.queue
      <4>1. \/ Barred(Len(cold)) \/ There(u) \/ \E e \in h.queue : e.u = u
            \/ \E i \in 1..Len(cold) : cold[i].fix /\ NoFile(i, Len(cold)) /\ Brings(h, cold[i], u)
          BY <3>1, Zenon DEF Whole, Listed
      <4>2. \A i \in 1..Len(cold) : i \in Int
          OBVIOUS
      <4> QED
          BY <2>1, <2>2, <3>1, <4>1, <4>2, BarsOn, Zenon
    <3> QED
        BY <1>6, <3>1, Zenon
  <2> QED
      BY <2>3, <2>4, <2>5, <2>6 DEF Whole
<1> QED
    BY <1>3, <1>4, <1>5, <1>6, Zenon DEF WholeMove

\* Nothing new is told of any file, or a new file tells what it brings.
CoverMove(u) ==
    \/ /\ \A n \in Int : \A v \in Nat \ {0} : TellsOf(n, u, v)' => TellsOf(n, u, v)
       /\ \A i \in 1..Len(cold') : i \in 1..Len(cold) \/ cold'[i].kind # "boot"
    \/ /\ h'.gen = h.gen + 1 /\ h'.mpend[u] = 0 /\ ctl' = ctl
       /\ \A i \in 1..Len(cold') : i \in 1..Len(cold) \/ (cold'[i].gen = h'.gen /\ cold'[i].ver = h'.ver)

\* The digests of a file's batches stay behind the file.
LEMMA CoversOn ==
    ASSUME Shape, NEW u \in D, Covers(u), r' = r, Grows, CoverMove(u)
    PROVE  Covers(u)'
<1> SUFFICES ASSUME NEW n \in Int, NEW v \in Nat \ {0}, TellsOf(n, u, v)'
             PROVE  /\ r'.gen # None /\ r'.gen = n => v <= r'.ver[u]
                    /\ \A i \in 1..Len(cold') : cold'[i].kind = "boot" /\ cold'[i].gen = n => v <= cold'[i].ver[u]
    BY Zenon DEF Covers
<1>1. CASE /\ TellsOf(n, u, v)
           /\ \A i \in 1..Len(cold') : i \in 1..Len(cold) \/ cold'[i].kind # "boot" \/ cold'[i].gen # n
  <2>1. /\ r.gen # None /\ r.gen = n => v <= r.ver[u]
        /\ \A i \in 1..Len(cold) : cold[i].kind = "boot" /\ cold[i].gen = n => v <= cold[i].ver[u]
      BY <1>1, Zenon DEF Covers
  <2> QED
      BY <1>1, <2>1, Zenon DEF Grows
<1>2. CASE /\ h'.gen = h.gen + 1 /\ h'.mpend[u] = 0 /\ ctl' = ctl
           /\ \A i \in 1..Len(cold') : i \in 1..Len(cold) \/ (cold'[i].gen = h'.gen /\ cold'[i].ver = h'.ver)
  <2>1. /\ h.gen \in Int /\ \A b \in ctl : b.gen \in Int /\ b.gen <= h.gen
        /\ (r.gen # None => r.gen \in Int /\ r.gen <= h.gen)
        /\ \A i \in 1..Len(cold) : cold[i].kind = "boot" => cold[i].gen <= h.gen
      BY DEF Shape, HostOK, ReplicaOK, FrameOK
  <2>2. CASE n = h'.gen
    <3>1. ~\E b \in ctl' : BatchSays(b, n, u, v)
        BY <1>2, <2>1, <2>2 DEF BatchSays
    <3>2. v = h'.ver[u]
      <4>1. v # 0
          OBVIOUS
      <4> QED
          BY <1>2, <3>1, <4>1, Zenon DEF TellsOf, HostSays
    <3>3. v <= h'.ver[u]
        BY <3>2
    <3>4. ~(r.gen # None /\ r.gen = n) /\ \A i \in 1..Len(cold) : cold[i].kind = "boot" => cold[i].gen # n
        BY <1>2, <2>1, <2>2
    <3> QED
        BY <1>2, <3>3, <3>4, Zenon DEF Grows
  <2>3. CASE n # h'.gen
    <3>1. TellsOf(n, u, v)
        BY <1>2, <2>3, Zenon DEF TellsOf
    <3> QED
        BY <1>1, <1>2, <2>3, <3>1, Zenon
  <2> QED
      BY <2>2, <2>3
<1> QED
    BY <1>1, <1>2, Zenon DEF CoverMove

\* What is new on the fast lane.
NewPost(x) ==
    /\ x.seq <= h'.fseq
    /\ OfScene(x) => x.dig = h'.dig /\ x.after = h'.bootSeq
    /\ x.kind = "tomb" => Gone(h', x.u) /\ After(h, x.u) <= x.after /\ x.after \in Nat
Mail ==
    /\ h.fseq <= h'.fseq /\ h'.fseq \in Nat
    /\ \A x : (Afoot(x) => Afoot(x)') /\ (Afoot(x)' => Afoot(x) \/ NewPost(x))
    /\ \A i \in 1..Len(fast') : \/ i \in 1..Len(fast) /\ fast'[i] = fast[i]
                                \/ i > Len(fast) /\ NewPost(fast'[i])

\* The types of what is under way.
LEMMA PostTypes ==
    ASSUME Kinds
    PROVE  /\ Len(fast) \in Nat
           /\ \A x : Afoot(x) => x \in Post /\ x.seq \in Nat /\ x.dig \in Nat /\ x.after \in Nat
           /\ \A i \in 1..Len(fast) : Afoot(fast[i])
           /\ \A x \in r.mg.parked : Afoot(x)
<1>1. \A x \in Post : x.seq \in Nat /\ x.dig \in Nat /\ x.after \in Nat
    BY DEF Post
<1>2. fast \in Seq(Post) /\ r.mg.parked \subseteq Post
    BY DEF Kinds, ReplicaKinds, Merger
<1>3. Len(fast) \in Nat /\ \A i \in 1..Len(fast) : fast[i] \in Post
    BY <1>2
<1> QED
    BY <1>1, <1>2, <1>3, Zenon DEF Afoot

\* What is said of the fast messages still holds when some are added.
LEMMA PostsOn ==
    ASSUME Shape, Shape', Kinds, Kinds', Lined, Posts, r' = r, Grows, Later, Mail, h.dig <= h'.dig
    PROVE  Posts'
<1>1. /\ h.fseq \in Nat /\ h.dig \in Nat /\ h'.dig \in Nat /\ h.bootSeq \in Nat /\ h'.bootSeq \in Nat
      /\ h'.dig <= h'.sd /\ h'.sd \in Nat /\ h.bootSeq <= h'.bootSeq /\ r.dig \in Nat /\ r.sd \in Nat
  <2>1. h.bootSeq <= h'.bootSeq
      BY DEF Later, After, Things
  <2>2. h'.dig <= h'.sd /\ h'.dig \in Nat /\ h'.bootSeq \in Nat /\ h'.sd \in Nat
      BY Zenon DEF Kinds, HostKinds, Filed, Shape, HostOK
  <2> QED
      BY <2>1, <2>2, Zenon DEF Kinds, HostKinds, ReplicaKinds
<1>2. \A i \in 1..Len(cold') : cold'[i].kind = "boot" =>
          \/ i \in 1..Len(cold) /\ cold'[i] = cold[i] /\ cold[i].seq \in Nat /\ cold[i].seq <= h.bootSeq
          \/ cold'[i].sd = h'.sd
  <2> SUFFICES ASSUME NEW i \in 1..Len(cold'), cold'[i].kind = "boot"
               PROVE  \/ i \in 1..Len(cold) /\ cold'[i] = cold[i] /\ cold[i].seq \in Nat /\ cold[i].seq <= h.bootSeq
                      \/ cold'[i].sd = h'.sd
      OBVIOUS
  <2>1. Scene \in Things /\ Carries(cold'[i], Scene) /\ After(h, Scene) = h.bootSeq
      BY DEF Things, Carries, After
  <2>2. CASE i \in 1..Len(cold)
      BY <2>1, <2>2, Values, Zenon DEF Grows, Lined
  <2>3. CASE NewFrame(cold'[i])
    <3>1. Val(cold'[i], Scene) = Has(h', Scene)
        BY <2>1, <2>3, Zenon DEF NewFrame
    <3> QED
        BY <3>1 DEF Val, Has
  <2> QED
      BY <2>2, <2>3, Zenon DEF Grows
<1>3. ASSUME NEW x, Afoot(x) PROVE x.seq <= h'.fseq /\ (OfScene(x) => Fits(x)')
  <2>1. x.seq \in Nat /\ x.seq <= h.fseq /\ x.dig \in Nat /\ x.after \in Nat /\ (OfScene(x) => Fits(x))
      BY <1>3, PostTypes, Zenon DEF Posts
  <2>2. x.seq <= h'.fseq
      BY <1>1, <2>1 DEF Mail
  <2>3. ASSUME OfScene(x) PROVE Fits(x)'
    <3>1. /\ x.dig <= h.dig /\ x.after <= h.bootSeq /\ (r.dig > r.sd => r.dig <= x.dig)
          /\ \A i \in 1..Len(cold) : cold[i].kind = "boot" /\ cold[i].seq > x.after => x.dig <= cold[i].sd
        BY <2>1, <2>3, Zenon DEF Fits
    <3>2. x.dig <= h'.dig /\ x.after <= h'.bootSeq
        BY <1>1, <2>1, <3>1
    <3>3. ASSUME NEW i \in 1..Len(cold'), cold'[i].kind = "boot", cold'[i].seq > x.after PROVE x.dig <= cold'[i].sd
      <4>1. CASE cold'[i].sd = h'.sd
          BY <1>1, <2>1, <3>2, <4>1
      <4> QED
          BY <1>2, <3>1, <3>3, <4>1, Zenon
    <3> QED
        BY <3>1, <3>2, <3>3, Zenon DEF Fits
  <2> QED
      BY <2>2, <2>3
<1>4. ASSUME NEW x, NewPost(x), OfScene(x) PROVE Fits(x)'
  <2>1. x.dig = h'.dig /\ x.after = h'.bootSeq
      BY <1>4, Zenon DEF NewPost
  <2>2. r.dig > r.sd => r.dig <= x.dig
      BY <1>1, <2>1 DEF Posts
  <2>3. ASSUME NEW i \in 1..Len(cold'), cold'[i].kind = "boot", cold'[i].seq > x.after PROVE x.dig <= cold'[i].sd
    <3>1. CASE cold'[i].sd = h'.sd
        BY <1>1, <2>1, <3>1
    <3>2. CASE cold'[i] = cold[i] /\ cold[i].seq \in Nat /\ cold[i].seq <= h.bootSeq
        BY <1>1, <2>1, <2>3, <3>2
    <3> QED
        BY <1>2, <2>3, <3>1, <3>2, Zenon
  <2>4. x.dig <= h'.dig /\ x.after <= h'.bootSeq
      BY <1>1, <2>1
  <2> QED
      BY <2>2, <2>3, <2>4, Zenon DEF Fits
<1>5. \A x : Afoot(x)' => x.seq <= h'.fseq /\ (OfScene(x) => Fits(x)')
    BY <1>3, <1>4, Zenon DEF Mail, NewPost
<1>6. ASSUME NEW x, NEW y, Afoot(x), NewPost(y) PROVE InTurn(x, y)
  <2>1. x.dig \in Nat /\ (OfScene(x) => x.dig <= h.dig)
      BY <1>6, PostTypes, Zenon DEF Posts, Fits
  <2>2. OfScene(y) => y.dig = h'.dig
      BY <1>6, Zenon DEF NewPost
  <2> QED
      BY <1>1, <2>1, <2>2 DEF InTurn
<1>7. ASSUME NEW x, NEW y, NewPost(x), NewPost(y) PROVE InTurn(x, y)
    BY <1>1, <1>7 DEF InTurn, NewPost
<1>8. ASSUME NEW x, NEW y, Afoot(x)', Afoot(y)', x.after < y.after PROVE InTurn(x, y)
  <2>1. CASE Afoot(x) /\ Afoot(y)
      BY <1>8, <2>1, Zenon DEF Posts
  <2>2. CASE NewPost(x) /\ Afoot(y)
    <3>1. y.after \in Nat /\ (OfScene(y) => y.after <= h.bootSeq) /\ (OfScene(x) => x.after = h'.bootSeq)
        BY <2>2, PostTypes, Zenon DEF Posts, Fits, NewPost
    <3> QED
        BY <1>1, <1>8, <3>1 DEF InTurn
  <2> QED
      BY <1>6, <1>7, <1>8, <2>1, <2>2, Zenon DEF Mail
<1>9. ASSUME NEW i \in 1..Len(fast'), NEW j \in 1..Len(fast'), i < j PROVE InTurn(fast'[i], fast'[j])
  <2>1. j \in 1..Len(fast) => i \in 1..Len(fast) /\ ~(i > Len(fast))
      BY <1>9, PostTypes
  <2>2. CASE j \in 1..Len(fast) /\ fast'[j] = fast[j]
      BY <1>9, <2>1, <2>2, Zenon DEF Posts, Mail
  <2>3. CASE NewPost(fast'[j])
      BY <1>6, <1>7, <2>3, PostTypes, Zenon DEF Mail
  <2> QED
      BY <2>2, <2>3, Zenon DEF Mail
<1>10. ASSUME NEW x \in r'.mg.parked
       PROVE  x.after > r'.mg.coldApplied /\ \A i \in 1..Len(fast') : InTurn(x, fast'[i])
  <2>1. Afoot(x)
      BY <1>10, Zenon DEF Afoot
  <2> QED
      BY <1>6, <1>10, <2>1, Zenon DEF Posts, Mail
<1>11. r'.dig > r'.sd => r'.dig <= h'.dig
    BY <1>1 DEF Posts
<1> QED
    BY <1>5, <1>8, <1>9, <1>10, <1>11, Zenon DEF Posts

\* What is said of the tombstones still holds.
LEMMA GravesOn ==
    ASSUME Shape, Kinds, Lined, NEW u \in D, Graves(u), r' = r, Grows, Mail,
           Gone(h, u) => Gone(h', u),
           Gone(h', u) /\ u \notin h'.tombs => (Gone(h, u) /\ u \notin h.tombs) \/ \E x : Tomb(x, u)'
    PROVE  Graves(u)'
<1>0. u \in Things /\ Has(h', u) = h'.ver[u]
    BY DeltaAssumption DEF Things, Has
<1>1. Gone(h', u) => \A i \in 1..Len(cold') : Carries(cold'[i], u) /\ Val(cold'[i], u) # 0 => i \in 1..Len(cold)
    BY <1>0, Zenon DEF Grows, NewFrame, Gone
<1>2. \A i \in 1..Len(cold) : cold[i].seq \in Nat
    BY <1>0, Values
<1>3. ASSUME NEW x, Tomb(x, u)'
      PROVE  /\ Gone(h', u)
             /\ \A i \in 1..Len(cold') : Carries(cold'[i], u) /\ Val(cold'[i], u) # 0 => cold'[i].seq <= x.after
  <2>1. CASE Afoot(x)
    <3>1. Tomb(x, u)
        BY <1>3, <2>1, Zenon DEF Tomb
    <3> QED
        BY <1>1, <3>1, Zenon DEF Graves, Grows
  <2>2. CASE NewPost(x) /\ Afoot(x)'
    <3>1. Gone(h', u) /\ After(h, u) <= x.after /\ x.after \in Nat
        BY <1>3, <2>2, Zenon DEF NewPost, Tomb
    <3>2. After(h, u) \in Nat
        BY DEF Kinds, HostKinds, After, Versions
    <3>3. ASSUME NEW i \in 1..Len(cold'), Carries(cold'[i], u), Val(cold'[i], u) # 0
          PROVE  cold'[i].seq <= x.after
      <4>1. i \in 1..Len(cold) /\ cold'[i] = cold[i]
          BY <1>1, <3>1, <3>3, Zenon DEF Grows
      <4>2. cold[i].seq <= After(h, u) /\ cold[i].seq \in Nat
          BY <1>0, <1>2, <3>3, <4>1, Zenon DEF Lined
      <4> QED
          BY <3>1, <3>2, <4>1, <4>2
    <3> QED
        BY <3>1, <3>3
  <2> QED
      BY <1>3, <2>1, <2>2, Zenon DEF Mail, Tomb
<1>4. ASSUME Gone(h', u), u \notin h'.tombs, \A x : ~Tomb(x, u)'
      PROVE  r'.ver[u] = 0 /\ ~Brought(u)'
  <2>1. Gone(h, u) /\ u \notin h.tombs
      BY <1>4, Zenon
  <2>2. \A x : ~Tomb(x, u)
      BY <1>4, Zenon DEF Tomb, Mail
  <2>3. r.ver[u] = 0 /\ ~Brought(u)
      BY <2>1, <2>2, Zenon DEF Graves
  <2> QED
      BY <1>1, <1>4, <2>3, Zenon DEF Brought, Grows
<1> QED
    BY <1>3, <1>4, Zenon DEF Graves

\* What a step of the host does, one thing at a time.
Move ==
    /\ r' = r /\ Grows /\ Later /\ Mail /\ fast' \in Seq(Post)
    /\ HostKinds(h') /\ h'.fout = <<>> /\ h.dig <= h'.dig
    /\ \A u \in D : /\ Gone(h, u) => Gone(h', u)
                    /\ u \notin h'.born => h'.ver[u] = 0
                    /\ Gone(h', u) /\ u \notin h'.tombs =>
                           (Gone(h, u) /\ u \notin h.tombs) \/ \E x : Tomb(x, u)'
                    /\ ~Gone(h', u) => HashMove(u) /\ CoverMove(u)
    /\ \A u \in Things : ~Gone(h', u) => Has(h, u) <= Has(h', u) /\ Asked(h', u) /\ WholeMove(u)

\* Such a step keeps the invariant.
LEMMA HostKeeps ==
    ASSUME Shape, Shape', Mended, Move
    PROVE  Mended'
<1>1. Kinds' /\ Lined' /\ Posts'
  <2>1. Kinds'
      BY Zenon DEF Move, Mended, Kinds
  <2> QED
      BY <2>1, LinedGrows, PostsOn, Zenon DEF Move, Mended
<1>2. ASSUME NEW u \in Things, ~Gone(h', u)
      PROVE  ~Gone(h, u) /\ Climbs(u)' /\ Behind(u)' /\ Whole(u)'
  <2>1. ~Gone(h, u)
      BY <1>2, DeltaAssumption DEF Move, Mended, Kinds, HostKinds, Gone, Things
  <2>2. Has(h', u) \in Nat
    <3>1. h'.ver \in [D -> Nat] /\ h'.sd \in Nat
        BY Zenon DEF Shape, HostOK, Versions
    <3> QED
        BY <3>1 DEF Has, Things
  <2>3. Climbs(u)'
      BY <1>2, <2>1, <2>2, ClimbsOn, Zenon DEF Move, Mended
  <2>4. Behind(u)'
    <3>1. Claim(r, u) <= Got(r, u)
        BY <2>1, Zenon DEF Mended, Behind
    <3>2. r' = r /\ Asked(h', u)
        BY <1>2, Zenon DEF Move
    <3> QED
        BY <3>1, <3>2, Zenon DEF Behind, Asked
  <2>5. Whole(u)'
      BY <1>2, <2>1, <2>2, <2>3, WholeOn, Zenon DEF Move, Mended
  <2> QED
      BY <2>1, <2>3, <2>4, <2>5
<1>3. ASSUME NEW u \in D
      PROVE  /\ Graves(u)' /\ (u \notin h'.born => h'.ver[u] = 0)
             /\ (~Gone(h', u) => Hashed(u)' /\ Covers(u)')
  <2>1. Graves(u)'
      BY GravesOn, Zenon DEF Move, Mended
  <2>2. ASSUME ~Gone(h', u) PROVE Hashed(u)' /\ Covers(u)'
    <3>1. u \in Things
        BY DEF Things
    <3>2. ~Gone(h, u) /\ Climbs(u)'
        BY <1>2, <2>2, <3>1
    <3>3. h'.ver[u] \in Nat
        BY DEF Shape, HostOK, Versions
    <3> QED
        BY <2>2, <3>2, <3>3, HashedOn, CoversOn, Zenon DEF Move, Mended
  <2> QED
      BY <2>1, <2>2, Zenon DEF Move
<1> QED
    BY <1>1, <1>2, <1>3, Zenon DEF Mended

\* The lanes after a step that puts one frame, or nothing, on the cold one.
LEMMA GrowsByOne ==
    ASSUME Shape, NEW m \in Frame, NewFrame(m), cold' = cold \o <<m>>
    PROVE  /\ Grows /\ cold'[Len(cold) + 1] = m /\ Len(cold) + 1 \in 1..Len(cold')
           /\ \A i \in 1..Len(cold') : i \in 1..Len(cold) \/ cold'[i] = m
<1>1. PICK q : q = cold'
    OBVIOUS
<1>2. cold \in Seq(Frame)
    BY DEF Shape
<1>3. q = cold \o <<m>>
    BY <1>1
<1>4. /\ q \in Seq(Frame) /\ Len(q) = Len(cold) + 1 /\ Len(cold) \in Nat
      /\ \A i \in 1..Len(cold) : q[i] = cold[i] /\ i \in 1..Len(q)
      /\ q[Len(cold) + 1] = m /\ Len(cold) + 1 \in 1..Len(q)
      /\ \A i \in 1..Len(q) : i \in 1..Len(cold) \/ i = Len(cold) + 1
    BY <1>2, <1>3, OneMore
<1>5. Len(q) \in Nat
    BY <1>4
<1> QED
    BY <1>1, <1>4, <1>5, Zenon DEF Grows

\* A step that puts nothing on the cold lane.
LEMMA GrowsNot ==
    ASSUME Shape, cold' = cold
    PROVE  Grows /\ \A i \in 1..Len(cold') : i \in 1..Len(cold)
<1>1. Len(cold) \in Nat
    BY DEF Shape
<1> QED
    BY <1>1, Zenon DEF Grows

\* And some messages, or none, on the fast one.
LEMMA MailSent ==
    ASSUME Kinds, r' = r, NEW q \in Seq(Post), fast' = fast \o q,
           \A i \in 1..Len(q) : NewPost(q[i]), h.fseq <= h'.fseq, h'.fseq \in Nat
    PROVE  Mail /\ fast' \in Seq(Post) /\ \A i \in 1..Len(q) : Afoot(q[i])'
<1>1. PICK f : f = fast'
    OBVIOUS
<1>2. fast \in Seq(Post)
    BY DEF Kinds
<1>3. f = fast \o q
    BY <1>1
<1>4. /\ f \in Seq(Post) /\ Len(f) = Len(fast) + Len(q) /\ Len(fast) \in Nat /\ Len(q) \in Nat
      /\ \A i \in 1..Len(f) : f[i] = IF i <= Len(fast) THEN fast[i] ELSE q[i - Len(fast)]
    BY <1>2, <1>3
<1>5. \A i \in 1..Len(fast) : i \in 1..Len(f) /\ f[i] = fast[i]
    BY <1>4
<1>6. ASSUME NEW j \in 1..Len(q) PROVE Len(fast) + j \in 1..Len(f) /\ f[Len(fast) + j] = q[j]
  <2>1. Len(fast) + j \in 1..Len(f) /\ ~(Len(fast) + j <= Len(fast)) /\ (Len(fast) + j) - Len(fast) = j
      BY <1>4
  <2> QED
      BY <1>4, <2>1
<1>7. ASSUME NEW i \in 1..Len(f)
      PROVE  i \in 1..Len(fast) \/ (i > Len(fast) /\ \E j \in 1..Len(q) : f[i] = q[j])
  <2>1. CASE i <= Len(fast)
      BY <1>4, <2>1
  <2>2. CASE ~(i <= Len(fast))
    <3>1. i > Len(fast) /\ i - Len(fast) \in 1..Len(q) /\ f[i] = q[i - Len(fast)]
        BY <1>4, <2>2
    <3> QED
        BY <3>1, Zenon
  <2> QED
      BY <2>1, <2>2
<1>8. \A x : (Afoot(x) => Afoot(x)') /\ (Afoot(x)' => Afoot(x) \/ NewPost(x))
  <2>1. ASSUME NEW x, Afoot(x) PROVE Afoot(x)'
      BY <1>1, <1>5, <2>1, Zenon DEF Afoot
  <2>2. ASSUME NEW x, Afoot(x)' PROVE Afoot(x) \/ NewPost(x)
    <3>1. CASE x \in r.mg.parked
        BY <3>1, Zenon DEF Afoot
    <3>2. ASSUME NEW i \in 1..Len(f), f[i] = x PROVE Afoot(x) \/ NewPost(x)
      <4>1. CASE i \in 1..Len(fast)
          BY <1>5, <3>2, <4>1, Zenon DEF Afoot
      <4>2. CASE \E j \in 1..Len(q) : f[i] = q[j]
          BY <3>2, <4>2, Zenon
      <4> QED
          BY <1>7, <4>1, <4>2, Zenon
    <3> QED
        BY <1>1, <2>2, <3>1, <3>2, Zenon DEF Afoot
  <2> QED
      BY <2>1, <2>2, Zenon
<1>9. \A i \in 1..Len(f) : \/ i \in 1..Len(fast) /\ f[i] = fast[i]
                           \/ i > Len(fast) /\ NewPost(f[i])
    BY <1>5, <1>7, Zenon
<1>10. Mail
    BY <1>1, <1>8, <1>9, Zenon DEF Mail
<1> QED
    BY <1>1, <1>4, <1>6, <1>10, Zenon DEF Afoot

\* A step that puts nothing on the fast lane.
LEMMA NoMail ==
    ASSUME Kinds, r' = r, fast' = fast, h'.fseq = h.fseq
    PROVE  Mail /\ fast' \in Seq(Post)
<1>1. h.fseq \in Nat /\ fast \in Seq(Post) /\ h.fseq <= h'.fseq
    BY DEF Kinds, HostKinds
<1>2. \A x : Afoot(x)' <=> Afoot(x)
    BY Zenon DEF Afoot
<1>3. \A i \in 1..Len(fast') : i \in 1..Len(fast) /\ fast'[i] = fast[i]
    OBVIOUS
<1> QED
    BY <1>1, <1>2, <1>3, Zenon DEF Mail

\* A step that puts one message on the fast lane.
LEMMA OneSent ==
    ASSUME Kinds, r' = r, NEW x \in Post, fast' = fast \o <<x>>, NewPost(x), h'.fseq = h.fseq + 1
    PROVE  Mail /\ fast' \in Seq(Post) /\ Afoot(x)'
<1>1. PICK q : q = <<x>>
    OBVIOUS
<1>2. q \in Seq(Post) /\ 1 \in 1..Len(q) /\ q[1] = x /\ \A i \in 1..Len(q) : q[i] = x
    BY <1>1
<1>3. h.fseq <= h'.fseq /\ h'.fseq \in Nat
    BY DEF Kinds, HostKinds
<1>4. fast' = fast \o q /\ \A i \in 1..Len(q) : NewPost(q[i])
    BY <1>1, <1>2, Zenon
<1>5. Mail /\ fast' \in Seq(Post) /\ \A i \in 1..Len(q) : Afoot(q[i])'
    BY <1>2, <1>3, <1>4, MailSent, Zenon
<1> QED
    BY <1>2, <1>5, Zenon

\* Nothing new is told by a tame step.
LEMMA TameTells ==
    ASSUME NEW g, Tame(g), Host(g), ctl' = ctl, NEW u \in D, NEW n \in Int, NEW v \in Nat \ {0}, TellsOf(n, u, v)'
    PROVE  TellsOf(n, u, v)
<1>1. h' = [g EXCEPT !.out = <<>>, !.fout = <<>>] /\ HostKeys \subseteq DOMAIN g
    BY DEF Host, Tame, HostOK
<1>2. h'.ver = g.ver /\ h'.hash = g.hash /\ h'.mpend = g.mpend /\ h'.gen = g.gen /\ h'.dirty = g.dirty /\ h'.prime = g.prime
    BY <1>1 DEF HostKeys
<1>3. HostSays(h', u, v) => HostSays(g, u, v)
    BY <1>2, Zenon DEF HostSays
<1> QED
    BY <1>2, <1>3, Zenon DEF TellsOf, Tame

\* The fields of the host, in groups.
SceneLike(g, n) ==
    /\ n.ver = g.ver /\ n.sd = g.sd /\ n.born = g.born /\ n.dirty = g.dirty /\ n.tombs = g.tombs
    /\ n.shipped = g.shipped
BookLike(g, n) == n.hash = g.hash /\ n.mpend = g.mpend /\ n.prime = g.prime /\ n.gen = g.gen
AskLike(g, n) == n.manifest = g.manifest /\ n.req = g.req /\ n.dig = g.dig
ListLike(g, n) == n.queue = g.queue /\ n.tail = g.tail /\ n.end = g.end
CountLike(g, n) == n.seq = g.seq /\ n.fseq = g.fseq /\ n.bootSeq = g.bootSeq /\ n.at = g.at
OutLike(g, n) == n.out = g.out /\ n.fout = g.fout

\* What a step has sent goes onto the lanes, the rest is the host's next state.
LEMMA Shipped ==
    ASSUME NEW g, HostKeys \subseteq DOMAIN g, Host(g)
    PROVE  /\ SceneLike(g, h') /\ BookLike(g, h') /\ AskLike(g, h') /\ ListLike(g, h') /\ CountLike(g, h')
           /\ h'.fout = <<>> /\ cold' = cold \o g.out /\ fast' = fast \o g.fout
<1>1. /\ h' = [g EXCEPT !.out = <<>>, !.fout = <<>>]
      /\ cold' = cold \o g.out /\ fast' = fast \o g.fout
    BY DEF Host
<1>2. h'.fout = <<>> /\ SceneLike(g, h') /\ BookLike(g, h')
    BY <1>1 DEF HostKeys, SceneLike, BookLike
<1>3. AskLike(g, h') /\ ListLike(g, h') /\ CountLike(g, h')
    BY <1>1 DEF HostKeys, AskLike, ListLike, CountLike
<1> QED
    BY <1>1, <1>2, <1>3

\* What the invariant says of the host alone.
LEMMA MendedFacts ==
    ASSUME Shape, Mended
    PROVE  /\ Kinds /\ Lined /\ Posts /\ HostKinds(h) /\ h.fout = <<>> /\ fast \in Seq(Post) /\ cold \in Seq(Frame)
           /\ \A u \in D : /\ u \in Things /\ Has(h, u) = h.ver[u] /\ Got(r, u) = r.ver[u]
                           /\ h.ver[u] \in Nat /\ h.hash[u] \in Nat /\ h.mpend[u] \in Nat /\ After(h, u) \in Nat
                           /\ (u \notin h.born => h.ver[u] = 0)
           /\ \A u \in Things : /\ Has(h, u) \in Nat /\ Got(r, u) \in Nat /\ After(h, u) \in Nat
                                /\ (u \notin D => u = Scene /\ ~Gone(h, u))
                                /\ (~Gone(h, u) => Climbs(u) /\ Asked(h, u) /\ Whole(u))
           /\ Scene \in Things /\ Scene \notin D
<1>1. Kinds /\ Lined /\ Posts /\ HostKinds(h) /\ h.fout = <<>> /\ fast \in Seq(Post) /\ cold \in Seq(Frame)
    BY Zenon DEF Mended, Kinds, Shape
<1>2. ASSUME NEW u \in D
      PROVE  /\ u \in Things /\ Has(h, u) = h.ver[u] /\ Got(r, u) = r.ver[u]
             /\ h.ver[u] \in Nat /\ h.hash[u] \in Nat /\ h.mpend[u] \in Nat /\ After(h, u) \in Nat
             /\ (u \notin h.born => h.ver[u] = 0)
  <2>1. u \in Things /\ Has(h, u) = h.ver[u] /\ Got(r, u) = r.ver[u]
      BY DeltaAssumption DEF Things, Has, Got
  <2>2. h.ver[u] \in Nat /\ h.hash[u] \in Nat /\ h.mpend[u] \in Nat
      BY HostFacts DEF Versions
  <2>3. After(h, u) \in Nat
      BY <1>1 DEF HostKinds, After, Versions
  <2> QED
      BY <2>1, <2>2, <2>3, Zenon DEF Mended
<1>3. ASSUME NEW u \in Things
      PROVE  /\ Has(h, u) \in Nat /\ Got(r, u) \in Nat /\ After(h, u) \in Nat
             /\ (u \notin D => u = Scene /\ ~Gone(h, u))
             /\ (~Gone(h, u) => Climbs(u) /\ Asked(h, u) /\ Whole(u))
  <2>1. Has(h, u) \in Nat /\ Got(r, u) \in Nat
      BY <1>1, Values
  <2>2. u \notin D => u = Scene /\ ~Gone(h, u)
      BY <1>1 DEF HostKinds, Gone, Things
  <2>3. After(h, u) \in Nat
      BY <1>1, <1>2, <2>2 DEF HostKinds, After
  <2> QED
      BY <2>1, <2>2, <2>3, Zenon DEF Mended, Behind
<1>4. Scene \in Things /\ Scene \notin D
    BY DeltaAssumption DEF Things
<1> QED
    BY <1>1, <1>2, <1>3, <1>4

\* A step that sends nothing leaves the lanes and the counts as they are.
LEMMA StillLanes ==
    ASSUME Shape, Mended, r' = r, cold' = cold, fast' = fast, CountLike(h, h')
    PROVE  Grows /\ Later /\ Mail /\ fast' \in Seq(Post) /\ \A i \in 1..Len(cold') : i \in 1..Len(cold)
<1>1. Kinds /\ h'.fseq = h.fseq
    BY MendedFacts DEF CountLike
<1>2. Later
  <2>1. h'.seq = h.seq /\ \A u \in Things : After(h', u) = After(h, u)
      BY Zenon DEF CountLike, After
  <2>2. h.seq \in Nat /\ \A u \in Things : After(h, u) \in Nat
      BY HostFacts, MendedFacts
  <2> QED
      BY <2>1, <2>2 DEF Later
<1> QED
    BY <1>1, <1>2, GrowsNot, NoMail

\* The parts of the host's types that a step leaves alone.
LEMMA KindsLike ==
    ASSUME Shape, Mended, CountLike(h, h'), AskLike(h, h')
    PROVE  /\ h'.at \in Versions /\ h'.bootSeq \in Nat /\ h'.fseq \in Nat /\ h'.dig \in Nat
           /\ h'.bootSeq <= h'.seq /\ (\A u \in D : h'.at[u] <= h'.seq)
           /\ (h'.manifest # None => Inventory(h'.manifest)) /\ (h'.req.at = "answered" => Inventory(h'.req))
BY MendedFacts, Zenon DEF HostKinds, CountLike, AskLike

\* What was asked is as it was, or partly done with.
LEMMA AskedLike ==
    ASSUME NEW u, Asked(h, u), r' = r, h'.manifest = h.manifest, h'.req = h.req, h'.queue \subseteq h.queue
    PROVE  Asked(h', u)
BY Zenon DEF Asked

\* A datablock is changed or made.
LEMMA ChangedMoves ==
    ASSUME Shape, Mended, NEW u \in D, Edit(u) \/ Create(u)
    PROVE  Move
<1>1. PICK g : Tame(g) /\ Host(g)
    BY EditsTame, Zenon
<1>2. r' = r /\ ctl' = ctl
    BY DEF Edit, Create, Change
<1>3. /\ BookLike(h, h') /\ AskLike(h, h') /\ ListLike(h, h') /\ CountLike(h, h')
      /\ h'.fout = <<>> /\ cold' = cold \o <<>> /\ fast' = fast \o <<>>
      /\ h'.sd = h.sd /\ h'.tombs = h.tombs /\ h'.shipped = h.shipped
      /\ h'.dirty = h.dirty \union {u} /\ h'.born = h.born \union {u} /\ ~Gone(h, u)
      /\ h'.ver[u] > h.ver[u] /\ h'.ver[u] \in Nat /\ \A w \in D : w # u => h'.ver[w] = h.ver[w]
  <2>1. CASE Edit(u)
    <3> DEFINE n == [h EXCEPT !.ver[u] = @ + 1, !.dirty = @ \union {u}]
    <3>1. Host(n) /\ h.ver[u] # 0
        BY <2>1 DEF Edit, Change, Live
    <3>2. /\ BookLike(h, n) /\ AskLike(h, n) /\ ListLike(h, n) /\ CountLike(h, n) /\ OutLike(h, n)
          /\ n.sd = h.sd /\ n.tombs = h.tombs /\ n.shipped = h.shipped /\ n.born = h.born
          /\ n.dirty = h.dirty \union {u} /\ n.ver = [h.ver EXCEPT ![u] = @ + 1] /\ HostKeys \subseteq DOMAIN n
        BY HostFacts DEF HostKeys, BookLike, AskLike, ListLike, CountLike, OutLike
    <3> HIDE DEF n
    <3>3. n.ver[u] = h.ver[u] + 1 /\ \A w \in D : w # u => n.ver[w] = h.ver[w]
        BY <3>2, HostFacts DEF Versions
    <3>4. n.ver[u] > h.ver[u] /\ n.ver[u] \in Nat
        BY <3>3, MendedFacts
    <3>5. u \in h.born /\ h.born \union {u} = h.born
        BY <3>1, MendedFacts
    <3>6. n.out = <<>> /\ n.fout = <<>>
        BY <3>2, HostFacts, MendedFacts, Zenon DEF OutLike
    <3>7. /\ SceneLike(n, h') /\ BookLike(n, h') /\ AskLike(n, h') /\ ListLike(n, h') /\ CountLike(n, h')
          /\ h'.fout = <<>> /\ cold' = cold \o n.out /\ fast' = fast \o n.fout
        BY <3>1, <3>2, Shipped
    <3> QED
        BY <3>1, <3>2, <3>3, <3>4, <3>5, <3>6, <3>7, Zenon
        DEF SceneLike, BookLike, AskLike, ListLike, CountLike, Gone
  <2>2. CASE Create(u)
    <3> DEFINE n == [h EXCEPT !.ver[u] = 1, !.born = @ \union {u}, !.dirty = @ \union {u}]
    <3>1. Host(n) /\ u \notin h.born
        BY <2>2 DEF Create, Change
    <3>2. /\ BookLike(h, n) /\ AskLike(h, n) /\ ListLike(h, n) /\ CountLike(h, n) /\ OutLike(h, n)
          /\ n.sd = h.sd /\ n.tombs = h.tombs /\ n.shipped = h.shipped /\ n.born = h.born \union {u}
          /\ n.dirty = h.dirty \union {u} /\ n.ver = [h.ver EXCEPT ![u] = 1] /\ HostKeys \subseteq DOMAIN n
        BY HostFacts DEF HostKeys, BookLike, AskLike, ListLike, CountLike, OutLike
    <3> HIDE DEF n
    <3>3. n.ver[u] = 1 /\ \A w \in D : w # u => n.ver[w] = h.ver[w]
        BY <3>2, HostFacts DEF Versions
    <3>4. h.ver[u] = 0
        BY <3>1, MendedFacts
    <3>5. n.ver[u] > h.ver[u] /\ n.ver[u] \in Nat
        BY <3>3, <3>4
    <3>6. n.out = <<>> /\ n.fout = <<>>
        BY <3>2, HostFacts, MendedFacts, Zenon DEF OutLike
    <3>7. /\ SceneLike(n, h') /\ BookLike(n, h') /\ AskLike(n, h') /\ ListLike(n, h') /\ CountLike(n, h')
          /\ h'.fout = <<>> /\ cold' = cold \o n.out /\ fast' = fast \o n.fout
        BY <3>1, <3>2, Shipped
    <3> QED
        BY <3>1, <3>2, <3>3, <3>5, <3>6, <3>7, Zenon
        DEF SceneLike, BookLike, AskLike, ListLike, CountLike, Gone
  <2> QED
      BY <2>1, <2>2
<1>4. cold' = cold /\ fast' = fast
    BY <1>3, MendedFacts
<1>5. Grows /\ Later /\ Mail /\ fast' \in Seq(Post) /\ \A i \in 1..Len(cold') : i \in 1..Len(cold)
    BY <1>2, <1>3, <1>4, StillLanes, Zenon
<1>6. h.ver[u] \in Nat /\ h.ver[u] <= h'.ver[u] /\ h'.ver[u] # 0 /\ h'.ver[u] # h.ver[u]
    BY <1>3, MendedFacts
<1>7. \A w \in D : /\ Gone(h', w) => w # u /\ Gone(h, w)
                   /\ Gone(h, w) => Gone(h', w)
    BY <1>3, <1>6 DEF Gone
<1>8. HostKinds(h')
  <2>1. h'.born \subseteq D /\ h'.tail \subseteq h'.born \union {Scene}
      BY <1>3, MendedFacts DEF HostKinds, ListLike
  <2>2. \A w \in h'.tombs : Gone(h', w)
      BY <1>3, <1>7, MendedFacts DEF HostKinds, Gone
  <2>3. \A e \in h'.queue : e.u \in h'.born /\ e.expect \in Nat
      BY <1>3, MendedFacts DEF HostKinds, ListLike
  <2>4. Filed(h')
      BY <1>3, MendedFacts, Zenon DEF HostKinds, AskLike, Filed
  <2> QED
      BY <1>3, <2>1, <2>2, <2>3, <2>4, KindsLike, Zenon DEF HostKinds
<1>9. ASSUME NEW w \in D
      PROVE  /\ Gone(h, w) => Gone(h', w)
             /\ w \notin h'.born => h'.ver[w] = 0
             /\ Gone(h', w) /\ w \notin h'.tombs => Gone(h, w) /\ w \notin h.tombs
             /\ ~Gone(h', w) => HashMove(w) /\ CoverMove(w)
  <2>1. w \notin h'.born => h'.ver[w] = 0
      BY <1>3, MendedFacts
  <2>2. HashMove(w)
    <3>1. h'.hash[w] = h.hash[w] /\ h.ver[w] <= h'.ver[w]
      <4>1. h'.hash[w] = h.hash[w] /\ (w = u \/ h'.ver[w] = h.ver[w])
          BY <1>3, Zenon DEF BookLike
      <4>2. h.ver[w] \in Nat
          BY MendedFacts, Zenon
      <4> QED
          BY <1>6, <4>1, <4>2
    <3>2. w \in h'.dirty \/ (h'.ver[w] = h.ver[w] /\ w \notin h.dirty)
        BY <1>3
    <3> QED
        BY <1>5, <3>1, <3>2, Zenon DEF HashMove
  <2>3. CoverMove(w)
      BY <1>1, <1>2, <1>5, TameTells, Zenon DEF CoverMove
  <2> QED
      BY <1>3, <1>7, <2>1, <2>2, <2>3, Zenon
<1>10. ASSUME NEW w \in Things, ~Gone(h', w)
       PROVE  Has(h, w) <= Has(h', w) /\ Asked(h', w) /\ WholeMove(w)
  <2>1. ~Gone(h, w)
      BY <1>7, <1>10, MendedFacts, Zenon
  <2>2. Asked(h', w)
      BY <1>2, <1>3, <2>1, MendedFacts, AskedLike, Zenon DEF AskLike, ListLike
  <2>3. CASE w = u
    <3>1. Has(h', w) = h'.ver[u] /\ Has(h, w) = h.ver[u]
        BY <2>3, MendedFacts DEF Has
    <3>2. Owed(h', w)
      <4>1. Hashed(u)
          BY <2>1, <2>3, Zenon DEF Mended
      <4>2. h'.hash[u] # h'.ver[u]
          BY <1>3, <1>6, <4>1, MendedFacts DEF Hashed, BookLike
      <4> QED
          BY <1>3, <2>3, <4>2, MendedFacts DEF Owed
    <3> QED
        BY <1>6, <2>2, <3>1, <3>2, Zenon DEF WholeMove
  <2>4. CASE w # u
    <3>1. Has(h', w) = Has(h, w)
        BY <1>3, <2>4, MendedFacts DEF Has, Things
    <3>2. Owed(h, w) => Owed(h', w)
        BY <1>3, <2>4, MendedFacts DEF Owed, Things, BookLike
    <3>3. Has(h, w) <= Has(h', w)
        BY <3>1, MendedFacts
    <3>4. h'.end = h.end /\ h'.queue = h.queue
        BY <1>3 DEF ListLike
    <3> QED
        BY <2>2, <3>1, <3>2, <3>3, <3>4, Zenon DEF WholeMove
  <2> QED
      BY <2>3, <2>4
<1>11. h.dig <= h'.dig
    BY <1>3, MendedFacts DEF HostKinds, AskLike
<1> QED
    BY <1>2, <1>3, <1>5, <1>8, <1>9, <1>10, <1>11, Zenon DEF Move

\* A step in which the artist changes nothing.
LEMMA Unedited ==
    ASSUME Shape, Mended, r' = r, Grows, Later, Mail, fast' \in Seq(Post), HostKinds(h'), h'.fout = <<>>,
           h.dig <= h'.dig, h'.ver = h.ver, h'.sd = h.sd, h'.born = h.born,
           \A u \in D : u \in h.tombs => u \in h'.tombs \/ \E x : Tomb(x, u)',
           \A u \in D : ~Gone(h, u) => HashMove(u) /\ CoverMove(u),
           \A u \in Things : ~Gone(h, u) => Asked(h', u) /\ WholeMove(u)
    PROVE  Move
<1>1. \A u : Gone(h', u) <=> Gone(h, u)
    BY Zenon DEF Gone
<1>2. \A u \in Things : Has(h', u) = Has(h, u)
    BY Zenon DEF Has
<1>3. \A u \in Things : Has(h, u) <= Has(h', u)
    BY <1>2, MendedFacts
<1>4. \A u \in D : u \notin h'.born => h'.ver[u] = 0
    BY MendedFacts, Zenon
<1> QED
    BY <1>1, <1>3, <1>4, Zenon DEF Move

\* What is not touched is where it was.
LEMMA Stays ==
    ASSUME NEW u, Has(h', u) = Has(h, u), Owed(h, u) => Owed(h', u),
           h'.end => h.end /\ \A e \in h.queue : e.u = u => e \in h'.queue
    PROVE  WholeMove(u)
BY Zenon DEF WholeMove

\* A digest is left alone.
LEMMA StaysHashed ==
    ASSUME Shape, Mended, NEW u \in D, h'.hash[u] = h.hash[u], h'.ver[u] = h.ver[u], u \in h'.dirty <=> u \in h.dirty,
           \A i \in 1..Len(cold') : i \in 1..Len(cold) \/ ~Carries(cold'[i], u)
    PROVE  HashMove(u)
<1>1. h.ver[u] <= h'.ver[u]
    BY MendedFacts
<1> QED
    BY <1>1, Zenon DEF HashMove

\* A datablock is deleted.
LEMMA DeletedMoves ==
    ASSUME Shape, Mended, NEW u \in D, Delete(u)
    PROVE  Move
<1> DEFINE n == [h EXCEPT !.ver[u] = 0, !.dirty = @ \ {u}, !.tombs = @ \union {u}]
<1>1. PICK g : Tame(g) /\ Host(g)
    BY EditsTame, Zenon
<1>2. r' = r /\ ctl' = ctl /\ Host(n) /\ h.ver[u] # 0
    BY DEF Delete, Change, Live
<1>3. /\ BookLike(h, n) /\ AskLike(h, n) /\ ListLike(h, n) /\ CountLike(h, n) /\ OutLike(h, n)
      /\ n.sd = h.sd /\ n.tombs = h.tombs \union {u} /\ n.shipped = h.shipped /\ n.born = h.born
      /\ n.dirty = h.dirty \ {u} /\ n.ver = [h.ver EXCEPT ![u] = 0] /\ HostKeys \subseteq DOMAIN n
    BY HostFacts DEF HostKeys, BookLike, AskLike, ListLike, CountLike, OutLike
<1> HIDE DEF n
<1>4. n.ver[u] = 0 /\ (\A w \in D : w # u => n.ver[w] = h.ver[w]) /\ n.out = <<>> /\ n.fout = <<>> /\ u \in h.born
    BY <1>2, <1>3, HostFacts, MendedFacts DEF Versions, OutLike
<1>5. /\ SceneLike(n, h') /\ BookLike(n, h') /\ AskLike(n, h') /\ ListLike(n, h') /\ CountLike(n, h')
      /\ h'.fout = <<>> /\ cold' = cold \o n.out /\ fast' = fast \o n.fout
    BY <1>2, <1>3, Shipped
<1>6. /\ BookLike(h, h') /\ AskLike(h, h') /\ ListLike(h, h') /\ CountLike(h, h')
      /\ h'.sd = h.sd /\ h'.tombs = h.tombs \union {u} /\ h'.shipped = h.shipped /\ h'.born = h.born
      /\ h'.dirty = h.dirty \ {u} /\ h'.ver[u] = 0 /\ \A w \in D : w # u => h'.ver[w] = h.ver[w]
    BY <1>3, <1>4, <1>5, Zenon DEF SceneLike, BookLike, AskLike, ListLike, CountLike
<1>7. cold' = cold /\ fast' = fast
    BY <1>4, <1>5, MendedFacts
<1>8. Grows /\ Later /\ Mail /\ fast' \in Seq(Post) /\ \A i \in 1..Len(cold') : i \in 1..Len(cold)
    BY <1>2, <1>6, <1>7, StillLanes, Zenon
<1>9. \A w \in D : /\ Gone(h', w) => w = u \/ Gone(h, w)
                   /\ Gone(h, w) => Gone(h', w)
                   /\ ~Gone(h', w) => w # u
    BY <1>4, <1>6 DEF Gone
<1>10. HostKinds(h')
  <2>1. h'.born \subseteq D /\ h'.tail \subseteq h'.born \union {Scene}
      BY <1>6, MendedFacts DEF HostKinds, ListLike
  <2>2. \A w \in h'.tombs : Gone(h', w)
      BY <1>4, <1>6, <1>9, MendedFacts DEF HostKinds, Gone
  <2>3. \A e \in h'.queue : e.u \in h'.born /\ e.expect \in Nat
      BY <1>6, MendedFacts, Zenon DEF HostKinds, ListLike
  <2>4. Filed(h')
      BY <1>6, MendedFacts, Zenon DEF HostKinds, AskLike, Filed
  <2> QED
      BY <1>6, <2>1, <2>2, <2>3, <2>4, KindsLike, Zenon DEF HostKinds
<1>11. ASSUME NEW w \in D
       PROVE  /\ Gone(h, w) => Gone(h', w)
              /\ w \notin h'.born => h'.ver[w] = 0
              /\ Gone(h', w) /\ w \notin h'.tombs => Gone(h, w) /\ w \notin h.tombs
              /\ ~Gone(h', w) => HashMove(w) /\ CoverMove(w)
  <2>1. w \notin h'.born => h'.ver[w] = 0
      BY <1>6, MendedFacts
  <2>2. ASSUME w # u PROVE HashMove(w)
      BY <1>6, <1>8, <2>2, StaysHashed DEF BookLike
  <2>3. CoverMove(w)
      BY <1>1, <1>2, <1>8, TameTells, Zenon DEF CoverMove
  <2> QED
      BY <1>6, <1>9, <2>1, <2>2, <2>3
<1>12. ASSUME NEW w \in Things, ~Gone(h', w)
       PROVE  Has(h, w) <= Has(h', w) /\ Asked(h', w) /\ WholeMove(w)
  <2>1. ~Gone(h, w) /\ w # u
      BY <1>9, <1>12, MendedFacts, Zenon
  <2>2. Asked(h', w)
      BY <1>2, <1>6, <2>1, MendedFacts, AskedLike, Zenon DEF AskLike, ListLike
  <2>3. Has(h', w) = Has(h, w)
      BY <1>6, <2>1, MendedFacts DEF Has, Things
  <2>4. Owed(h, w) => Owed(h', w)
      BY <1>6, <2>1, MendedFacts DEF Owed, Things, BookLike
  <2>5. Has(h, w) <= Has(h', w)
      BY <2>3, MendedFacts
  <2>6. h'.end = h.end /\ h'.queue = h.queue
      BY <1>6 DEF ListLike
  <2> QED
      BY <2>2, <2>3, <2>4, <2>5, <2>6, Stays, Zenon
<1>13. h.dig <= h'.dig
    BY <1>6, MendedFacts DEF HostKinds, AskLike
<1> QED
    BY <1>2, <1>5, <1>8, <1>10, <1>11, <1>12, <1>13, Zenon DEF Move

\* The structure of the scene changes.
LEMMA RestructureMoves ==
    ASSUME Shape, Mended, NEW how \in {"alone", "rides"}, Restructure(how)
    PROVE  Move
<1> DEFINE n == [h EXCEPT !.sd = @ + 1, !.scene = how]
<1>1. PICK g : Tame(g) /\ Host(g)
    BY EditsTame, Zenon
<1>2. r' = r /\ ctl' = ctl /\ Host(n)
    BY DEF Restructure, Change
<1>3. /\ BookLike(h, n) /\ AskLike(h, n) /\ ListLike(h, n) /\ CountLike(h, n) /\ OutLike(h, n)
      /\ n.sd = h.sd + 1 /\ n.tombs = h.tombs /\ n.shipped = h.shipped /\ n.born = h.born
      /\ n.dirty = h.dirty /\ n.ver = h.ver /\ HostKeys \subseteq DOMAIN n
    BY HostFacts DEF HostKeys, BookLike, AskLike, ListLike, CountLike, OutLike
<1> HIDE DEF n
<1>4. n.out = <<>> /\ n.fout = <<>>
    BY <1>3, HostFacts, MendedFacts, Zenon DEF OutLike
<1>5. /\ SceneLike(n, h') /\ BookLike(n, h') /\ AskLike(n, h') /\ ListLike(n, h') /\ CountLike(n, h')
      /\ h'.fout = <<>> /\ cold' = cold \o n.out /\ fast' = fast \o n.fout
    BY <1>2, <1>3, Shipped
<1>6. /\ BookLike(h, h') /\ AskLike(h, h') /\ ListLike(h, h') /\ CountLike(h, h')
      /\ h'.sd = h.sd + 1 /\ h'.tombs = h.tombs /\ h'.shipped = h.shipped /\ h'.born = h.born
      /\ h'.dirty = h.dirty /\ h'.ver = h.ver
    BY <1>2, <1>3, <1>5, Zenon DEF SceneLike, BookLike, AskLike, ListLike, CountLike
<1>7. cold' = cold /\ fast' = fast
    BY <1>4, <1>5, MendedFacts
<1>8. Grows /\ Later /\ Mail /\ fast' \in Seq(Post) /\ \A i \in 1..Len(cold') : i \in 1..Len(cold)
    BY <1>2, <1>6, <1>7, StillLanes, Zenon
<1>9. \A w : Gone(h', w) <=> Gone(h, w)
    BY <1>6, Zenon DEF Gone
<1>10. HostKinds(h')
  <2>1. Filed(h')
      BY <1>6, HostFacts, MendedFacts DEF HostKinds, Filed, AskLike
  <2>2. /\ h'.born \subseteq D /\ h'.tail \subseteq h'.born \union {Scene}
        /\ (\A w \in h'.tombs : Gone(h', w))
        /\ \A e \in h'.queue : e.u \in h'.born /\ e.expect \in Nat
      BY <1>6, <1>9, MendedFacts, Zenon DEF HostKinds, ListLike
  <2> QED
      BY <1>6, <2>1, <2>2, KindsLike, Zenon DEF HostKinds
<1>11. ASSUME NEW w \in D
       PROVE  /\ w \notin h'.born => h'.ver[w] = 0
              /\ HashMove(w) /\ CoverMove(w)
  <2>1. w \notin h'.born => h'.ver[w] = 0
      BY <1>6, MendedFacts
  <2>2. HashMove(w)
      BY <1>6, <1>8, StaysHashed, Zenon DEF BookLike
  <2>3. CoverMove(w)
      BY <1>1, <1>2, <1>8, TameTells, Zenon DEF CoverMove
  <2> QED
      BY <2>1, <2>2, <2>3
<1>12. ASSUME NEW w \in Things, ~Gone(h', w)
       PROVE  Has(h, w) <= Has(h', w) /\ Asked(h', w) /\ WholeMove(w)
  <2>1. ~Gone(h, w)
      BY <1>9, <1>12
  <2>2. Asked(h', w)
      BY <1>2, <1>6, <2>1, MendedFacts, AskedLike, Zenon DEF AskLike, ListLike
  <2>3. CASE w = Scene
    <3>1. Has(h, w) <= Has(h', w)
        BY <1>6, <2>3, HostFacts DEF Has
    <3>2. Owed(h', w)
        BY <1>6, <2>3, HostFacts, MendedFacts DEF Owed, HostKinds, Filed
    <3> QED
        BY <2>2, <3>1, <3>2, Zenon DEF WholeMove
  <2>4. CASE w # Scene
    <3>1. Has(h', w) = Has(h, w) /\ (Owed(h, w) => Owed(h', w))
        BY <1>6, <2>4, Zenon DEF Has, Owed, BookLike
    <3>2. Has(h, w) <= Has(h', w)
        BY <3>1, MendedFacts
    <3>3. h'.end = h.end /\ h'.queue = h.queue
        BY <1>6 DEF ListLike
    <3> QED
        BY <2>2, <3>1, <3>2, <3>3, Stays, Zenon
  <2> QED
      BY <2>3, <2>4
<1>13. h.dig <= h'.dig
    BY <1>6, MendedFacts DEF HostKinds, AskLike
<1> QED
    BY <1>2, <1>5, <1>6, <1>8, <1>9, <1>10, <1>11, <1>12, <1>13, Zenon DEF Move

\* The counts are of the right type and do not run ahead.
Dated(g) ==
    /\ g.at \in Versions /\ g.bootSeq \in Nat /\ g.fseq \in Nat
    /\ g.bootSeq <= g.seq /\ \A u \in D : g.at[u] <= g.seq

\* A blob goes out: the frame that is new.
LEMMA T2Ships ==
    ASSUME Shape, Mended, NEW g, HostOK(g), g.out = <<>>, g.fout = <<>>, CountLike(h, g), g.ver = h.ver,
           NEW u \in D, h.ver[u] # 0, NEW fix \in BOOLEAN, Host(SendT2(g, u, fix)), r' = r
    PROVE  /\ SceneLike(g, h') /\ BookLike(g, h') /\ AskLike(g, h') /\ ListLike(g, h') /\ h'.fout = <<>>
           /\ Dated(h') /\ Grows /\ Later /\ Mail /\ fast' \in Seq(Post)
           /\ Len(cold) + 1 \in 1..Len(cold')
           /\ \A i \in 1..Len(cold') : \/ i \in 1..Len(cold)
                                       \/ cold'[i].kind = "t2" /\ cold'[i].u = u /\ cold'[i].fix = fix
           /\ cold'[Len(cold) + 1].kind = "t2" /\ cold'[Len(cold) + 1].u = u /\ cold'[Len(cold) + 1].fix = fix
<1> DEFINE b == [kind |-> "t2", u |-> u, ver |-> g.ver[u], fix |-> fix, seq |-> 0, sd |-> 0, gen |-> 0]
           m == [b EXCEPT !.seq = g.seq + 1]
           n == SendT2(g, u, fix)
<1>1. HostKeys \subseteq DOMAIN g /\ g.seq = h.seq /\ h.seq \in Nat /\ g.ver[u] \in Nat \ {0}
    BY HostFacts, MendedFacts DEF HostOK, CountLike
<1>2. m = [kind |-> "t2", u |-> u, ver |-> g.ver[u], fix |-> fix, seq |-> g.seq + 1, sd |-> 0, gen |-> 0]
    OBVIOUS
<1>3. Blob("t2", u, g.ver[u], fix) = b
    BY DEF Blob
<1>4. m.kind = "t2" /\ m.u = u /\ m.ver = g.ver[u] /\ m.fix = fix /\ m.seq = h.seq + 1
    BY <1>1, <1>2
<1>5. m \in Frame
  <2> HIDE DEF m
  <2>1. g.ver[u] \in Nat \union Versions /\ u \in D \union {Scene} /\ g.seq + 1 \in Nat /\ 0 \in Nat /\ 0 \in Int
      BY <1>1
  <2> QED
      BY <1>2, <2>1, FrameType, Zenon DEF Frame
<1> HIDE DEF b
<1>6. n = [Cold(g, b) EXCEPT !.at[u] = g.seq + 1]
    BY <1>3, Zenon DEF SendT2
<1>7. Append(<<>>, m) = <<m>>
    OBVIOUS
<1>8. /\ HostKeys \subseteq DOMAIN n /\ SceneLike(g, n) /\ BookLike(g, n)
    BY <1>1, <1>6 DEF Cold, HostKeys, SceneLike, BookLike
<1>9. AskLike(g, n) /\ ListLike(g, n)
    BY <1>1, <1>6 DEF Cold, HostKeys, AskLike, ListLike
<1>10. /\ n.seq = g.seq + 1 /\ n.out = <<m>> /\ n.fout = g.fout /\ n.fseq = g.fseq /\ n.bootSeq = g.bootSeq
       /\ n.at = [g.at EXCEPT ![u] = g.seq + 1]
    BY <1>1, <1>6, <1>7 DEF Cold, HostKeys
<1> HIDE DEF m, n
<1>11. /\ SceneLike(n, h') /\ BookLike(n, h') /\ AskLike(n, h') /\ ListLike(n, h') /\ CountLike(n, h')
       /\ h'.fout = <<>> /\ cold' = cold \o n.out /\ fast' = fast \o n.fout
    BY <1>8, Shipped DEF n
<1>12. /\ SceneLike(g, h') /\ BookLike(g, h') /\ AskLike(g, h') /\ ListLike(g, h')
    BY <1>8, <1>9, <1>11, Zenon DEF SceneLike, BookLike, AskLike, ListLike
<1>13. /\ h'.seq = h.seq + 1 /\ h'.fseq = h.fseq /\ h'.bootSeq = h.bootSeq /\ h'.at = [h.at EXCEPT ![u] = h.seq + 1]
    BY <1>1, <1>10, <1>11 DEF CountLike
<1>14. /\ h.at \in [D -> Nat] /\ h.bootSeq \in Nat /\ h.fseq \in Nat /\ h.bootSeq <= h.seq /\ \A w \in D : h.at[w] <= h.seq
    BY MendedFacts DEF HostKinds, Versions
<1>15. /\ h'.at \in [D -> Nat] /\ h'.at[u] = h.seq + 1 /\ \A w \in D : w # u => h'.at[w] = h.at[w]
    BY <1>1, <1>13, <1>14
<1>16. Dated(h')
    BY <1>1, <1>13, <1>14, <1>15 DEF Dated, Versions
<1>17. /\ After(h', u) = h'.seq
       /\ \A w \in Things : After(h, w) \in Nat /\ After(h', w) \in Nat /\ After(h, w) <= After(h', w)
    BY <1>1, <1>13, <1>14, <1>15, DeltaAssumption DEF After, Things
<1>18. Later
    BY <1>1, <1>13, <1>17 DEF Later
<1>19. NewFrame(m)
  <2>1. \A w : Carries(m, w) => w = u
      BY <1>4 DEF Carries
  <2>2. Val(m, u) = Has(h', u)
      BY <1>4, <1>12, DeltaAssumption DEF Val, Has, SceneLike
  <2>3. m.kind # "end" /\ m.kind # "boot"
      BY <1>4
  <2> QED
      BY <1>4, <1>13, <1>17, <2>1, <2>2, <2>3, Zenon DEF NewFrame
<1>20. cold' = cold \o <<m>> /\ fast' = fast
    BY <1>10, <1>11, MendedFacts
<1>21. /\ Grows /\ cold'[Len(cold) + 1] = m /\ Len(cold) + 1 \in 1..Len(cold')
       /\ \A i \in 1..Len(cold') : i \in 1..Len(cold) \/ cold'[i] = m
    BY <1>5, <1>19, <1>20, GrowsByOne
<1>22. Mail /\ fast' \in Seq(Post)
    BY <1>13, <1>20, MendedFacts, NoMail
<1> QED
    BY <1>4, <1>11, <1>12, <1>16, <1>18, <1>21, <1>22, Zenon

\* A delta or a tombstone goes out.
LEMMA FastShips ==
    ASSUME Shape, Mended, NEW g, HostOK(g), g.out = <<>>, g.fout = <<>>, CountLike(h, g), g.dig \in Nat,
           NEW kind \in {"t1", "tomb"}, NEW u \in Things, Host(Fast(g, kind, u)), r' = r,
           kind = "tomb" => u \in D /\ Gone(g, u)
    PROVE  /\ SceneLike(g, h') /\ BookLike(g, h') /\ AskLike(g, h') /\ ListLike(g, h') /\ h'.fout = <<>>
           /\ Dated(h') /\ Grows /\ Later /\ Mail /\ fast' \in Seq(Post)
           /\ \A i \in 1..Len(cold') : i \in 1..Len(cold)
           /\ kind = "tomb" => \E x : Tomb(x, u)'
<1> DEFINE x == [kind |-> kind, u |-> u, dig |-> g.dig, after |-> After(g, u), seq |-> g.fseq + 1]
           n == [g EXCEPT !.fseq = @ + 1, !.fout = Append(@, x)]
<1>1. HostKeys \subseteq DOMAIN g
    BY DEF HostOK
<1>2. Fast(g, kind, u) = n
    BY DEF Fast, FastMsg
<1>3. /\ x.kind = kind /\ x.u = u /\ x.dig = g.dig /\ x.after = After(g, u) /\ x.seq = g.fseq + 1
    OBVIOUS
<1>4. After(g, u) = After(h, u) /\ After(h, u) \in Nat /\ g.fseq = h.fseq /\ h.fseq \in Nat
  <2>1. /\ h.at \in [D -> Nat] /\ h.bootSeq \in Nat /\ h.fseq \in Nat
      BY MendedFacts DEF HostKinds, Versions
  <2> QED
      BY <2>1 DEF CountLike, After, Things
<1>5. x \in Post
    BY <1>4 DEF Post
<1> HIDE DEF x
<1>6. Append(<<>>, x) = <<x>>
    OBVIOUS
<1>7. HostKeys \subseteq DOMAIN n /\ SceneLike(g, n) /\ BookLike(g, n)
    BY <1>1 DEF HostKeys, SceneLike, BookLike
<1>8. AskLike(g, n) /\ ListLike(g, n)
    BY <1>1 DEF HostKeys, AskLike, ListLike
<1>9. n.seq = g.seq /\ n.out = <<>> /\ n.fout = <<x>> /\ n.fseq = g.fseq + 1 /\ n.bootSeq = g.bootSeq /\ n.at = g.at
    BY <1>1, <1>6 DEF HostKeys
<1>10. Host(n)
    BY <1>2
<1> HIDE DEF n
<1>11. /\ SceneLike(n, h') /\ BookLike(n, h') /\ AskLike(n, h') /\ ListLike(n, h') /\ CountLike(n, h')
       /\ h'.fout = <<>> /\ cold' = cold \o n.out /\ fast' = fast \o n.fout
    BY <1>7, <1>10, Shipped
<1>12. SceneLike(g, h') /\ BookLike(g, h') /\ AskLike(g, h') /\ ListLike(g, h')
    BY <1>7, <1>8, <1>11, Zenon DEF SceneLike, BookLike, AskLike, ListLike
<1>13. h'.seq = h.seq /\ h'.fseq = h.fseq + 1 /\ h'.bootSeq = h.bootSeq /\ h'.at = h.at
    BY <1>4, <1>9, <1>11 DEF CountLike
<1>14. cold' = cold /\ fast' = fast \o <<x>>
    BY <1>9, <1>11, MendedFacts
<1>15. NewPost(x)
  <2>1. x.seq <= h'.fseq
      BY <1>3, <1>4, <1>13
  <2>2. kind = "tomb" => Gone(h', u) /\ After(h, u) <= x.after /\ x.after \in Nat
    <3>1. kind = "tomb" => Gone(h', u)
        BY <1>12, Zenon DEF SceneLike, Gone
    <3> QED
        BY <1>3, <1>4, <3>1
  <2>3. OfScene(x) => x.dig = h'.dig /\ x.after = h'.bootSeq
    <3>1. OfScene(x) => After(h, u) = h.bootSeq
        BY <1>3 DEF OfScene, After
    <3> QED
        BY <1>3, <1>4, <1>12, <1>13, <3>1, Zenon DEF AskLike
  <2> QED
      BY <1>3, <2>1, <2>2, <2>3, Zenon DEF NewPost
<1>16. Mail /\ fast' \in Seq(Post) /\ Afoot(x)'
    BY <1>5, <1>13, <1>14, <1>15, MendedFacts, OneSent
<1>17. Grows /\ \A i \in 1..Len(cold') : i \in 1..Len(cold)
    BY <1>14, GrowsNot
<1>18. Later
  <2>1. \A w \in Things : After(h', w) = After(h, w)
      BY <1>13, Zenon DEF After
  <2>2. h.seq \in Nat /\ \A w \in Things : After(h, w) \in Nat
      BY HostFacts, MendedFacts
  <2> QED
      BY <1>13, <2>1, <2>2 DEF Later
<1>19. Dated(h')
  <2>1. HostKinds(h) /\ h'.fseq \in Nat
      BY <1>4, <1>13, MendedFacts
  <2> QED
      BY <1>13, <2>1, Zenon DEF Dated, HostKinds
<1> QED
    BY <1>3, <1>11, <1>12, <1>16, <1>17, <1>18, <1>19, Zenon DEF Tomb

\* A step that plans nothing: what is listed or asked for only gets less.
LEMMA Trimmed ==
    ASSUME Shape, Mended, r' = r, Grows, Later, Mail, fast' \in Seq(Post), Dated(h'), h'.fout = <<>>,
           h'.ver = h.ver, h'.sd = h.sd, h'.born = h.born, Filed(h'),
           h'.tail \subseteq h.tail, h'.tombs \subseteq h.tombs, h'.queue \subseteq h.queue, AskLike(h, h'),
           \A u \in D : u \in h.tombs => u \in h'.tombs \/ \E x : Tomb(x, u)',
           \A u \in D : ~Gone(h, u) => HashMove(u) /\ CoverMove(u),
           \A u \in Things : ~Gone(h, u) => WholeMove(u)
    PROVE  Move
<1>1. HostKinds(h) /\ Posts /\ \A u \in Things : ~Gone(h, u) => Asked(h, u)
    BY MendedFacts
<1>2. HostKinds(h')
  <2>1. /\ h'.born \subseteq D /\ h'.tail \subseteq h'.born \union {Scene}
        /\ (\A u \in h'.tombs : Gone(h', u)) /\ (\A e \in h'.queue : e.u \in h'.born /\ e.expect \in Nat)
      BY <1>1, Zenon DEF HostKinds, Gone
  <2>2. h'.dig \in Nat /\ (h'.manifest # None => Inventory(h'.manifest)) /\ (h'.req.at = "answered" => Inventory(h'.req))
      BY <1>1, Zenon DEF HostKinds, AskLike
  <2> QED
      BY <2>1, <2>2, Zenon DEF HostKinds, Dated
<1>3. \A u \in Things : ~Gone(h, u) => Asked(h', u)
    BY <1>1, AskedLike, Zenon DEF AskLike
<1>4. h.dig <= h'.dig
    BY <1>1 DEF HostKinds, AskLike
<1> QED
    BY <1>2, <1>3, <1>4, Unedited, Zenon

\* What a host that only keeps its books says of the lanes.
LEMMA StillDated ==
    ASSUME Shape, Mended, CountLike(h, h')
    PROVE  Dated(h')
BY MendedFacts, Zenon DEF HostKinds, Dated, CountLike

\* flush_tick sends the blob of what is dirty, or finds its digest unchanged.
LEMMA FlushT2Moves ==
    ASSUME Shape, Mended, NEW u \in D, FlushT2(u)
    PROVE  Move
<1> DEFINE g == [h EXCEPT !.dirty = @ \ {u}, !.known = @ \union {u}]
           n == [g EXCEPT !.hash[u] = g.ver[u], !.mpend[u] = 0]
<1>1. PICK t : Tame(t) /\ Host(t)
    BY FlushTame, Zenon
<1>2. /\ u \in h.dirty /\ Host(IF g.hash[u] = g.ver[u] THEN g ELSE SendT2(n, u, FALSE))
      /\ r' = r /\ ctl' = ctl /\ h.queue = {} /\ h.tail = {} /\ ~h.end
    BY Zenon DEF FlushT2, Timer, Repairing
<1>3. /\ BookLike(h, g) /\ AskLike(h, g) /\ ListLike(h, g) /\ CountLike(h, g) /\ OutLike(h, g)
      /\ g.sd = h.sd /\ g.tombs = h.tombs /\ g.shipped = h.shipped /\ g.born = h.born
      /\ g.dirty = h.dirty \ {u} /\ g.ver = h.ver /\ HostKeys \subseteq DOMAIN g
    BY HostFacts DEF HostKeys, BookLike, AskLike, ListLike, CountLike, OutLike
<1> HIDE DEF g
<1>4. g.out = <<>> /\ g.fout = <<>>
    BY <1>3, HostFacts, MendedFacts, Zenon DEF OutLike
<1>5. Filed(h) /\ h.ver[u] # 0 /\ ~Gone(h, u)
    BY <1>2, HostFacts, MendedFacts DEF HostKinds, Gone
<1>6. \A w \in Things : h'.ver = h.ver /\ h'.sd = h.sd => Has(h', w) = Has(h, w)
    BY Zenon DEF Has
<1>7. CASE g.hash[u] = g.ver[u]
  <2>1. /\ SceneLike(g, h') /\ BookLike(g, h') /\ AskLike(g, h') /\ ListLike(g, h') /\ CountLike(g, h')
        /\ h'.fout = <<>> /\ cold' = cold \o g.out /\ fast' = fast \o g.fout
      BY <1>2, <1>3, <1>7, Shipped
  <2>2. /\ BookLike(h, h') /\ AskLike(h, h') /\ ListLike(h, h') /\ CountLike(h, h')
        /\ h'.sd = h.sd /\ h'.tombs = h.tombs /\ h'.shipped = h.shipped /\ h'.born = h.born
        /\ h'.dirty = h.dirty \ {u} /\ h'.ver = h.ver /\ h.hash[u] = h.ver[u]
      BY <1>3, <1>7, <2>1, Zenon DEF SceneLike, BookLike, AskLike, ListLike, CountLike
  <2>3. cold' = cold /\ fast' = fast
      BY <1>4, <2>1, MendedFacts
  <2>4. Grows /\ Later /\ Mail /\ fast' \in Seq(Post) /\ \A i \in 1..Len(cold') : i \in 1..Len(cold)
      BY <1>2, <2>2, <2>3, StillLanes, Zenon
  <2>5. ASSUME NEW w \in D PROVE HashMove(w) /\ CoverMove(w)
    <3>1. HashMove(w)
      <4>1. CASE w = u
          BY <2>2, <4>1 DEF HashMove, BookLike
      <4>2. CASE w # u
        <5>1. w \in h'.dirty <=> w \in h.dirty
            BY <2>2, <4>2
        <5> QED
            BY <2>2, <2>4, <5>1, StaysHashed, Zenon DEF BookLike
      <4> QED
          BY <4>1, <4>2
    <3>2. CoverMove(w)
        BY <1>1, <1>2, <2>4, TameTells, Zenon DEF CoverMove
    <3> QED
        BY <3>1, <3>2
  <2>6. ASSUME NEW w \in Things PROVE WholeMove(w)
    <3>1. Owed(h, w) => Owed(h', w)
        BY <2>2, MendedFacts DEF Owed, Things, BookLike
    <3> QED
        BY <1>2, <1>6, <2>2, <3>1, Stays, Zenon DEF ListLike
  <2>7. Dated(h')
      BY <2>2, StillDated
  <2>8. h'.tail \subseteq h.tail /\ h'.tombs \subseteq h.tombs /\ h'.queue \subseteq h.queue /\ Filed(h')
      BY <1>5, <2>2, Zenon DEF ListLike, AskLike, Filed
  <2> QED
      BY <1>2, <1>5, <2>1, <2>2, <2>4, <2>5, <2>6, <2>7, <2>8, Trimmed, Zenon
<1>8. CASE g.hash[u] # g.ver[u]
  <2>1. /\ SceneLike(g, n) /\ AskLike(g, n) /\ ListLike(g, n) /\ CountLike(g, n) /\ OutLike(g, n) /\ n.gen = g.gen
        /\ n.hash = [g.hash EXCEPT ![u] = g.ver[u]] /\ n.mpend = [g.mpend EXCEPT ![u] = 0] /\ HostKeys \subseteq DOMAIN n
      BY <1>3 DEF HostKeys, SceneLike, AskLike, ListLike, CountLike, OutLike
  <2> HIDE DEF n
  <2>2. /\ n.hash \in Versions /\ n.mpend \in Versions /\ n.hash[u] = h.ver[u]
        /\ \A w \in D : w # u => n.hash[w] = h.hash[w]
      BY <1>3, <2>1, HostFacts DEF BookLike, Versions
  <2>3. HostOK(n)
    <3>1. /\ n.ver = h.ver /\ n.sd = h.sd /\ n.seq = h.seq /\ n.gen = h.gen /\ n.end = h.end
          /\ n.dirty = h.dirty \ {u} /\ n.queue = h.queue
        BY <1>3, <2>1, Zenon DEF SceneLike, BookLike, ListLike, CountLike
    <3>2. n.dirty \in SUBSET D /\ \A w \in n.dirty : n.ver[w] # 0
        BY <3>1, HostFacts
    <3> QED
        BY <2>1, <2>2, <3>1, <3>2, HostFacts, Zenon DEF HostOK
  <2>4. n.out = <<>> /\ n.fout = <<>> /\ CountLike(h, n) /\ n.ver = h.ver
      BY <1>3, <1>4, <2>1, Zenon DEF OutLike, CountLike, SceneLike
  <2>5. Host(SendT2(n, u, FALSE)) /\ FALSE \in BOOLEAN
      BY <1>2, <1>8
  <2>6. /\ SceneLike(n, h') /\ BookLike(n, h') /\ AskLike(n, h') /\ ListLike(n, h') /\ h'.fout = <<>>
        /\ Dated(h') /\ Grows /\ Later /\ Mail /\ fast' \in Seq(Post)
        /\ Len(cold) + 1 \in 1..Len(cold')
        /\ \A i \in 1..Len(cold') : \/ i \in 1..Len(cold)
                                    \/ cold'[i].kind = "t2" /\ cold'[i].u = u /\ cold'[i].fix = FALSE
        /\ cold'[Len(cold) + 1].kind = "t2" /\ cold'[Len(cold) + 1].u = u /\ cold'[Len(cold) + 1].fix = FALSE
      BY <1>2, <1>5, <2>3, <2>4, <2>5, T2Ships
  <2>7. /\ AskLike(h, h') /\ ListLike(h, h')
        /\ h'.sd = h.sd /\ h'.tombs = h.tombs /\ h'.shipped = h.shipped /\ h'.born = h.born
        /\ h'.dirty = h.dirty \ {u} /\ h'.ver = h.ver /\ h'.hash[u] = h'.ver[u]
        /\ \A w \in D : w # u => h'.hash[w] = h.hash[w]
    <3>1. AskLike(h, h') /\ ListLike(h, h') /\ h'.hash = n.hash
        BY <1>3, <2>1, <2>6, Zenon DEF BookLike, AskLike, ListLike
    <3>2. /\ h'.sd = h.sd /\ h'.tombs = h.tombs /\ h'.shipped = h.shipped /\ h'.born = h.born
          /\ h'.dirty = h.dirty \ {u} /\ h'.ver = h.ver
        BY <1>3, <2>1, <2>6, Zenon DEF SceneLike
    <3> QED
        BY <2>2, <3>1, <3>2, Zenon
  <2>8. ASSUME NEW w \in D PROVE HashMove(w) /\ CoverMove(w)
    <3>1. HashMove(w)
      <4>1. CASE w = u
          BY <2>7, <4>1 DEF HashMove
      <4>2. CASE w # u
        <5>1. w \in h'.dirty <=> w \in h.dirty
            BY <2>7, <4>2
        <5>2. \A i \in 1..Len(cold') : i \in 1..Len(cold) \/ ~Carries(cold'[i], w)
            BY <2>6, <4>2 DEF Carries
        <5> QED
            BY <2>7, <4>2, <5>1, <5>2, StaysHashed, Zenon
      <4> QED
          BY <4>1, <4>2
    <3>2. \A i \in 1..Len(cold') : i \in 1..Len(cold) \/ cold'[i].kind # "boot"
        BY <2>6
    <3>3. CoverMove(w)
        BY <1>1, <1>2, <3>2, TameTells, Zenon DEF CoverMove
    <3> QED
        BY <3>1, <3>3
  <2>9. ASSUME NEW w \in Things PROVE WholeMove(w)
    <3>1. CASE w = u
      <4>1. Carries(cold'[Len(cold) + 1], w) /\ ~h'.end
          BY <1>2, <2>6, <2>7, <3>1 DEF Carries, ListLike
      <4> QED
          BY <2>6, <4>1, Zenon DEF WholeMove
    <3>2. CASE w # u
      <4>1. Owed(h, w) => Owed(h', w)
          BY <2>7, <3>2, MendedFacts DEF Owed, Things
      <4> QED
          BY <1>2, <1>6, <2>7, <4>1, Stays, Zenon DEF ListLike
    <3> QED
        BY <3>1, <3>2
  <2>10. h'.tail \subseteq h.tail /\ h'.tombs \subseteq h.tombs /\ h'.queue \subseteq h.queue /\ Filed(h')
      BY <1>5, <2>7, Zenon DEF ListLike, AskLike, Filed
  <2> QED
      BY <1>2, <1>5, <2>6, <2>7, <2>8, <2>9, <2>10, Trimmed, Zenon
<1> QED
    BY <1>7, <1>8

\* flush_tick sends a tombstone.
LEMMA FlushTombMoves ==
    ASSUME Shape, Mended, NEW u \in D, FlushTomb(u)
    PROVE  Move
<1> DEFINE g == [h EXCEPT !.tombs = @ \ {u}, !.known = @ \ {u}]
<1>1. PICK t : Tame(t) /\ Host(t)
    BY FlushTame, Zenon
<1>2. u \in h.tombs /\ Host(Fast(g, "tomb", u)) /\ r' = r /\ ctl' = ctl
    BY Zenon DEF FlushTomb, Timer, SendTombstone
<1>3. /\ BookLike(h, g) /\ AskLike(h, g) /\ ListLike(h, g) /\ CountLike(h, g) /\ OutLike(h, g)
      /\ g.sd = h.sd /\ g.tombs = h.tombs \ {u} /\ g.shipped = h.shipped /\ g.born = h.born
      /\ g.dirty = h.dirty /\ g.ver = h.ver /\ HostKeys \subseteq DOMAIN g
    BY HostFacts DEF HostKeys, BookLike, AskLike, ListLike, CountLike, OutLike
<1> HIDE DEF g
<1>4. g.out = <<>> /\ g.fout = <<>>
    BY <1>3, HostFacts, MendedFacts, Zenon DEF OutLike
<1>5. Filed(h) /\ Gone(h, u) /\ h.dig \in Nat
    BY <1>2, MendedFacts DEF HostKinds
<1>6. HostOK(g)
    BY <1>3, HostFacts, Zenon DEF HostOK, BookLike, ListLike, CountLike
<1>7. Gone(g, u) /\ g.dig \in Nat /\ "tomb" \in {"t1", "tomb"} /\ u \in Things /\ "tomb" # "t1"
    BY <1>3, <1>5, MendedFacts DEF Gone, AskLike
<1>8. /\ SceneLike(g, h') /\ BookLike(g, h') /\ AskLike(g, h') /\ ListLike(g, h') /\ h'.fout = <<>>
      /\ Dated(h') /\ Grows /\ Later /\ Mail /\ fast' \in Seq(Post)
      /\ \A i \in 1..Len(cold') : i \in 1..Len(cold)
      /\ \E x : Tomb(x, u)'
    BY <1>2, <1>3, <1>4, <1>6, <1>7, FastShips, Zenon
<1>9. /\ BookLike(h, h') /\ AskLike(h, h') /\ ListLike(h, h')
      /\ h'.sd = h.sd /\ h'.tombs = h.tombs \ {u} /\ h'.shipped = h.shipped /\ h'.born = h.born
      /\ h'.dirty = h.dirty /\ h'.ver = h.ver
    BY <1>3, <1>8, Zenon DEF SceneLike, BookLike, AskLike, ListLike
<1>10. ASSUME NEW w \in D PROVE HashMove(w) /\ CoverMove(w)
  <2>1. HashMove(w)
      BY <1>8, <1>9, StaysHashed, Zenon DEF BookLike
  <2>2. CoverMove(w)
      BY <1>1, <1>2, <1>8, TameTells, Zenon DEF CoverMove
  <2> QED
      BY <2>1, <2>2
<1>11. ASSUME NEW w \in Things PROVE WholeMove(w)
  <2>1. Has(h', w) = Has(h, w) /\ (Owed(h, w) => Owed(h', w))
      BY <1>9, Zenon DEF Has, Owed, BookLike
  <2> QED
      BY <1>9, <2>1, Stays, Zenon DEF ListLike
<1>12. /\ h'.tail \subseteq h.tail /\ h'.tombs \subseteq h.tombs /\ h'.queue \subseteq h.queue
       /\ Filed(h') /\ \A w \in h.tombs : w \in h'.tombs \/ w = u
    BY <1>5, <1>9 DEF ListLike, AskLike, Filed
<1> QED
    BY <1>2, <1>5, <1>8, <1>9, <1>10, <1>11, <1>12, Trimmed, Zenon

\* flush_tick asks for the file of a new structure.
LEMMA FlushSceneMoves ==
    ASSUME Shape, Mended, FlushScene
    PROVE  Move
<1> DEFINE g == [h EXCEPT !.scene = "same", !.auto = TRUE, !.dig = h.sd]
<1>1. PICK t : Tame(t) /\ Host(t)
    BY FlushTame, Zenon
<1>2. HostKinds(h) /\ Filed(h) /\ h.sd \in Nat
    BY MendedFacts, HostFacts DEF HostKinds
<1>3. /\ Host(IF h.scene = "rides" THEN Fast(g, "t1", Scene) ELSE g)
      /\ r' = r /\ ctl' = ctl /\ h.queue = {} /\ h.tail = {} /\ ~h.end
    BY Zenon DEF FlushScene, Timer, Repairing
<1>4. /\ BookLike(h, g) /\ ListLike(h, g) /\ CountLike(h, g) /\ OutLike(h, g) /\ SceneLike(h, g)
      /\ HostKeys \subseteq DOMAIN g /\ g.dig = h.sd /\ g.manifest = h.manifest /\ g.req = h.req
    BY HostFacts DEF HostKeys, BookLike, ListLike, CountLike, OutLike, SceneLike
<1> HIDE DEF g
<1>5. g.out = <<>> /\ g.fout = <<>>
    BY <1>4, HostFacts, MendedFacts, Zenon DEF OutLike
<1>6. ASSUME SceneLike(g, h'), BookLike(g, h'), AskLike(g, h'), ListLike(g, h'), h'.fout = <<>>,
             Dated(h'), Grows, Later, Mail, fast' \in Seq(Post), \A i \in 1..Len(cold') : i \in 1..Len(cold)
      PROVE  Move
  <2>1. /\ BookLike(h, h') /\ ListLike(h, h') /\ SceneLike(h, h')
        /\ h'.dig = h.sd /\ h'.manifest = h.manifest /\ h'.req = h.req
      BY <1>4, <1>6, Zenon DEF SceneLike, BookLike, AskLike, ListLike
  <2>2. h'.sd = h.sd /\ h'.shipped = h.shipped
      BY <2>1 DEF SceneLike
  <2>3. Filed(h') /\ h'.dig \in Nat /\ h.dig <= h'.dig
      BY <1>2, <2>1, <2>2 DEF Filed
  <2>4. HostKinds(h')
    <3>1. \A w \in h'.tombs : Gone(h', w)
        BY <1>2, <2>1, Zenon DEF HostKinds, Gone, SceneLike
    <3> QED
        BY <1>2, <1>6, <2>1, <2>3, <3>1, Zenon DEF HostKinds, Dated, ListLike, SceneLike
  <2>5. ASSUME NEW w \in D PROVE HashMove(w) /\ CoverMove(w)
    <3>1. HashMove(w)
        BY <1>6, <2>1, StaysHashed, Zenon DEF BookLike, SceneLike
    <3>2. CoverMove(w)
        BY <1>1, <1>3, <1>6, TameTells, Zenon DEF CoverMove
    <3> QED
        BY <3>1, <3>2
  <2>6. ASSUME NEW w \in Things, ~Gone(h, w) PROVE Asked(h', w) /\ WholeMove(w)
    <3>1. Has(h', w) = Has(h, w) /\ (Owed(h, w) => Owed(h', w))
        BY <2>1, Zenon DEF Has, Owed, BookLike, SceneLike
    <3>2. WholeMove(w)
        BY <1>3, <2>1, <3>1, Stays, Zenon DEF ListLike
    <3>3. Asked(h', w)
        BY <1>3, <2>1, <2>6, MendedFacts, AskedLike, Zenon DEF ListLike
    <3> QED
        BY <3>2, <3>3
  <2>7. h'.ver = h.ver /\ h'.born = h.born /\ \A w \in D : w \in h.tombs => w \in h'.tombs
      BY <2>1 DEF SceneLike
  <2> QED
      BY <1>3, <1>6, <2>2, <2>3, <2>4, <2>5, <2>6, <2>7, Unedited, Zenon
<1>7. CASE h.scene # "rides"
  <2>1. Host(g)
      BY <1>3, <1>7
  <2>2. /\ SceneLike(g, h') /\ BookLike(g, h') /\ AskLike(g, h') /\ ListLike(g, h') /\ CountLike(g, h')
        /\ h'.fout = <<>> /\ cold' = cold \o g.out /\ fast' = fast \o g.fout
      BY <1>4, <2>1, Shipped
  <2>3. cold' = cold /\ fast' = fast
      BY <1>5, <2>2, MendedFacts
  <2>4. CountLike(h, h')
      BY <1>4, <2>2, Zenon DEF CountLike
  <2>5. Grows /\ Later /\ Mail /\ fast' \in Seq(Post) /\ \A i \in 1..Len(cold') : i \in 1..Len(cold)
      BY <1>3, <2>3, <2>4, StillLanes, Zenon
  <2> QED
      BY <1>6, <2>2, <2>4, <2>5, StillDated, Zenon
<1>8. CASE h.scene = "rides"
  <2>1. Host(Fast(g, "t1", Scene)) /\ "t1" \in {"t1", "tomb"} /\ "t1" # "tomb" /\ Scene \in Things
      BY <1>3, <1>8, MendedFacts
  <2>2. HostOK(g)
      BY <1>4, HostFacts, Zenon DEF HostOK, BookLike, ListLike, CountLike, SceneLike
  <2>3. g.dig \in Nat
      BY <1>2, <1>4
  <2>4. /\ SceneLike(g, h') /\ BookLike(g, h') /\ AskLike(g, h') /\ ListLike(g, h') /\ h'.fout = <<>>
        /\ Dated(h') /\ Grows /\ Later /\ Mail /\ fast' \in Seq(Post)
        /\ \A i \in 1..Len(cold') : i \in 1..Len(cold)
      BY <1>3, <1>4, <1>5, <2>1, <2>2, <2>3, FastShips, Zenon
  <2> QED
      BY <1>6, <2>4, Zenon
<1> QED
    BY <1>7, <1>8

\* _prime_hashes.
LEMMA PrimeMoves ==
    ASSUME Shape, Mended, PrimeHashes
    PROVE  Move
<1> DEFINE new == [u \in D |-> IF u \in h.prime /\ h.hash[u] = 0 THEN h.ver[u] ELSE 0]
           hash == [u \in D |-> IF new[u] # 0 THEN new[u] ELSE h.hash[u]]
           mpend == [u \in D |-> IF new[u] # 0 THEN new[u] ELSE h.mpend[u]]
           g == [h EXCEPT !.prime = {}, !.hash = hash, !.mpend = mpend]
<1>1. PICK t : Tame(t) /\ Host(t)
    BY PrimeTame, Zenon
<1>2. h.dirty = {} /\ Host(g) /\ r' = r /\ ctl' = ctl
    BY ZenonT(30) DEF PrimeHashes, Timer
<1>3. \A u \in D : hash[u] = h.hash[u] \/ hash[u] = h.ver[u]
    OBVIOUS
<1> HIDE DEF hash, mpend
<1>4. /\ SceneLike(h, g) /\ AskLike(h, g) /\ ListLike(h, g) /\ CountLike(h, g) /\ OutLike(h, g)
      /\ g.hash = hash /\ HostKeys \subseteq DOMAIN g
    BY HostFacts DEF HostKeys, SceneLike, AskLike, ListLike, CountLike, OutLike
<1> HIDE DEF g
<1>5. g.out = <<>> /\ g.fout = <<>>
    BY <1>4, HostFacts, MendedFacts, Zenon DEF OutLike
<1>6. /\ SceneLike(g, h') /\ BookLike(g, h') /\ AskLike(g, h') /\ ListLike(g, h') /\ CountLike(g, h')
      /\ h'.fout = <<>> /\ cold' = cold \o g.out /\ fast' = fast \o g.fout
    BY <1>2, <1>4, Shipped
<1>7. SceneLike(h, h') /\ AskLike(h, h') /\ ListLike(h, h') /\ CountLike(h, h') /\ h'.hash = hash
    BY <1>4, <1>6, Zenon DEF SceneLike, BookLike, AskLike, ListLike, CountLike
<1>8. cold' = cold /\ fast' = fast
    BY <1>5, <1>6, MendedFacts
<1>9. Grows /\ Later /\ Mail /\ fast' \in Seq(Post) /\ \A i \in 1..Len(cold') : i \in 1..Len(cold)
    BY <1>2, <1>7, <1>8, StillLanes, Zenon
<1>10. ASSUME NEW w \in D PROVE HashMove(w) /\ CoverMove(w)
  <2>1. HashMove(w)
    <3>1. CASE hash[w] = h.hash[w]
        BY <1>7, <1>9, <3>1, StaysHashed, Zenon DEF SceneLike
    <3>2. CASE hash[w] = h.ver[w]
        BY <1>7, <3>2 DEF HashMove, SceneLike
    <3> QED
        BY <1>3, <3>1, <3>2
  <2>2. CoverMove(w)
      BY <1>1, <1>2, <1>9, TameTells, Zenon DEF CoverMove
  <2> QED
      BY <2>1, <2>2
<1>11. ASSUME NEW w \in Things PROVE WholeMove(w)
  <2>1. Has(h', w) = Has(h, w)
      BY <1>7, Zenon DEF Has, SceneLike
  <2>2. Owed(h, w) => Owed(h', w)
      BY <1>2, <1>7 DEF Owed, SceneLike
  <2> QED
      BY <1>7, <2>1, <2>2, Stays, Zenon DEF ListLike
<1>12. Dated(h') /\ Filed(h')
    BY <1>7, StillDated, MendedFacts, Zenon DEF HostKinds, SceneLike, AskLike, Filed
<1>13. /\ h'.tail \subseteq h.tail /\ h'.tombs \subseteq h.tombs /\ h'.queue \subseteq h.queue
       /\ h'.ver = h.ver /\ h'.sd = h.sd /\ h'.born = h.born /\ h'.tombs = h.tombs
    BY <1>7, Zenon DEF ListLike, SceneLike
<1> QED
    BY <1>2, <1>6, <1>7, <1>9, <1>10, <1>11, <1>12, <1>13, Trimmed, Zenon

\* The batch of digests that is owed.
LEMMA BatchMoves ==
    ASSUME Shape, Mended, SendManifestBatch
    PROVE  Move
<1> DEFINE b == [gen |-> h.gen, held |-> h.mpend]
<1>1. /\ h' = [h EXCEPT !.mpend = Empty] /\ ctl' = ctl \union {b} /\ r' = r /\ cold' = cold /\ fast' = fast
    BY DEF SendManifestBatch
<1>2. /\ SceneLike(h, h') /\ AskLike(h, h') /\ ListLike(h, h') /\ CountLike(h, h') /\ OutLike(h, h')
      /\ h'.hash = h.hash /\ h'.mpend = Empty /\ h'.gen = h.gen /\ h'.prime = h.prime
    BY <1>1, HostFacts DEF HostKeys, SceneLike, AskLike, ListLike, CountLike, OutLike
<1>3. b.gen = h.gen /\ b.held = h.mpend
    OBVIOUS
<1> HIDE DEF b
<1>4. Grows /\ Later /\ Mail /\ fast' \in Seq(Post) /\ \A i \in 1..Len(cold') : i \in 1..Len(cold)
    BY <1>1, <1>2, StillLanes, Zenon
<1>5. ASSUME NEW w \in D PROVE HashMove(w) /\ CoverMove(w)
  <2>1. HashMove(w)
      BY <1>2, <1>4, StaysHashed, Zenon DEF SceneLike
  <2>2. ASSUME NEW n \in Int, NEW v \in Nat \ {0}, TellsOf(n, w, v)' PROVE TellsOf(n, w, v)
    <3>1. Empty[w] = 0 /\ v # 0
        BY DEF Empty
    <3>2. HostSays(h', w, v) => HostSays(h, w, v)
        BY <1>2, <3>1, Zenon DEF HostSays, SceneLike
    <3>3. BatchSays(b, n, w, v) => h.gen = n /\ HostSays(h, w, v)
        BY <1>3, Zenon DEF BatchSays, HostSays
    <3>4. \A c \in ctl' : c \in ctl \/ c = b
        BY <1>1
    <3> QED
        BY <1>2, <2>2, <3>2, <3>3, <3>4, Zenon DEF TellsOf
  <2> QED
      BY <1>4, <2>1, <2>2, Zenon DEF CoverMove
<1>6. ASSUME NEW w \in Things PROVE WholeMove(w)
  <2>1. Has(h', w) = Has(h, w) /\ (Owed(h, w) => Owed(h', w))
      BY <1>2, Zenon DEF Has, Owed, SceneLike
  <2> QED
      BY <1>2, <2>1, Stays, Zenon DEF ListLike
<1>7. Dated(h') /\ Filed(h') /\ h'.fout = <<>>
    BY <1>2, StillDated, MendedFacts, Zenon DEF HostKinds, SceneLike, OutLike, AskLike, Filed
<1>8. /\ h'.tail \subseteq h.tail /\ h'.tombs \subseteq h.tombs /\ h'.queue \subseteq h.queue
      /\ h'.ver = h.ver /\ h'.sd = h.sd /\ h'.born = h.born /\ h'.tombs = h.tombs
    BY <1>2, Zenon DEF ListLike, SceneLike
<1> QED
    BY <1>1, <1>2, <1>4, <1>5, <1>6, <1>7, <1>8, Trimmed, Zenon

\* The inventory that is asked for is what the replica's says at that moment.
LEMMA ServeMoves ==
    ASSUME Shape, Mended, ServeManifest
    PROVE  Move
<1> DEFINE q == [at |-> "answered", held |-> r.held, dig |-> r.dig]
<1>1. h' = [h EXCEPT !.req = q] /\ r' = r /\ cold' = cold /\ fast' = fast /\ ctl' = ctl
    BY DEF ServeManifest
<1>2. q.held = r.held /\ q.dig = r.dig
    OBVIOUS
<1> HIDE DEF q
<1>3. /\ SceneLike(h, h') /\ BookLike(h, h') /\ ListLike(h, h') /\ CountLike(h, h') /\ OutLike(h, h')
      /\ h'.dig = h.dig /\ h'.manifest = h.manifest /\ h'.req = q
    BY <1>1, HostFacts DEF HostKeys, SceneLike, BookLike, ListLike, CountLike, OutLike
<1>4. Grows /\ Later /\ Mail /\ fast' \in Seq(Post) /\ \A i \in 1..Len(cold') : i \in 1..Len(cold)
    BY <1>1, <1>3, StillLanes, Zenon
<1>5. Inventory(q)
    BY <1>2, MendedFacts, Zenon DEF Inventory, Shape, ReplicaOK, Kinds, ReplicaKinds
<1>6. HostKinds(h')
  <2>1. Dated(h') /\ HostKinds(h)
      BY <1>3, StillDated, MendedFacts
  <2>2. \A w \in h'.tombs : Gone(h', w)
      BY <1>3, <2>1, Zenon DEF HostKinds, Gone, SceneLike
  <2> QED
      BY <1>3, <1>5, <2>1, <2>2, Zenon DEF HostKinds, Dated, ListLike, SceneLike, Filed
<1>7. ASSUME NEW w \in D PROVE HashMove(w) /\ CoverMove(w)
  <2>1. HashMove(w)
      BY <1>3, <1>4, StaysHashed, Zenon DEF SceneLike, BookLike
  <2>2. \A n \in Int : \A v \in Nat \ {0} : TellsOf(n, w, v)' => TellsOf(n, w, v)
      BY <1>1, <1>3, Zenon DEF TellsOf, HostSays, BookLike, SceneLike
  <2> QED
      BY <1>4, <2>1, <2>2, Zenon DEF CoverMove
<1>8. ASSUME NEW w \in Things, ~Gone(h, w) PROVE Asked(h', w) /\ WholeMove(w)
  <2>1. Has(h', w) = Has(h, w) /\ (Owed(h, w) => Owed(h', w))
      BY <1>3, Zenon DEF Has, Owed, SceneLike, BookLike
  <2>2. WholeMove(w)
      BY <1>3, <2>1, Stays, Zenon DEF ListLike
  <2>3. Behind(w)
      BY <1>8, Zenon DEF Mended
  <2>4. Claim(q, w) = Claim(r, w)
      BY <1>2, Zenon DEF Claim
  <2>5. Asked(h', w)
      BY <1>1, <1>3, <2>3, <2>4, Zenon DEF Asked, Behind, ListLike
  <2> QED
      BY <2>2, <2>5
<1>9. /\ h'.ver = h.ver /\ h'.sd = h.sd /\ h'.born = h.born /\ h'.tombs = h.tombs /\ h'.fout = <<>>
      /\ h.dig <= h'.dig
    BY <1>3, MendedFacts DEF SceneLike, OutLike, HostKinds
<1> QED
    BY <1>1, <1>4, <1>6, <1>7, <1>8, <1>9, Unedited, Zenon

\* _resend_t2, of an entry that is gone, that the replica has, or that goes out.
LEMMA ResendMoves ==
    ASSUME Shape, Mended, NEW e \in h.queue, ResendT2(e)
    PROVE  Move
<1> DEFINE u == e.u
           hash == [h.hash EXCEPT ![u] = IF h.ver[u] = 0 THEN @ ELSE h.ver[u]]
           g == [h EXCEPT !.queue = @ \ {e}, !.hash[u] = IF h.ver[u] = 0 THEN @ ELSE h.ver[u]]
<1>1. PICK t : Tame(t) /\ Host(t)
    BY RepairTame, Zenon
<1>2. /\ Host(IF h.ver[u] = 0 THEN Fast(g, "tomb", u)
              ELSE IF e.expect = h.ver[u] THEN g ELSE SendT2(g, u, TRUE))
      /\ r' = r /\ ctl' = ctl
    BY Zenon DEF ResendT2, SendTombstone, Timer
<1>3. u \in D /\ u \in h.born /\ u \in Things
    BY MendedFacts, HostFacts DEF HostKinds
<1>4. PICK x : x = e.expect
    OBVIOUS
<1>5. x \in Nat /\ (~Gone(h, u) => x <= Got(r, u)) /\ \A w \in h.queue : w # e \/ w.u = u
    BY <1>3, <1>4, MendedFacts DEF HostKinds, Asked
<1> HIDE DEF u
<1>6. /\ SceneLike(h, g) /\ AskLike(h, g) /\ CountLike(h, g) /\ OutLike(h, g) /\ HostKeys \subseteq DOMAIN g
      /\ g.hash = hash /\ g.mpend = h.mpend /\ g.prime = h.prime /\ g.gen = h.gen
      /\ g.queue = h.queue \ {e} /\ g.tail = h.tail /\ g.end = h.end
    BY HostFacts DEF HostKeys, SceneLike, AskLike, CountLike, OutLike
<1> HIDE DEF g
<1>7. /\ hash \in Versions /\ (h.ver[u] = 0 => hash[u] = h.hash[u]) /\ (h.ver[u] # 0 => hash[u] = h.ver[u])
      /\ \A w \in D : w # u => hash[w] = h.hash[w]
    BY <1>3, HostFacts DEF Versions
<1> HIDE DEF hash
<1>8. HostOK(g)
  <2>1. \A w \in g.queue : w.u \in D
      BY <1>6, HostFacts
  <2> QED
      BY <1>6, <1>7, <2>1, HostFacts, Zenon DEF HostOK, SceneLike, CountLike
<1>9. g.out = <<>> /\ g.fout = <<>>
    BY <1>6, HostFacts, MendedFacts, Zenon DEF OutLike
<1>10. Filed(h) /\ h.dig \in Nat /\ h.queue \ {e} \subseteq h.queue
    BY MendedFacts DEF HostKinds
<1>11. \A w : w # u => \A o \in h.queue : o.u = w => o \in h.queue \ {e}
    BY DEF u
\* Whatever the step sends, the books are those of g.
<1>12. ASSUME SceneLike(g, h'), BookLike(g, h'), AskLike(g, h'), ListLike(g, h'), h'.fout = <<>>,
              Dated(h'), Grows, Later, Mail, fast' \in Seq(Post),
              \A i \in 1..Len(cold') : i \in 1..Len(cold) \/ (cold'[i].kind = "t2" /\ cold'[i].u = u /\ h.ver[u] # 0),
              ~Gone(h, u) => WholeMove(u)
       PROVE  Move
  <2>1. /\ SceneLike(h, h') /\ AskLike(h, h') /\ h'.hash = hash
        /\ h'.queue = h.queue \ {e} /\ h'.tail = h.tail /\ h'.end = h.end
      BY <1>6, <1>12, Zenon DEF SceneLike, BookLike, AskLike, ListLike
  <2>2. ASSUME NEW w \in D PROVE HashMove(w) /\ CoverMove(w)
    <3>1. \A i \in 1..Len(cold') : i \in 1..Len(cold) \/ cold'[i].kind # "boot"
        BY <1>12
    <3>2. CoverMove(w)
        BY <1>1, <1>2, <3>1, TameTells, Zenon DEF CoverMove
    <3>3. CASE w = u /\ h.ver[u] # 0
        BY <1>7, <2>1, <3>2, <3>3 DEF HashMove, SceneLike
    <3>4. CASE w # u \/ h.ver[u] = 0
      <4>1. \A i \in 1..Len(cold') : i \in 1..Len(cold) \/ ~Carries(cold'[i], w)
          BY <1>12, <3>4 DEF Carries
      <4>2. hash[w] = h.hash[w]
          BY <1>7, <3>4, Zenon
      <4> QED
          BY <2>1, <3>2, <4>1, <4>2, StaysHashed, Zenon DEF SceneLike
    <3> QED
        BY <3>3, <3>4
  <2>3. ASSUME NEW w \in Things, ~Gone(h, w) PROVE WholeMove(w)
    <3>1. CASE w = u
        BY <1>12, <2>3, <3>1, Zenon
    <3>2. CASE w # u
      <4>1. Has(h', w) = Has(h, w)
          BY <2>1, Zenon DEF Has, SceneLike
      <4>2. Owed(h, w) => Owed(h', w)
          BY <1>7, <2>1, <3>2, MendedFacts DEF Owed, SceneLike, Things
      <4> QED
          BY <1>11, <2>1, <3>2, <4>1, <4>2, Stays, Zenon
    <3> QED
        BY <3>1, <3>2
  <2>4. /\ h'.tail \subseteq h.tail /\ h'.tombs \subseteq h.tombs /\ h'.queue \subseteq h.queue
        /\ h'.ver = h.ver /\ h'.sd = h.sd /\ h'.born = h.born /\ h'.tombs = h.tombs /\ Filed(h')
      BY <1>10, <2>1, Zenon DEF SceneLike, AskLike, Filed
  <2> QED
      BY <1>2, <1>10, <1>12, <2>1, <2>2, <2>3, <2>4, Trimmed, Zenon
<1>13. CASE h.ver[u] = 0
  <2>1. Gone(h, u) /\ Gone(g, u) /\ g.dig \in Nat /\ "tomb" \in {"t1", "tomb"} /\ "tomb" # "t1"
      BY <1>3, <1>6, <1>10, <1>13 DEF Gone, SceneLike, AskLike
  <2>2. Host(Fast(g, "tomb", u))
      BY <1>2, <1>13
  <2>3. /\ SceneLike(g, h') /\ BookLike(g, h') /\ AskLike(g, h') /\ ListLike(g, h') /\ h'.fout = <<>>
        /\ Dated(h') /\ Grows /\ Later /\ Mail /\ fast' \in Seq(Post)
        /\ \A i \in 1..Len(cold') : i \in 1..Len(cold)
      BY <1>2, <1>3, <1>6, <1>8, <1>9, <2>1, <2>2, FastShips, Zenon
  <2> QED
      BY <1>12, <2>1, <2>3, Zenon
<1>14. CASE h.ver[u] # 0 /\ x = h.ver[u]
  <2>1. Host(g)
      BY <1>2, <1>4, <1>14
  <2>2. /\ SceneLike(g, h') /\ BookLike(g, h') /\ AskLike(g, h') /\ ListLike(g, h') /\ CountLike(g, h')
        /\ h'.fout = <<>> /\ cold' = cold \o g.out /\ fast' = fast \o g.fout
      BY <1>6, <2>1, Shipped
  <2>3. cold' = cold /\ fast' = fast
      BY <1>9, <2>2, MendedFacts
  <2>4. CountLike(h, h')
      BY <1>6, <2>2, Zenon DEF CountLike
  <2>5. Grows /\ Later /\ Mail /\ fast' \in Seq(Post) /\ \A i \in 1..Len(cold') : i \in 1..Len(cold)
      BY <1>2, <2>3, <2>4, StillLanes, Zenon
  <2>6. Dated(h')
      BY <2>4, StillDated
  <2>7. WholeMove(u)
    <3>1. ~Gone(h, u)
        BY <1>14 DEF Gone
    <3>2. Got(r, u) <= Has(h, u) /\ Has(h, u) = h.ver[u] /\ Got(r, u) \in Nat /\ h.ver[u] \in Nat
        BY <1>3, <3>1, MendedFacts DEF Climbs
    <3>3. Got(r, u) = h.ver[u]
        BY <1>5, <1>14, <3>1, <3>2
    <3>4. Has(h', u) = Has(h, u)
        BY <1>6, <2>2, Zenon DEF Has, SceneLike
    <3> QED
        BY <3>2, <3>3, <3>4 DEF WholeMove
  <2> QED
      BY <1>12, <2>2, <2>5, <2>6, <2>7, Zenon
<1>15. CASE h.ver[u] # 0 /\ x # h.ver[u]
  <2>1. Host(SendT2(g, u, TRUE)) /\ TRUE \in BOOLEAN /\ g.ver = h.ver
      BY <1>2, <1>4, <1>6, <1>15 DEF SceneLike
  <2>2. /\ SceneLike(g, h') /\ BookLike(g, h') /\ AskLike(g, h') /\ ListLike(g, h') /\ h'.fout = <<>>
        /\ Dated(h') /\ Grows /\ Later /\ Mail /\ fast' \in Seq(Post)
        /\ Len(cold) + 1 \in 1..Len(cold')
        /\ \A i \in 1..Len(cold') : \/ i \in 1..Len(cold)
                                    \/ cold'[i].kind = "t2" /\ cold'[i].u = u /\ cold'[i].fix = TRUE
        /\ cold'[Len(cold) + 1].kind = "t2" /\ cold'[Len(cold) + 1].u = u /\ cold'[Len(cold) + 1].fix = TRUE
      BY <1>2, <1>3, <1>6, <1>8, <1>9, <1>15, <2>1, T2Ships
  <2>3. WholeMove(u)
    <3>1. Carries(cold'[Len(cold) + 1], u) /\ cold'[Len(cold) + 1].fix
        BY <2>2 DEF Carries
    <3> QED
        BY <2>2, <3>1, Zenon DEF WholeMove
  <2> QED
      BY <1>12, <1>15, <2>2, <2>3, Zenon
<1> QED
    BY <1>13, <1>14, <1>15

\* _send_t1_full: a delta, or the tombstone of what is gone.
LEMMA T1FullMoves ==
    ASSUME Shape, Mended, NEW u \in h.tail, SendT1Full(u)
    PROVE  Move
<1> DEFINE g == [h EXCEPT !.tail = @ \ {u}]
           kind == IF u = Scene \/ u \in Live(h) THEN "t1" ELSE "tomb"
<1>1. PICK t : Tame(t) /\ Host(t)
    BY RepairTame, Zenon
<1>2. /\ Host(IF u = Scene \/ u \in Live(h) THEN Fast(g, "t1", u) ELSE Fast(g, "tomb", u))
      /\ r' = r /\ ctl' = ctl
    BY Zenon DEF SendT1Full, SendTombstone, Timer
<1>3. Host(Fast(g, kind, u)) /\ kind \in {"t1", "tomb"}
    BY <1>2, Zenon
<1>4. /\ SceneLike(h, g) /\ BookLike(h, g) /\ AskLike(h, g) /\ CountLike(h, g) /\ OutLike(h, g)
      /\ g.queue = h.queue /\ g.tail = h.tail \ {u} /\ g.end = h.end /\ HostKeys \subseteq DOMAIN g
    BY HostFacts DEF HostKeys, SceneLike, BookLike, AskLike, CountLike, OutLike
<1> HIDE DEF g
<1>5. g.out = <<>> /\ g.fout = <<>>
    BY <1>4, HostFacts, MendedFacts, Zenon DEF OutLike
<1>6. HostOK(g)
    BY <1>4, HostFacts, Zenon DEF HostOK, BookLike, SceneLike, CountLike
<1>7. HostKinds(h) /\ Posts
    BY MendedFacts
<1>8. u \in h.born \union {Scene} /\ h.born \subseteq D /\ h.dig \in Nat /\ Filed(h)
    BY <1>7 DEF HostKinds
<1>9. u \in Things /\ g.dig \in Nat
    BY <1>4, <1>8 DEF Things, AskLike
<1>11. kind = "tomb" => u \in D /\ Gone(g, u)
  <2>1. kind = "tomb" => u # Scene /\ u \notin Live(h)
      OBVIOUS
  <2> HIDE DEF kind
  <2> QED
      BY <1>4, <1>8, <2>1 DEF Live, Gone, SceneLike
<1> HIDE DEF kind
<1>12. /\ SceneLike(g, h') /\ BookLike(g, h') /\ AskLike(g, h') /\ ListLike(g, h') /\ h'.fout = <<>>
       /\ Dated(h') /\ Grows /\ Later /\ Mail /\ fast' \in Seq(Post)
       /\ \A i \in 1..Len(cold') : i \in 1..Len(cold)
    BY <1>2, <1>3, <1>4, <1>5, <1>6, <1>9, <1>11, FastShips, Zenon
<1>13. /\ SceneLike(h, h') /\ BookLike(h, h') /\ AskLike(h, h')
       /\ h'.queue = h.queue /\ h'.tail = h.tail \ {u} /\ h'.end = h.end
    BY <1>4, <1>12, Zenon DEF SceneLike, BookLike, AskLike, ListLike
<1>14. ASSUME NEW w \in D PROVE HashMove(w) /\ CoverMove(w)
  <2>1. HashMove(w)
      BY <1>12, <1>13, StaysHashed, Zenon DEF BookLike, SceneLike
  <2>2. CoverMove(w)
      BY <1>1, <1>2, <1>12, TameTells, Zenon DEF CoverMove
  <2> QED
      BY <2>1, <2>2
<1>15. ASSUME NEW w \in Things PROVE WholeMove(w)
  <2>1. Has(h', w) = Has(h, w) /\ (Owed(h, w) => Owed(h', w))
      BY <1>13, Zenon DEF Has, Owed, BookLike, SceneLike
  <2> QED
      BY <1>13, <2>1, Stays, Zenon
<1>16. /\ h'.tail \subseteq h.tail /\ h'.tombs \subseteq h.tombs /\ h'.queue \subseteq h.queue
       /\ h'.ver = h.ver /\ h'.sd = h.sd /\ h'.born = h.born /\ h'.tombs = h.tombs /\ Filed(h')
    BY <1>8, <1>13 DEF SceneLike, AskLike, Filed
<1> QED
    BY <1>2, <1>8, <1>12, <1>13, <1>14, <1>15, <1>16, Trimmed, Zenon

\* resync_end.
LEMMA EndMoves ==
    ASSUME Shape, Mended, EndDelta
    PROVE  Move
<1>0. PICK t : Tame(t) /\ Host(t)
    BY RepairTame, Zenon
<1>1. PICK yes \in BOOLEAN : yes = TRUE
    OBVIOUS
<1> DEFINE b == [kind |-> "end", u |-> Scene, ver |-> 0, fix |-> yes, seq |-> 0, sd |-> 0, gen |-> 0]
           m == [b EXCEPT !.seq = h.seq + 1]
           e == [h EXCEPT !.end = FALSE]
           g == [e EXCEPT !.seq = @ + 1, !.out = Append(@, [b EXCEPT !.seq = e.seq + 1])]
<1>2. Blob("end", Scene, 0, TRUE) = b
  <2>1. Blob("end", Scene, 0, yes) = b
      BY DEF Blob
  <2> QED
      BY <1>1, <2>1, Zenon
<1>3. m = [kind |-> "end", u |-> Scene, ver |-> 0, fix |-> yes, seq |-> h.seq + 1, sd |-> 0, gen |-> 0]
    OBVIOUS
<1>4. m.kind = "end" /\ m.fix = TRUE /\ m.seq = h.seq + 1
    BY <1>1, <1>3
<1>5. h.seq + 1 \in Nat /\ 0 \in Nat /\ 0 \in Int /\ h.seq \in Nat
    BY HostFacts
<1>6. /\ e.seq = h.seq /\ e.out = <<>> /\ HostKeys \subseteq DOMAIN e /\ e.end = FALSE
      /\ SceneLike(h, e) /\ BookLike(h, e) /\ AskLike(h, e) /\ CountLike(h, e)
      /\ e.fout = h.fout /\ e.queue = h.queue /\ e.tail = h.tail
    BY HostFacts DEF HostKeys, SceneLike, BookLike, AskLike, CountLike
<1>7. Host(g) /\ r' = r /\ ctl' = ctl /\ h.queue = {} /\ h.tail = {} /\ h.end
    BY <1>2, Zenon DEF EndDelta, Cold, Timer
<1>8. [b EXCEPT !.seq = e.seq + 1] = m
    BY <1>6
<1> HIDE DEF b, m, e
<1>9. m \in Frame
  <2>1. 0 \in Nat \union Versions /\ Scene \in D \union {Scene}
      BY <1>5, Zenon
  <2> QED
      BY <1>3, <1>5, <2>1, FrameType, Zenon DEF Frame
<1>10. Append(<<>>, m) = <<m>>
    OBVIOUS
<1>11. /\ SceneLike(e, g) /\ BookLike(e, g) /\ AskLike(e, g) /\ ListLike(e, g) /\ HostKeys \subseteq DOMAIN g
       /\ g.seq = h.seq + 1 /\ g.fseq = e.fseq /\ g.bootSeq = e.bootSeq /\ g.at = e.at
       /\ g.out = <<m>> /\ g.fout = e.fout
    BY <1>6, <1>8, <1>10 DEF HostKeys, SceneLike, BookLike, AskLike, ListLike
<1> HIDE DEF g
<1>12. /\ SceneLike(g, h') /\ BookLike(g, h') /\ AskLike(g, h') /\ ListLike(g, h') /\ CountLike(g, h')
       /\ h'.fout = <<>> /\ cold' = cold \o g.out /\ fast' = fast \o g.fout
    BY <1>7, <1>11, Shipped
<1>13. SceneLike(h, h') /\ BookLike(h, h') /\ AskLike(h, h')
    BY <1>6, <1>11, <1>12, Zenon DEF SceneLike, BookLike, AskLike
<1>14. /\ h'.seq = h.seq + 1 /\ h'.fseq = h.fseq /\ h'.bootSeq = h.bootSeq /\ h'.at = h.at
       /\ h'.end = FALSE /\ h'.queue = {} /\ h'.tail = {}
    BY <1>6, <1>7, <1>11, <1>12, Zenon DEF CountLike, ListLike
<1>15. cold' = cold \o <<m>> /\ fast' = fast
    BY <1>6, <1>11, <1>12, MendedFacts
<1>16. NewFrame(m)
  <2>1. \A w : ~Carries(m, w)
      BY <1>4 DEF Carries
  <2>2. m.kind # "boot"
      BY <1>4
  <2> QED
      BY <1>4, <1>7, <1>14, <2>1, <2>2, Zenon DEF NewFrame
<1>17. /\ Grows /\ cold'[Len(cold) + 1] = m /\ Len(cold) + 1 \in 1..Len(cold')
       /\ \A i \in 1..Len(cold') : i \in 1..Len(cold) \/ cold'[i] = m
    BY <1>9, <1>15, <1>16, GrowsByOne
<1>18. Mail /\ fast' \in Seq(Post)
    BY <1>7, <1>14, <1>15, MendedFacts, NoMail
<1>19. Later /\ Dated(h')
  <2>1. \A w \in Things : After(h', w) = After(h, w)
      BY <1>14, Zenon DEF After
  <2>2. \A w \in Things : After(h, w) \in Nat
      BY MendedFacts
  <2>3. Later
      BY <1>5, <1>14, <2>1, <2>2 DEF Later
  <2>4. /\ h.at \in [D -> Nat] /\ h.bootSeq \in Nat /\ h.fseq \in Nat /\ h.bootSeq <= h.seq /\ \A w \in D : h.at[w] <= h.seq
      BY MendedFacts DEF HostKinds, Versions
  <2>5. Dated(h')
      BY <1>5, <1>14, <2>4 DEF Dated, Versions
  <2> QED
      BY <2>3, <2>5
<1>20. ASSUME NEW w \in D PROVE HashMove(w) /\ CoverMove(w)
  <2>1. \A i \in 1..Len(cold') : i \in 1..Len(cold) \/ (~Carries(cold'[i], w) /\ cold'[i].kind # "boot")
      BY <1>4, <1>17 DEF Carries
  <2>2. HashMove(w)
      BY <1>13, <2>1, StaysHashed, Zenon DEF BookLike, SceneLike
  <2>3. CoverMove(w)
      BY <1>0, <1>7, <2>1, TameTells, Zenon DEF CoverMove
  <2> QED
      BY <2>2, <2>3
<1>21. ASSUME NEW w \in Things PROVE WholeMove(w)
  <2>1. Has(h', w) = Has(h, w) /\ (Owed(h, w) => Owed(h', w))
      BY <1>13, Zenon DEF Has, Owed, BookLike, SceneLike
  <2> QED
      BY <1>14, <2>1, Stays, Zenon
<1>22. /\ h'.tail \subseteq h.tail /\ h'.tombs \subseteq h.tombs /\ h'.queue \subseteq h.queue
       /\ h'.ver = h.ver /\ h'.sd = h.sd /\ h'.born = h.born /\ h'.tombs = h.tombs
       /\ Filed(h')
    BY <1>7, <1>13, <1>14, MendedFacts, Zenon DEF SceneLike, AskLike, HostKinds, Filed
<1> QED
    BY <1>7, <1>12, <1>13, <1>17, <1>18, <1>19, <1>20, <1>21, <1>22, Trimmed, Zenon

\* send_bootstrap: the file brings everything, and what was planned is void.
LEMMA BootMoves ==
    ASSUME Shape, Mended, NEW g, HostOK(g), g.out = <<>>, g.fout = <<>>, CountLike(h, g),
           g.ver = h.ver, g.sd = h.sd, g.born = h.born, g.tombs = h.tombs, g.gen = h.gen,
           g.req.at = "answered" => g.req = h.req,
           NEW fix \in BOOLEAN, Host(SendBootstrap(g, fix)), r' = r, ctl' = ctl
    PROVE  Move
<1> DEFINE n == SendBootstrap(g, fix)
           b == [kind |-> "boot", u |-> Scene, ver |-> g.ver, fix |-> fix, seq |-> 0,
                 sd |-> g.sd, gen |-> g.gen + 1]
           m == [b EXCEPT !.seq = g.seq + 1]
<1>1. /\ HostKeys \subseteq DOMAIN g /\ g.ver \in Versions /\ g.sd \in Nat /\ g.seq = h.seq /\ h.seq \in Nat
      /\ h.gen \in Int
    BY HostFacts DEF HostOK, CountLike
<1>2. m = [kind |-> "boot", u |-> Scene, ver |-> g.ver, fix |-> fix, seq |-> g.seq + 1,
           sd |-> g.sd, gen |-> g.gen + 1]
    OBVIOUS
<1>3. /\ m.kind = "boot" /\ m.gen = h.gen + 1 /\ m.ver = h.ver /\ m.fix = fix /\ m.sd = h.sd /\ m.seq = h.seq + 1
    BY <1>1, <1>2
<1>4. m \in Frame
  <2>1. g.seq + 1 \in Nat /\ g.gen + 1 \in Int
      BY <1>1
  <2>2. g.ver \in Nat \union Versions /\ Scene \in D \union {Scene}
      BY <1>1, Zenon
  <2> HIDE DEF m
  <2> QED
      BY <1>1, <1>2, <2>1, <2>2, FrameType, Zenon DEF Frame
<1> HIDE DEF m
<1>5. Append(<<>>, m) = <<m>>
    OBVIOUS
<1>6. /\ HostKeys \subseteq DOMAIN n /\ n.ver = g.ver /\ n.sd = g.sd /\ n.born = g.born /\ n.tombs = g.tombs
      /\ n.shipped = g.sd /\ n.hash = Empty /\ n.mpend = Empty /\ n.gen = g.gen + 1
      /\ n.manifest = None /\ n.req = g.req /\ n.dig = g.sd /\ n.queue = {} /\ n.tail = {} /\ n.end = FALSE
    BY <1>1 DEF SendBootstrap, Cold, HostKeys
<1>7. /\ n.seq = g.seq + 1 /\ n.out = <<m>> /\ n.fout = g.fout /\ n.fseq = g.fseq /\ n.bootSeq = g.seq + 1
      /\ n.at = Empty
    BY <1>1, <1>5 DEF SendBootstrap, Cold, HostKeys, m
<1> HIDE DEF n
<1>8. /\ SceneLike(n, h') /\ BookLike(n, h') /\ AskLike(n, h') /\ ListLike(n, h') /\ CountLike(n, h')
      /\ h'.fout = <<>> /\ cold' = cold \o n.out /\ fast' = fast \o n.fout
    BY <1>6, Shipped DEF n
<1>9. /\ h'.ver = h.ver /\ h'.sd = h.sd /\ h'.born = h.born /\ h'.tombs = h.tombs /\ h'.shipped = h.sd
      /\ h'.hash = Empty /\ h'.mpend = Empty /\ h'.gen = h.gen + 1
    BY <1>6, <1>8, Zenon DEF SceneLike, BookLike
<1>10. /\ h'.manifest = None /\ h'.req = g.req /\ h'.dig = h.sd /\ h'.queue = {} /\ h'.tail = {} /\ h'.end = FALSE
    BY <1>6, <1>8, Zenon DEF AskLike, ListLike
<1>11. /\ h'.seq = h.seq + 1 /\ h'.fseq = h.fseq /\ h'.bootSeq = h.seq + 1 /\ h'.at = Empty
    BY <1>1, <1>7, <1>8 DEF CountLike
<1>12. cold' = cold \o <<m>> /\ fast' = fast
    BY <1>7, <1>8, MendedFacts
<1>13. Empty \in Versions /\ \A u \in D : Empty[u] = 0
    BY DEF Empty, Versions
<1>14. \A u \in Things : After(h', u) = h'.seq
    BY <1>1, <1>11, <1>13 DEF After, Things
<1>15. HostKinds(h) /\ \A u \in Things : After(h, u) \in Nat /\ After(h, u) <= h.seq
  <2>1. HostKinds(h)
      BY MendedFacts
  <2> QED
      BY <1>1, <2>1 DEF HostKinds, After, Versions, Things
<1>16. Later /\ Dated(h')
  <2>1. Later
      BY <1>1, <1>11, <1>14, <1>15 DEF Later
  <2>2. h'.bootSeq \in Nat /\ h'.bootSeq <= h'.seq /\ \A u \in D : h'.at[u] <= h'.seq
      BY <1>1, <1>11, <1>13
  <2> QED
      BY <1>11, <1>13, <1>15, <2>1, <2>2, Zenon DEF Dated, HostKinds
<1>17. \A w : Carries(m, w) /\ Val(m, w) = Has(h', w)
    BY <1>3, <1>9, Zenon DEF Carries, Val, Has
<1>18. NewFrame(m)
  <2>1. m.kind # "end"
      BY <1>3
  <2> QED
      BY <1>3, <1>10, <1>11, <1>14, <1>17, <2>1, Zenon DEF NewFrame
<1>19. /\ Grows /\ cold'[Len(cold) + 1] = m /\ Len(cold) + 1 \in 1..Len(cold')
       /\ \A i \in 1..Len(cold') : i \in 1..Len(cold) \/ cold'[i] = m
    BY <1>4, <1>12, <1>18, GrowsByOne
<1>20. Mail /\ fast' \in Seq(Post)
    BY <1>11, <1>12, MendedFacts, NoMail
<1>21. ASSUME NEW w \in D PROVE HashMove(w) /\ CoverMove(w)
  <2>1. h'.hash[w] \in {0, h'.ver[w]}
      BY <1>9, <1>13
  <2>2. h'.mpend[w] = 0 /\ \A i \in 1..Len(cold') : i \in 1..Len(cold) \/ (cold'[i].gen = h'.gen /\ cold'[i].ver = h'.ver)
      BY <1>3, <1>9, <1>13, <1>19, Zenon
  <2> QED
      BY <1>9, <2>1, <2>2, Zenon DEF HashMove, CoverMove
<1>22. ASSUME NEW w \in Things, ~Gone(h, w) PROVE Asked(h', w) /\ WholeMove(w)
  <2>1. WholeMove(w)
      BY <1>10, <1>17, <1>19, Zenon DEF WholeMove
  <2>2. Asked(h, w)
      BY <1>22, MendedFacts
  <2>3. Asked(h', w)
      BY <1>10, <2>2 DEF Asked
  <2> QED
      BY <2>1, <2>3
<1>23. HostKinds(h')
  <2>1. h'.tail \subseteq h'.born \union {Scene} /\ (\A e \in h'.queue : e.u \in h'.born /\ e.expect \in Nat)
      BY <1>10
  <2>2. h'.dig \in Nat /\ \A w \in h'.tombs : Gone(h', w)
      BY <1>9, <1>10, <1>15, HostFacts, Zenon DEF Gone, HostKinds
  <2>3. (h'.manifest # None => Inventory(h'.manifest)) /\ (h'.req.at = "answered" => Inventory(h'.req))
      BY <1>10, <1>15, Zenon DEF HostKinds
  <2>4. Filed(h')
      BY <1>9, <1>10, HostFacts DEF Filed
  <2> QED
      BY <1>9, <1>15, <1>16, <2>1, <2>2, <2>3, <2>4, Zenon DEF HostKinds, Dated
<1>24. h.dig <= h'.dig
    BY <1>10, <1>15 DEF HostKinds, Filed
<1> QED
    BY <1>8, <1>9, <1>16, <1>19, <1>20, <1>21, <1>22, <1>23, <1>24, Unedited, Zenon

\* The file on request, and the one a new structure asks for.
LEMMA FilesMove ==
    ASSUME Shape, Mended, ForceResync \/ AutoBoot
    PROVE  Move
<1>1. CASE ForceResync
  <2>1. Host(SendBootstrap(h, Repairing)) /\ r' = r /\ ctl' = ctl /\ Repairing \in BOOLEAN
      BY <1>1 DEF ForceResync, Repairing
  <2>2. CountLike(h, h) /\ h.fout = <<>>
      BY MendedFacts DEF CountLike
  <2> QED
      BY <2>1, <2>2, HostFacts, BootMoves, Zenon
<1>2. CASE AutoBoot
  <2> DEFINE g == [h EXCEPT !.auto = FALSE]
  <2>1. Host(SendBootstrap(g, FALSE)) /\ r' = r /\ ctl' = ctl
      BY <1>2, Zenon DEF AutoBoot, Timer
  <2>2. /\ BookLike(h, g) /\ AskLike(h, g) /\ ListLike(h, g) /\ CountLike(h, g) /\ OutLike(h, g)
        /\ g.sd = h.sd /\ g.tombs = h.tombs /\ g.shipped = h.shipped /\ g.born = h.born
        /\ g.dirty = h.dirty /\ g.ver = h.ver /\ HostKeys \subseteq DOMAIN g
      BY HostFacts DEF HostKeys, BookLike, AskLike, ListLike, CountLike, OutLike
  <2> HIDE DEF g
  <2>3. HostOK(g)
      BY <2>2, HostFacts, Zenon DEF HostOK, BookLike, ListLike, CountLike
  <2>4. g.out = <<>> /\ g.fout = <<>> /\ g.gen = h.gen /\ g.req = h.req
      BY <2>2, HostFacts, MendedFacts, Zenon DEF OutLike, BookLike, AskLike
  <2>5. FALSE \in BOOLEAN
      OBVIOUS
  <2> QED
      BY <2>1, <2>2, <2>3, <2>4, <2>5, BootMoves, Zenon
<1> QED
    BY <1>1, <1>2

\* The file that a new structure asks for is skipped.
LEMMA CoveredMoves ==
    ASSUME Shape, Mended, AutoCovered
    PROVE  Move
<1> DEFINE g == [h EXCEPT !.auto = FALSE]
<1>1. PICK t : Tame(t) /\ Host(t)
    BY FlushTame, Zenon
<1>2. Host(g) /\ r' = r /\ ctl' = ctl
    BY Zenon DEF AutoCovered, Timer
<1>3. /\ SceneLike(h, g) /\ BookLike(h, g) /\ AskLike(h, g) /\ ListLike(h, g) /\ CountLike(h, g) /\ OutLike(h, g)
      /\ HostKeys \subseteq DOMAIN g
    BY HostFacts DEF HostKeys, SceneLike, BookLike, AskLike, ListLike, CountLike, OutLike
<1> HIDE DEF g
<1>4. /\ SceneLike(g, h') /\ BookLike(g, h') /\ AskLike(g, h') /\ ListLike(g, h') /\ CountLike(g, h')
      /\ h'.fout = <<>> /\ cold' = cold \o g.out /\ fast' = fast \o g.fout
    BY <1>2, <1>3, Shipped
<1>5. SceneLike(h, h') /\ BookLike(h, h') /\ AskLike(h, h') /\ ListLike(h, h') /\ CountLike(h, h')
    BY <1>3, <1>4, Zenon DEF SceneLike, BookLike, AskLike, ListLike, CountLike
<1>6. g.out = <<>> /\ g.fout = <<>>
    BY <1>3, HostFacts, MendedFacts, Zenon DEF OutLike
<1>7. cold' = cold /\ fast' = fast
    BY <1>4, <1>6, MendedFacts
<1>8. Grows /\ Later /\ Mail /\ fast' \in Seq(Post) /\ \A i \in 1..Len(cold') : i \in 1..Len(cold)
    BY <1>2, <1>5, <1>7, StillLanes, Zenon
<1>9. ASSUME NEW w \in D PROVE HashMove(w) /\ CoverMove(w)
  <2>1. HashMove(w)
      BY <1>5, <1>8, StaysHashed, Zenon DEF SceneLike, BookLike
  <2>2. CoverMove(w)
      BY <1>1, <1>2, <1>8, TameTells, Zenon DEF CoverMove
  <2> QED
      BY <2>1, <2>2
<1>10. ASSUME NEW w \in Things PROVE WholeMove(w)
  <2>1. Has(h', w) = Has(h, w) /\ (Owed(h, w) => Owed(h', w))
      BY <1>5, Zenon DEF Has, Owed, SceneLike, BookLike
  <2> QED
      BY <1>5, <2>1, Stays, Zenon DEF ListLike
<1>11. Dated(h') /\ Filed(h')
    BY <1>5, StillDated, MendedFacts, Zenon DEF HostKinds, SceneLike, AskLike, Filed
<1>12. /\ h'.tail \subseteq h.tail /\ h'.tombs \subseteq h.tombs /\ h'.queue \subseteq h.queue
       /\ h'.ver = h.ver /\ h'.sd = h.sd /\ h'.born = h.born /\ h'.tombs = h.tombs
    BY <1>5, Zenon DEF ListLike, SceneLike
<1> QED
    BY <1>2, <1>4, <1>5, <1>8, <1>9, <1>10, <1>11, <1>12, Trimmed, Zenon

\* A plan's tombstones come one after another.
LEMMA Listing ==
    ASSUME NEW S \in SUBSET D
    PROVE  SetToSeq(S) \in Seq(S)
<1>1. IsFiniteSet(S)
    BY FS_Subset, DeltaAssumption
<1>2. Cardinality(S) \in Nat /\ ExistsBijection(1..Cardinality(S), S)
    BY <1>1, FS_CardinalityType
<1>3. PICK n \in Nat : n = Cardinality(S)
    BY <1>2
<1>4. \E f \in [1..n -> S] : IsInjective(f)
    BY <1>2, <1>3, Zenon DEF ExistsBijection, Bijection, Injection
<1>5. SetToSeq(S) \in [1..n -> S]
    BY <1>3, <1>4, Zenon DEF SetToSeq
<1> QED
    BY <1>5

\* An inventory the host may plan from.
Sound(s) == Inventory(s) /\ \A u \in Things : ~Gone(h, u) => Claim(s, u) <= Got(r, u)

\* delta_state takes the structure's digest, and the inventory that has come.
LEMMA StateAsked ==
    ASSUME Shape, Mended, NEW s, NEW late
    PROVE  LET d == DeltaState(h, s, late)
               g == d[1]
           IN  /\ SceneLike(h, g) /\ BookLike(h, g) /\ ListLike(h, g) /\ CountLike(h, g) /\ OutLike(h, g)
               /\ HostKeys \subseteq DOMAIN g /\ g.dig = h.sd
               /\ (g.req.at = "answered" => g.req = h.req)
               /\ (g.manifest # None \/ d[2] = "ready" => Sound(g.manifest))
<1> DEFINE n == [h EXCEPT !.dig = h.sd]
           Rest(g) == /\ SceneLike(h, g) /\ BookLike(h, g) /\ ListLike(h, g) /\ CountLike(h, g) /\ OutLike(h, g)
                      /\ HostKeys \subseteq DOMAIN g /\ g.dig = h.sd
           Good(g, v) == Rest(g) /\ (g.req.at = "answered" => g.req = h.req)
                         /\ (g.manifest # None \/ v = "ready" => Sound(g.manifest))
           m == [held |-> h.req.held, dig |-> h.req.dig, tag |-> s.held]
<1>1. Rest(n) /\ n.req = h.req /\ n.manifest = h.manifest
    BY HostFacts DEF HostKeys, SceneLike, BookLike, ListLike, CountLike, OutLike
<1>2. (h.manifest # None => Sound(h.manifest)) /\ (h.req.at = "answered" => Sound(h.req))
    BY MendedFacts, Zenon DEF Sound, HostKinds, Asked
<1>3. h.req.at = "answered" => Sound(m)
  <2>1. m.held = h.req.held /\ m.dig = h.req.dig
      OBVIOUS
  <2> HIDE DEF m
  <2>2. \A u : Claim(m, u) = Claim(h.req, u)
      BY <2>1, Zenon DEF Claim
  <2> QED
      BY <1>2, <2>1, <2>2, Zenon DEF Sound, Inventory
<1> HIDE DEF n, m
<1>4. \A q : Rest([n EXCEPT !.req = q]) /\ [n EXCEPT !.req = q].req = q /\ [n EXCEPT !.req = q].manifest = h.manifest
    BY <1>1 DEF HostKeys, SceneLike, BookLike, ListLike, CountLike, OutLike
<1>5. \A q, x : LET k == [n EXCEPT !.req = q, !.manifest = x] IN Rest(k) /\ k.req = q /\ k.manifest = x
    BY <1>1 DEF HostKeys, SceneLike, BookLike, ListLike, CountLike, OutLike
<1> HIDE DEF Rest
<1>6. NoRequest.at # "answered" /\ [at |-> "asked"].at # "answered"
    BY DEF NoRequest
<1>7. Good(n, "mismatch") /\ Good(n, "pending") /\ (h.manifest # None => Good(n, "ready"))
    BY <1>1, <1>2
<1>8. Good([n EXCEPT !.req = [at |-> "asked"]], "pending")
    BY <1>2, <1>4, <1>6
<1>9. Good([n EXCEPT !.req = NoRequest], "mismatch")
    BY <1>2, <1>4, <1>6
<1>10. ASSUME h.req.at = "answered", NEW v PROVE Good([n EXCEPT !.req = NoRequest, !.manifest = m], v)
  <2> DEFINE k == [n EXCEPT !.req = NoRequest, !.manifest = m]
  <2>1. Rest(k) /\ k.req = NoRequest /\ k.manifest = m
      BY <1>5
  <2> HIDE DEF k
  <2>2. Good(k, v)
      BY <1>3, <1>6, <1>10, <2>1, Zenon
  <2> QED
      BY <2>2 DEF k
<1>11. Good(DeltaState(h, s, late)[1], DeltaState(h, s, late)[2])
  <2> HIDE DEF Good
  <2> QED
      BY <1>7, <1>8, <1>9, <1>10 DEF DeltaState, n, m
<1> QED
    BY <1>11, Zenon DEF Rest

\* The watch asks, or has asked; nothing is sent.
LEMMA AskMoves ==
    ASSUME Shape, Mended, NEW g, HostKeys \subseteq DOMAIN g,
           SceneLike(h, g), BookLike(h, g), ListLike(h, g), CountLike(h, g), OutLike(h, g), g.dig = h.sd,
           g.req.at = "answered" => g.req = h.req, g.manifest # None => Sound(g.manifest),
           Host(g), r' = r, ctl' = ctl
    PROVE  Move
<1>1. g.out = <<>> /\ g.fout = <<>>
    BY HostFacts, MendedFacts, Zenon DEF OutLike
<1>2. /\ SceneLike(g, h') /\ BookLike(g, h') /\ AskLike(g, h') /\ ListLike(g, h') /\ CountLike(g, h')
      /\ h'.fout = <<>> /\ cold' = cold \o g.out /\ fast' = fast \o g.fout
    BY Shipped
<1>3. /\ SceneLike(h, h') /\ BookLike(h, h') /\ ListLike(h, h') /\ CountLike(h, h')
      /\ h'.dig = h.sd /\ h'.req = g.req /\ h'.manifest = g.manifest
    BY <1>2, Zenon DEF SceneLike, BookLike, AskLike, ListLike, CountLike
<1>4. cold' = cold /\ fast' = fast
    BY <1>1, <1>2, MendedFacts
<1>5. Grows /\ Later /\ Mail /\ fast' \in Seq(Post) /\ \A i \in 1..Len(cold') : i \in 1..Len(cold)
    BY <1>3, <1>4, StillLanes, Zenon
<1>6. HostKinds(h) /\ Dated(h') /\ h.sd \in Nat /\ Filed(h)
    BY <1>3, MendedFacts, HostFacts, StillDated DEF HostKinds
<1>7. HostKinds(h')
  <2>1. \A w \in h'.tombs : Gone(h', w)
      BY <1>3, <1>6, Zenon DEF HostKinds, Gone, SceneLike
  <2>2. (h'.manifest # None => Inventory(h'.manifest)) /\ (h'.req.at = "answered" => Inventory(h'.req))
      BY <1>3, <1>6, Zenon DEF HostKinds, Sound
  <2>3. Filed(h')
      BY <1>3, <1>6 DEF Filed, SceneLike
  <2> QED
      BY <1>3, <1>6, <2>1, <2>2, <2>3, Zenon DEF HostKinds, Dated, ListLike, SceneLike
<1>8. ASSUME NEW w \in D PROVE HashMove(w) /\ CoverMove(w)
  <2>1. HashMove(w)
      BY <1>3, <1>5, StaysHashed, Zenon DEF SceneLike, BookLike
  <2>2. \A n \in Int : \A v \in Nat \ {0} : TellsOf(n, w, v)' => TellsOf(n, w, v)
      BY <1>3, Zenon DEF TellsOf, HostSays, BookLike, SceneLike
  <2> QED
      BY <1>5, <2>1, <2>2, Zenon DEF CoverMove
<1>9. ASSUME NEW w \in Things, ~Gone(h, w) PROVE Asked(h', w) /\ WholeMove(w)
  <2>1. Has(h', w) = Has(h, w) /\ (Owed(h, w) => Owed(h', w))
      BY <1>3, Zenon DEF Has, Owed, SceneLike, BookLike
  <2>2. WholeMove(w)
      BY <1>3, <2>1, Stays, Zenon DEF ListLike
  <2>3. Asked(h, w)
      BY <1>9, MendedFacts
  <2>4. Asked(h', w)
      BY <1>3, <1>9, <2>3, Zenon DEF Asked, ListLike, Sound
  <2> QED
      BY <2>2, <2>4
<1>10. /\ h'.ver = h.ver /\ h'.sd = h.sd /\ h'.born = h.born /\ h'.tombs = h.tombs
       /\ h.dig <= h'.dig
    BY <1>3, <1>6 DEF SceneLike, Filed
<1> QED
    BY <1>2, <1>5, <1>7, <1>8, <1>9, <1>10, Unedited, Zenon

\* send_delta: the plan leaves out what need not go.
LEMMA PlanMoves ==
    ASSUME Shape, Mended, NEW g, HostKeys \subseteq DOMAIN g,
           SceneLike(h, g), BookLike(h, g), ListLike(h, g), CountLike(h, g), OutLike(h, g), g.dig = h.sd,
           g.req.at = "answered" => g.req = h.req, Sound(g.manifest),
           NEW lane, PlanDelta(g, lane) # None, NEW k, HostKeys \subseteq DOMAIN k,
           SceneLike(g, k), BookLike(g, k), CountLike(g, k), OutLike(g, k), AskLike(g, k),
           Host(SendDelta(k, PlanDelta(g, lane))), r' = r, ctl' = ctl
    PROVE  Move
<1> DEFINE held == g.manifest.held
           resend == {u \in Live(g) : held[u] = 0 \/ (g.hash[u] # 0 /\ g.hash[u] # held[u])}
           verify == {u \in Live(g) : held[u] # 0 /\ g.hash[u] = 0}
           tombs == {u \in D : held[u] # 0} \ Live(g)
           at == IF lane = "cold" THEN resend \union verify ELSE Live(g)
           plan == PlanDelta(g, lane)
<1>1. g.manifest.dig = h.sd /\ plan = [tombs |-> tombs, resend |-> resend, verify |-> verify, at |-> at]
    BY Zenon DEF PlanDelta
<1>2. plan.tombs = tombs /\ plan.resend = resend /\ plan.verify = verify /\ plan.at = at
    BY <1>1
<1>3. /\ k.ver = h.ver /\ k.sd = h.sd /\ k.born = h.born /\ k.out = <<>> /\ k.fout = <<>> /\ k.fseq = h.fseq
      /\ k.at = h.at /\ k.bootSeq = h.bootSeq /\ k.dig = h.sd /\ k.manifest = g.manifest /\ g.ver = h.ver /\ g.hash = h.hash
    BY HostFacts, MendedFacts, Zenon DEF SceneLike, BookLike, CountLike, OutLike, AskLike
<1>4. held \in [D -> Nat] /\ h.hash \in [D -> Nat] /\ h.ver \in [D -> Nat] /\ h.fseq \in Nat /\ h.sd \in Nat
    BY HostFacts, MendedFacts, Zenon DEF Sound, Inventory, Versions, HostKinds
<1>5. ASSUME NEW u \in D, ~Gone(h, u)
      PROVE  held[u] <= r.ver[u] /\ r.ver[u] <= h.ver[u] /\ r.ver[u] \in Nat
  <2>1. u \in Things /\ u # Scene
      BY MendedFacts
  <2>2. Claim(g.manifest, u) <= Got(r, u) /\ Climbs(u) /\ Got(r, u) \in Nat /\ Got(r, u) = r.ver[u] /\ Has(h, u) = h.ver[u]
      BY <1>5, <2>1, MendedFacts DEF Sound
  <2> QED
      BY <2>1, <2>2 DEF Claim, Climbs
<1>6. Live(g) \subseteq h.born /\ Live(g) \subseteq D /\ \A u \in Live(g) : h.ver[u] # 0
    BY <1>3, MendedFacts DEF Live
<1>7. resend \subseteq Live(g) /\ verify \subseteq Live(g) /\ at \subseteq Live(g) /\ tombs \subseteq D
    OBVIOUS
<1>8. \A u \in tombs : Gone(h, u)
  <2> SUFFICES ASSUME NEW u \in tombs, ~Gone(h, u) PROVE FALSE
      OBVIOUS
  <2>1. u \in D /\ held[u] # 0 /\ h.ver[u] = 0
      BY <1>3 DEF Live
  <2> HIDE DEF held, tombs
  <2> QED
      BY <1>4, <1>5, <2>1
<1>9. ASSUME NEW u \in D, u \in Live(g), u \notin resend \union verify
      PROVE  held[u] # 0 /\ h.hash[u] # 0 /\ h.hash[u] = held[u]
    BY <1>3, <1>9
<1>10. Got(r, Scene) = h.sd
  <2>1. Claim(g.manifest, Scene) <= Got(r, Scene) /\ Climbs(Scene) /\ Got(r, Scene) \in Nat
      BY MendedFacts DEF Sound
  <2>2. h.sd <= Got(r, Scene) /\ Got(r, Scene) <= h.sd
      BY <1>1, <2>1 DEF Claim, Climbs, Has
  <2> QED
      BY <1>4, <2>1, <2>2
<1> HIDE DEF held, resend, verify, tombs, at, plan
<1> DEFINE gone == SetToSeq(plan.tombs)
           Msg(i) == FastMsg(k, "tomb", gone[i], k.fseq + i)
           q == [i \in 1..Len(gone) |-> FastMsg(k, "tomb", gone[i], k.fseq + i)]
           queue == {[u |-> u, expect |-> k.manifest.held[u]] : u \in plan.resend \union plan.verify}
           tail == {Scene} \union plan.at
           fseq == k.fseq + Len(gone)
           fout == k.fout \o q
           n == [k EXCEPT !.fseq = fseq, !.fout = fout, !.queue = queue, !.tail = tail,
                          !.end = TRUE, !.manifest = None]
<1>11. SendDelta(k, plan) = n
    BY DEF SendDelta
<1>12. gone \in Seq(tombs)
    BY <1>2, <1>7, Listing
<1>13. ASSUME NEW i \in 1..Len(gone)
       PROVE  /\ Msg(i) \in Post /\ Msg(i).kind = "tomb" /\ Msg(i).u \in D /\ Gone(h, Msg(i).u)
              /\ Msg(i).seq <= fseq /\ Msg(i).after = After(h, Msg(i).u) /\ Msg(i).after \in Nat
  <2>1. gone[i] \in tombs /\ Len(gone) \in Nat
      BY <1>12
  <2> HIDE DEF gone
  <2>2. PICK u : u = gone[i]
      OBVIOUS
  <2>3. u \in D /\ Gone(h, u) /\ After(h, u) \in Nat /\ u \in Things
      BY <1>7, <1>8, <2>1, <2>2, MendedFacts
  <2>4. After(k, u) = After(h, u)
      BY <1>3, Zenon DEF After
  <2>5. Msg(i) = [kind |-> "tomb", u |-> u, dig |-> h.sd, after |-> After(h, u), seq |-> h.fseq + i]
      BY <1>3, <2>2, <2>4, Zenon DEF FastMsg
  <2> HIDE DEF Msg
  <2>6. h.fseq + i \in Nat /\ h.fseq + i <= h.fseq + Len(gone)
      BY <1>4, <2>1
  <2> QED
      BY <1>3, <1>4, <2>3, <2>5, <2>6 DEF Post
<1>14. Len(gone) \in Nat /\ q \in Seq(Post) /\ Len(q) = Len(gone) /\ \A i \in 1..Len(q) : q[i] = Msg(i)
  <2>1. Len(gone) \in Nat
      BY <1>12
  <2>2. q = [i \in 1..Len(gone) |-> Msg(i)]
      OBVIOUS
  <2> HIDE DEF gone, Msg, q
  <2> QED
      BY <1>13, <2>1, <2>2
<1> HIDE DEF gone, Msg
<1>15. fseq \in Nat /\ h.fseq <= fseq /\ fout = q
  <2> HIDE DEF q
  <2> QED
      BY <1>3, <1>4, <1>14
<1> HIDE DEF q, queue, tail, fseq, fout
<1>16. HostKeys \subseteq DOMAIN n /\ SceneLike(k, n) /\ BookLike(k, n)
    BY DEF HostKeys, SceneLike, BookLike
<1>17. /\ n.manifest = None /\ n.req = k.req /\ n.dig = k.dig /\ n.queue = queue /\ n.tail = tail /\ n.end = TRUE
       /\ n.seq = k.seq /\ n.fseq = fseq /\ n.bootSeq = k.bootSeq /\ n.at = k.at /\ n.out = k.out /\ n.fout = fout
    BY DEF HostKeys
<1>18. Host(n)
    BY <1>11 DEF plan
<1> HIDE DEF n
<1>19. /\ SceneLike(n, h') /\ BookLike(n, h') /\ AskLike(n, h') /\ ListLike(n, h') /\ CountLike(n, h')
       /\ h'.fout = <<>> /\ cold' = cold \o n.out /\ fast' = fast \o n.fout
    BY <1>16, <1>18, Shipped
<1>20. SceneLike(h, h') /\ BookLike(h, h')
    BY <1>16, <1>19, Zenon DEF SceneLike, BookLike
<1>21. /\ h'.manifest = None /\ h'.req = g.req /\ h'.dig = h.sd /\ h'.queue = queue /\ h'.tail = tail
       /\ h'.seq = h.seq /\ h'.fseq = fseq /\ h'.bootSeq = h.bootSeq /\ h'.at = h.at
    BY <1>3, <1>17, <1>19, Zenon DEF AskLike, ListLike, CountLike
<1>22. cold' = cold /\ fast' = fast \o q
    BY <1>3, <1>15, <1>17, <1>19, MendedFacts
<1>23. Grows /\ \A i \in 1..Len(cold') : i \in 1..Len(cold)
    BY <1>22, GrowsNot
<1>24. Mail /\ fast' \in Seq(Post)
  <2>1. ASSUME NEW i \in 1..Len(q) PROVE NewPost(q[i])
    <3>1. PICK x : x = q[i]
        OBVIOUS
    <3>2. /\ x.kind = "tomb" /\ x.u \in D /\ Gone(h, x.u) /\ x.seq <= fseq /\ x.after = After(h, x.u) /\ x.after \in Nat
        BY <1>13, <1>14, <3>1, Zenon
    <3>3. Gone(h', x.u)
        BY <1>20, <3>2, Zenon DEF Gone, SceneLike
    <3>4. After(h, x.u) <= x.after /\ x.kind # "t1" /\ x.seq <= h'.fseq
        BY <1>21, <3>2
    <3> QED
        BY <3>1, <3>2, <3>3, <3>4, Zenon DEF NewPost, OfScene
  <2>2. h.fseq <= h'.fseq /\ h'.fseq \in Nat /\ Kinds
      BY <1>15, <1>21, MendedFacts
  <2>3. Mail /\ fast' \in Seq(Post) /\ \A i \in 1..Len(q) : Afoot(q[i])'
      BY <1>14, <1>22, <2>1, <2>2, MailSent, Zenon
  <2> QED
      BY <2>3
<1>25. Later
  <2>1. h'.seq = h.seq /\ \A u \in Things : After(h', u) = After(h, u)
      BY <1>21, Zenon DEF After
  <2>2. h.seq \in Nat /\ \A u \in Things : After(h, u) \in Nat
      BY HostFacts, MendedFacts
  <2> QED
      BY <2>1, <2>2 DEF Later
<1>26. \A e \in queue : \E u \in Live(g) : e.u = u /\ e.expect = held[u]
  <2>1. PICK x : x = k.manifest.held
      OBVIOUS
  <2>2. queue = {[u |-> u, expect |-> x[u]] : u \in resend \union verify} /\ x = held
      BY <1>2, <1>3, <2>1 DEF queue, held
  <2> QED
      BY <1>7, <2>2
<1>27. \A u \in resend \union verify : \E e \in queue : e.u = u
  <2> SUFFICES ASSUME NEW u \in resend \union verify PROVE \E e \in queue : e.u = u
      OBVIOUS
  <2>1. [u |-> u, expect |-> k.manifest.held[u]] \in queue
      BY <1>2 DEF queue
  <2> QED
      BY <2>1
<1>28. HostKinds(h')
  <2>1. HostKinds(h)
      BY MendedFacts
  <2>2. h'.tail \subseteq h'.born \union {Scene}
      BY <1>2, <1>6, <1>7, <1>20, <1>21 DEF tail, SceneLike
  <2>3. \A e \in h'.queue : e.u \in h'.born /\ e.expect \in Nat
      BY <1>4, <1>6, <1>20, <1>21, <1>26 DEF SceneLike
  <2>4. \A w \in h'.tombs : Gone(h', w)
      BY <1>20, <2>1, Zenon DEF HostKinds, Gone, SceneLike
  <2>5. (h'.manifest # None => Inventory(h'.manifest)) /\ (h'.req.at = "answered" => Inventory(h'.req))
      BY <1>21, <2>1, Zenon DEF HostKinds
  <2>6. h'.dig \in Nat /\ h'.fseq \in Nat /\ h'.born = h.born
      BY <1>4, <1>15, <1>20, <1>21 DEF SceneLike
  <2>7. Filed(h')
      BY <1>4, <1>20, <1>21, <2>1 DEF HostKinds, Filed, SceneLike
  <2> QED
      BY <1>21, <2>1, <2>2, <2>3, <2>4, <2>5, <2>6, <2>7, Zenon DEF HostKinds
<1>29. ASSUME NEW w \in D PROVE HashMove(w) /\ CoverMove(w)
  <2>1. HashMove(w)
      BY <1>20, <1>23, StaysHashed, Zenon DEF SceneLike, BookLike
  <2>2. \A o \in Int : \A v \in Nat \ {0} : TellsOf(o, w, v)' => TellsOf(o, w, v)
      BY <1>20, Zenon DEF TellsOf, HostSays, BookLike, SceneLike
  <2> QED
      BY <1>23, <2>1, <2>2, Zenon DEF CoverMove
<1>30. ASSUME NEW w \in Things, ~Gone(h, w) PROVE Asked(h', w) /\ WholeMove(w)
  <2>1. Has(h', w) = Has(h, w) /\ (Owed(h, w) => Owed(h', w))
      BY <1>20, Zenon DEF Has, Owed, SceneLike, BookLike
  <2>2. Asked(h', w)
    <3>1. Asked(h, w)
        BY <1>30, MendedFacts
    <3>2. ASSUME NEW e \in h'.queue, e.u = w PROVE e.expect <= Got(r, w)
      <4>1. w \in D /\ e.expect = held[w]
          BY <1>6, <1>21, <1>26, <3>2
      <4>2. held[w] <= r.ver[w] /\ Got(r, w) = r.ver[w]
          BY <1>5, <1>30, <4>1, MendedFacts
      <4> QED
          BY <4>1, <4>2
    <3> QED
        BY <1>21, <3>1, <3>2, Zenon DEF Asked
  <2>3. CASE w = Scene
    <3>1. Got(r, w) = Has(h', w)
        BY <1>10, <1>20, <2>3 DEF Has, SceneLike
    <3> QED
        BY <2>2, <3>1, Zenon DEF WholeMove
  <2>4. CASE w # Scene /\ w \in resend \union verify
      BY <1>21, <1>27, <2>1, <2>2, <2>4, Zenon DEF WholeMove
  <2>5. CASE w # Scene /\ w \notin resend \union verify
    <3>1. w \in D /\ Got(r, w) = r.ver[w] /\ Has(h, w) = h.ver[w] /\ h.ver[w] \in Nat
        BY <2>5, MendedFacts DEF Things
    <3>2. held[w] <= r.ver[w] /\ r.ver[w] <= h.ver[w] /\ r.ver[w] \in Nat
        BY <1>5, <1>30, <3>1
    <3>3. CASE h.ver[w] = 0
      <4>1. Got(r, w) = Has(h', w)
          BY <2>1, <3>1, <3>2, <3>3
      <4> QED
          BY <2>2, <4>1, Zenon DEF WholeMove
    <3>4. CASE h.ver[w] # 0
      <4>1. w \in Live(g)
          BY <1>3, <3>1, <3>4 DEF Live
      <4>2. held[w] # 0 /\ h.hash[w] # 0 /\ h.hash[w] = held[w]
          BY <1>9, <2>5, <3>1, <4>1
      <4>3. Hashed(w)
          BY <1>30, <3>1, Zenon DEF Mended
      <4>4. r.ver[w] = h.hash[w]
          BY <1>4, <3>1, <3>2, <4>2, <4>3 DEF Hashed
      <4>5. CASE h.hash[w] = h.ver[w]
        <5>1. Got(r, w) = Has(h', w)
            BY <2>1, <3>1, <4>4, <4>5
        <5> QED
            BY <2>2, <5>1, Zenon DEF WholeMove
      <4>6. CASE h.hash[w] # h.ver[w]
        <5>1. Owed(h, w)
            BY <2>5, <4>2, <4>3, <4>6 DEF Hashed, Owed
        <5> QED
            BY <2>1, <2>2, <5>1, Zenon DEF WholeMove
      <4> QED
          BY <4>5, <4>6
    <3> QED
        BY <3>3, <3>4
  <2> QED
      BY <2>3, <2>4, <2>5
<1>31. /\ h'.ver = h.ver /\ h'.sd = h.sd /\ h'.born = h.born /\ h'.tombs = h.tombs
       /\ h.dig <= h'.dig
    BY <1>20, <1>21, MendedFacts DEF SceneLike, HostKinds, Filed
<1> QED
    BY <1>19, <1>23, <1>24, <1>25, <1>28, <1>29, <1>30, <1>31, Unedited, Zenon

\* The watch.
LEMMA WatchMoves ==
    ASSUME Shape, Mended, NEW late, NEW limited, Watch(late, limited)
    PROVE  Move
<1> DEFINE d == DeltaState(h, pong, late)
           g == d[1]
           n == Served(g, pong)
           Rest(k) == /\ HostKeys \subseteq DOMAIN k /\ SceneLike(g, k) /\ BookLike(g, k) /\ ListLike(g, k)
                      /\ CountLike(g, k) /\ OutLike(g, k) /\ AskLike(g, k)
<1>1. Host(Answer(g, pong, d[2], limited)) /\ r' = r /\ ctl' = ctl
    BY DEF Watch, Timer
<1>2. /\ SceneLike(h, g) /\ BookLike(h, g) /\ ListLike(h, g) /\ CountLike(h, g) /\ OutLike(h, g)
      /\ HostKeys \subseteq DOMAIN g /\ g.dig = h.sd
      /\ (g.req.at = "answered" => g.req = h.req)
      /\ (g.manifest # None \/ d[2] = "ready" => Sound(g.manifest))
    BY StateAsked, Zenon
<1>3. d[2] \in {"ready", "pending", "mismatch"}
    BY DEF DeltaState
<1> HIDE DEF d, g
<1>4. \A s : Rest([g EXCEPT !.served = s])
    BY <1>2 DEF HostKeys, SceneLike, BookLike, ListLike, CountLike, OutLike, AskLike
<1>5. Rest(n)
    BY <1>4, Zenon DEF Served
<1>6. CASE Host(g)
    BY <1>1, <1>2, <1>6, AskMoves, Zenon
<1>7. CASE Host([g EXCEPT !.served = None])
  <2>1. PICK k : k = [g EXCEPT !.served = None]
      OBVIOUS
  <2>2. Rest(k) /\ Host(k)
      BY <1>4, <1>7, <2>1, Zenon
  <2>3. /\ SceneLike(h, k) /\ BookLike(h, k) /\ ListLike(h, k) /\ CountLike(h, k) /\ OutLike(h, k)
        /\ k.dig = h.sd /\ k.req = g.req /\ k.manifest = g.manifest
      BY <1>2, <2>2, Zenon DEF SceneLike, BookLike, ListLike, CountLike, OutLike, AskLike
  <2> QED
      BY <1>1, <1>2, <2>2, <2>3, AskMoves, Zenon
<1>8. CASE Host(SendBootstrap(n, TRUE))
  <2> HIDE DEF n
  <2>1. SceneLike(h, n) /\ BookLike(h, n) /\ CountLike(h, n) /\ n.queue = h.queue /\ n.end = h.end
      BY <1>2, <1>5, Zenon DEF SceneLike, BookLike, CountLike, ListLike
  <2>2. HostOK(n)
      BY <1>5, <2>1, HostFacts, Zenon DEF HostOK, SceneLike, BookLike, CountLike
  <2>3. n.out = <<>> /\ n.fout = <<>> /\ n.req = g.req
      BY <1>2, <1>5, HostFacts, MendedFacts, Zenon DEF OutLike, AskLike
  <2>4. TRUE \in BOOLEAN
      OBVIOUS
  <2> QED
      BY <1>1, <1>2, <1>8, <2>1, <2>2, <2>3, <2>4, BootMoves, Zenon DEF SceneLike, BookLike
<1>9. CASE d[2] = "ready" /\ PlanDelta(g, pong.lane) # None /\ Host(SendDelta(n, PlanDelta(g, pong.lane)))
  <2> HIDE DEF n
  <2> QED
      BY <1>1, <1>2, <1>5, <1>9, PlanMoves, Zenon
<1> HIDE DEF n
<1> QED
    BY <1>1, <1>3, <1>6, <1>7, <1>8, <1>9, Zenon DEF Answer, n

-----------------------------------------------------------------------------
(* The replica's steps                                                     *)

\* The cold lane stays, or its first frame is gone.
Slides(o) ==
    /\ o \in {0, 1} /\ Len(cold) \in Nat /\ Len(cold') \in Nat /\ (o = 1 => 1 \in 1..Len(cold))
    /\ \A i \in 1..Len(cold') : i + o \in 1..Len(cold) /\ cold'[i] = cold[i + o]
    /\ \A j \in 1..Len(cold) : j = o \/ (j - o \in 1..Len(cold') /\ cold'[j - o] = cold[j])

\* The replica has of a thing what it had, or what the first frame brings.
Fed(o, u) == Got(r', u) = Got(r, u) \/ (o = 1 /\ Carries(cold[1], u) /\ Got(r', u) = Val(cold[1], u))
Marked(o, new, old) == new = old \/ (o = 1 /\ new = cold[1].seq)
Loaded(o, u) ==
    r'.gen = r.gen \/ (o = 1 /\ cold[1].kind = "boot" /\ r'.gen = cold[1].gen /\ r'.ver[u] = cold[1].ver[u])
StillThere(u) == There(u) => There(u)'
Served1(o, u) == o = 1 /\ Brings(h, cold[1], u) => There(u)' \/ (Hole' /\ ~cold[1].fix) \/ r'.missed

\* The scene has the structure of a file, and the digest of it or of a delta that was its turn.
Mailed(y) ==
    Afoot(y) /\ OfScene(y) /\ r'.dig = y.dig /\ y.after <= r'.mg.coldApplied /\ \A x : Afoot(x)' => InTurn(y, x)
Dug(o) ==
    \/ r'.sd = r.sd /\ (r'.dig = r.dig \/ \E y : Mailed(y))
    \/ o = 1 /\ cold[1].kind = "boot" /\ r'.sd = cold[1].sd /\ (r'.dig = r'.sd \/ \E y : Mailed(y))
Built(o) ==
    o = 1 /\ Brings(h, cold[1], Scene) => r'.sd = h.sd \/ (Hole' /\ ~cold[1].fix) \/ r'.missed
Risen(u) ==
    /\ Got(r, u) <= Got(r', u) /\ Got(r', u) <= Has(h, u)
    /\ \A i \in 1..Len(cold') : Carries(cold'[i], u) => Got(r', u) <= Val(cold'[i], u)

\* What is left of the fast lane and of what is parked is in turn.
Turns ==
    /\ \A i, j \in 1..Len(fast') : i < j => InTurn(fast'[i], fast'[j])
    /\ \A x \in r'.mg.parked : x.after > r'.mg.coldApplied
                               /\ \A i \in 1..Len(fast') : InTurn(x, fast'[i])

\* What a step of the replica does, one thing at a time.
Taken(o) ==
    /\ h' = h /\ ctl' \subseteq ctl /\ Slides(o) /\ ReplicaKinds(r') /\ fast' \in Seq(Post)
    /\ \A x : Afoot(x)' => Afoot(x)
    /\ \A x : Afoot(x) /\ x.kind = "tomb" /\ x.u \in D /\ ~Afoot(x)' => r'.ver[x.u] = 0 /\ x.after <= r'.mg.coldApplied
    /\ Marked(o, r'.mg.cold.last, r.mg.cold.last) /\ Marked(o, r'.mg.coldApplied, r.mg.coldApplied)
    /\ Marked(o, r'.lost, r.lost)
    /\ Hole => Hole' \/ (o = 1 /\ cold[1].kind \in {"boot", "end"})
    /\ r.missed => r'.missed \/ (o = 1 /\ cold[1].kind = "boot")
    /\ Dug(o) /\ Built(o) /\ Turns
    /\ \A u \in D : r'.ver[u] = 0 \/ Fed(o, u)
    /\ \A u \in D : ~Gone(h, u) => /\ Loaded(o, u) /\ Fed(o, u) /\ Claim(r', u) <= Got(r', u)
                                   /\ StillThere(u) /\ Served1(o, u)

\* The first frame is taken.
LEMMA SlidesOne ==
    ASSUME Shape, cold # <<>>, cold' = Tail(cold)
    PROVE  Slides(1) /\ Head(cold) = cold[1] /\ 1 \in 1..Len(cold)
<1>1. cold \in Seq(Frame)
    BY DEF Shape
<1>2. PICK q : q = cold'
    OBVIOUS
<1>3. /\ Len(q) = Len(cold) - 1 /\ Len(cold) \in Nat \ {0} /\ Head(cold) = cold[1]
      /\ \A i \in 1..Len(q) : q[i] = cold[i + 1]
    BY <1>1, <1>2
<1>4. \A j \in 1..Len(cold) : j = 1 \/ (j - 1 \in 1..Len(q) /\ (j - 1) + 1 = j)
    BY <1>3
<1>5. \A j \in 1..Len(cold) : j = 1 \/ (j - 1 \in 1..Len(q) /\ q[j - 1] = cold[j])
    BY <1>3, <1>4
<1>6. /\ Len(cold) \in Nat /\ Len(q) \in Nat /\ 1 \in 1..Len(cold)
      /\ \A i \in 1..Len(q) : i + 1 \in 1..Len(cold) /\ q[i] = cold[i + 1]
    BY <1>3
<1> QED
    BY <1>2, <1>3, <1>5, <1>6 DEF Slides

\* No frame is taken.
LEMMA SlidesNot ==
    ASSUME Shape, cold' = cold
    PROVE  Slides(0)
<1>1. Len(cold) \in Nat
    BY DEF Shape
<1>2. \A i \in 1..Len(cold) : i + 0 = i /\ i - 0 = i
    OBVIOUS
<1> QED
    BY <1>1, <1>2 DEF Slides

\* What is left on the lane was there, behind what is gone.
LEMMA SlidBack ==
    ASSUME NEW o, Slides(o), NEW i \in 1..Len(cold')
    PROVE  /\ o \in {0, 1} /\ i + o \in 1..Len(cold) /\ cold'[i] = cold[i + o] /\ o < i + o /\ i \in Nat
           /\ (o = 1 => 1 \in 1..Len(cold) /\ 1 < i + o)
<1>1. o \in {0, 1} /\ i + o \in 1..Len(cold) /\ cold'[i] = cold[i + o] /\ (o = 1 => 1 \in 1..Len(cold))
    BY Zenon DEF Slides
<1>2. i \in Nat /\ i >= 1
    OBVIOUS
<1> QED
    BY <1>1, <1>2

\* The frames that are left are in line, ahead of what has been seen.
LEMMA LinedTaken ==
    ASSUME Shape, Kinds, Lined, NEW o, Taken(o)
    PROVE  Lined'
<1>1. Slides(o) /\ h' = h
    BY DEF Taken
<1>2. /\ h.seq \in Nat /\ r.mg.cold.last \in Nat /\ r.mg.coldApplied \in Nat /\ r.lost \in Nat
    BY DEF Kinds, ReplicaKinds, Merger, Tracker, Shape, HostOK
<1>3. \A i \in 1..Len(cold) : cold[i].seq \in Nat
    BY Values DEF Things
<1>4. ASSUME NEW new, NEW old \in Nat, Marked(o, new, old), old <= h.seq, \A i \in 1..Len(cold) : cold[i].seq > old
      PROVE  new <= h.seq /\ \A i \in 1..Len(cold') : cold'[i].seq > new
  <2>1. CASE new = old
    <3>1. ASSUME NEW i \in 1..Len(cold') PROVE cold'[i].seq > new
        BY <1>1, <1>4, <2>1, SlidBack, Zenon
    <3> QED
        BY <1>4, <2>1, <3>1
  <2>2. CASE o = 1 /\ new = cold[1].seq
    <3>1. 1 \in 1..Len(cold)
        BY <1>1, <2>2 DEF Slides
    <3>2. new <= h.seq
        BY <2>2, <3>1 DEF Lined
    <3>3. ASSUME NEW i \in 1..Len(cold') PROVE cold'[i].seq > new
      <4>1. i + o \in 1..Len(cold) /\ cold'[i] = cold[i + o] /\ 1 < i + o
          BY <1>1, <2>2, SlidBack
      <4>2. cold[1].seq < cold[i + o].seq
          BY <3>1, <4>1, Zenon DEF Lined
      <4> QED
          BY <1>3, <2>2, <3>1, <4>1, <4>2
    <3> QED
        BY <3>2, <3>3
  <2> QED
      BY <1>4, <2>1, <2>2 DEF Marked
<1>5. /\ r'.mg.cold.last <= h.seq /\ \A i \in 1..Len(cold') : cold'[i].seq > r'.mg.cold.last
    BY <1>2, <1>4, Zenon DEF Lined, Taken
<1>6. /\ r'.mg.coldApplied <= h.seq /\ \A i \in 1..Len(cold') : cold'[i].seq > r'.mg.coldApplied
    BY <1>2, <1>4, Zenon DEF Lined, Taken
<1>7. /\ r'.lost <= h.seq /\ \A i \in 1..Len(cold') : cold'[i].seq > r'.lost
    BY <1>2, <1>4, Zenon DEF Lined, Taken
<1>8. \A i \in 1..Len(cold') : cold'[i].seq <= h.seq /\ \A u \in Things : Carries(cold'[i], u) => cold'[i].seq <= After(h, u)
    BY <1>1, SlidBack, Zenon DEF Lined
<1>9. ASSUME NEW i \in 1..Len(cold'), NEW j \in 1..Len(cold'), i < j PROVE cold'[i].seq < cold'[j].seq
  <2>1. /\ i + o \in 1..Len(cold) /\ cold'[i] = cold[i + o] /\ j + o \in 1..Len(cold) /\ cold'[j] = cold[j + o]
        /\ i \in Nat /\ j \in Nat /\ o \in {0, 1}
      BY <1>1, SlidBack, Zenon
  <2>2. i + o < j + o
      BY <1>9, <2>1
  <2> QED
      BY <2>1, <2>2, Zenon DEF Lined
<1> QED
    BY <1>1, <1>5, <1>6, <1>7, <1>8, <1>9, Zenon DEF Lined

\* Versions still climb, and the replica's does not go down.
LEMMA ClimbsTaken ==
    ASSUME Shape, Kinds, NEW u \in Things, Climbs(u), NEW o, Slides(o), h' = h, Fed(o, u) \/ Risen(u), Got(r', u) \in Nat
    PROVE  Climbs(u)' /\ Got(r, u) <= Got(r', u)
<1>1. /\ Has(h, u) \in Nat /\ Got(r, u) \in Nat
      /\ \A i \in 1..Len(cold) : Carries(cold[i], u) => Val(cold[i], u) \in Nat
    BY Values
<1>2. o = 1 => 1 \in 1..Len(cold)
    BY DEF Slides
<1>3. Got(r, u) <= Got(r', u) /\ Got(r', u) <= Has(h, u)
    BY <1>1, <1>2 DEF Fed, Climbs, Risen
<1>4. ASSUME NEW i \in 1..Len(cold'), Carries(cold'[i], u)
      PROVE  /\ Got(r', u) <= Val(cold'[i], u) /\ Val(cold'[i], u) <= Has(h, u)
             /\ \A j \in 1..Len(cold') : i < j /\ Carries(cold'[j], u) => Val(cold'[i], u) <= Val(cold'[j], u)
  <2>1. /\ i + o \in 1..Len(cold) /\ cold'[i] = cold[i + o] /\ (o = 1 => 1 < i + o) /\ i \in Nat /\ o \in {0, 1}
      BY SlidBack, Zenon
  <2>2. Got(r', u) <= Val(cold'[i], u)
    <3>1. Got(r, u) <= Val(cold'[i], u)
        BY <1>4, <2>1, Zenon DEF Climbs
    <3>2. o = 1 /\ Carries(cold[1], u) => Val(cold[1], u) <= Val(cold'[i], u)
        BY <1>2, <1>4, <2>1, Zenon DEF Climbs
    <3> QED
        BY <1>4, <3>1, <3>2, Zenon DEF Fed, Risen
  <2>3. Val(cold'[i], u) <= Has(h, u)
      BY <1>4, <2>1, Zenon DEF Climbs
  <2>4. ASSUME NEW j \in 1..Len(cold'), i < j, Carries(cold'[j], u) PROVE Val(cold'[i], u) <= Val(cold'[j], u)
    <3>1. j + o \in 1..Len(cold) /\ cold'[j] = cold[j + o] /\ j \in Nat
        BY SlidBack, Zenon
    <3>2. i + o < j + o
        BY <2>1, <2>4, <3>1
    <3> QED
        BY <1>4, <2>1, <2>4, <3>1, <3>2, Zenon DEF Climbs
  <2> QED
      BY <2>2, <2>3, <2>4
<1> QED
    BY <1>3, <1>4, Zenon DEF Climbs

\* Inventories stay behind a replica that has moved on.
LEMMA BehindTaken ==
    ASSUME Shape, Kinds, NEW u \in Things, Behind(u), h' = h, Got(r, u) <= Got(r', u), Got(r', u) \in Nat,
           Claim(r', u) <= Got(r', u)
    PROVE  Behind(u)'
<1>1. Got(r, u) \in Nat
    BY Values
<1>2. ASSUME NEW s, Inventory(s), Claim(s, u) <= Got(r, u) PROVE Claim(s, u) <= Got(r', u)
  <2>1. Claim(s, u) \in Nat
      BY <1>2 DEF Inventory, Claim, Versions, Things
  <2> QED
      BY <1>1, <1>2, <2>1
<1>3. h.manifest # None => Claim(h.manifest, u) <= Got(r', u)
    BY <1>2, Zenon DEF Behind, Asked, Kinds, HostKinds
<1>4. h.req.at = "answered" => Claim(h.req, u) <= Got(r', u)
    BY <1>2, Zenon DEF Behind, Asked, Kinds, HostKinds
<1>5. \A e \in h.queue : e.u = u => e.expect <= Got(r', u)
    BY <1>1 DEF Behind, Asked, Kinds, HostKinds
<1> QED
    BY <1>3, <1>4, <1>5, Zenon DEF Behind, Asked

\* The host's digest is not overtaken: a frame brings no more than it says.
LEMMA HashedTaken ==
    ASSUME Shape, NEW u \in D, Hashed(u), NEW o, Slides(o), h' = h, Fed(o, u)
    PROVE  Hashed(u)'
<1>1. Got(r', u) = r'.ver[u] /\ Got(r, u) = r.ver[u]
    BY DeltaAssumption DEF Got
<1>2. o = 1 => 1 \in 1..Len(cold)
    BY DEF Slides
<1>3. h.hash[u] # 0 => r'.ver[u] <= h.hash[u]
    BY <1>1, <1>2, Zenon DEF Fed, Hashed
<1>4. h.hash[u] # 0 => \A i \in 1..Len(cold') : Carries(cold'[i], u) => Val(cold'[i], u) <= h.hash[u]
    BY SlidBack, Zenon DEF Hashed
<1> QED
    BY <1>3, <1>4, Zenon DEF Hashed

\* The digests of a file's batches stay behind it once it is loaded.
LEMMA CoversTaken ==
    ASSUME Shape, NEW u \in D, Covers(u), NEW o, Slides(o), h' = h, ctl' \subseteq ctl, Loaded(o, u),
           r.ver[u] <= r'.ver[u], r.ver[u] \in Nat, r'.ver[u] \in Nat
    PROVE  Covers(u)'
<1> SUFFICES ASSUME NEW n \in Int, NEW v \in Nat \ {0}, TellsOf(n, u, v)'
             PROVE  /\ r'.gen # None /\ r'.gen = n => v <= r'.ver[u]
                    /\ \A i \in 1..Len(cold') : cold'[i].kind = "boot" /\ cold'[i].gen = n => v <= cold'[i].ver[u]
    BY Zenon DEF Covers
<1>1. TellsOf(n, u, v)
    BY Zenon DEF TellsOf
<1>2. /\ r.gen # None /\ r.gen = n => v <= r.ver[u]
      /\ \A i \in 1..Len(cold) : cold[i].kind = "boot" /\ cold[i].gen = n => v <= cold[i].ver[u]
    BY <1>1, Zenon DEF Covers
<1>3. \A i \in 1..Len(cold') : cold'[i].kind = "boot" /\ cold'[i].gen = n => v <= cold'[i].ver[u]
    BY <1>2, SlidBack, Zenon
<1>4. ASSUME r'.gen # None, r'.gen = n PROVE v <= r'.ver[u]
  <2>1. CASE r'.gen = r.gen
    <3>1. v <= r.ver[u]
        BY <1>2, <1>4, <2>1
    <3> QED
        BY <3>1
  <2>2. CASE o = 1 /\ cold[1].kind = "boot" /\ r'.gen = cold[1].gen /\ r'.ver[u] = cold[1].ver[u]
    <3>1. 1 \in 1..Len(cold)
        BY <2>2 DEF Slides
    <3> QED
        BY <1>2, <1>4, <2>2, <3>1, Zenon
  <2> QED
      BY <2>1, <2>2 DEF Loaded
<1> QED
    BY <1>3, <1>4

\* A tombstone that has been applied leaves the datablock gone, and no frame
\* behind it brings it back.
LEMMA GravesTaken ==
    ASSUME Shape, Kinds, NEW o, Taken(o), Lined', NEW u \in D, Graves(u)
    PROVE  Graves(u)'
<1>1. Slides(o) /\ h' = h /\ ReplicaKinds(r')
    BY DEF Taken
<1>2. u \in Things /\ Got(r', u) = r'.ver[u] /\ Got(r, u) = r.ver[u]
    BY DeltaAssumption DEF Got, Things
<1>3. ASSUME NEW x, Tomb(x, u)'
      PROVE  /\ Gone(h, u)
             /\ \A i \in 1..Len(cold') : Carries(cold'[i], u) /\ Val(cold'[i], u) # 0 => cold'[i].seq <= x.after
  <2>1. Tomb(x, u)
      BY <1>3, Zenon DEF Tomb, Taken
  <2>2. Gone(h, u) /\ \A i \in 1..Len(cold) : Carries(cold[i], u) /\ Val(cold[i], u) # 0 => cold[i].seq <= x.after
      BY <2>1, Zenon DEF Graves
  <2> QED
      BY <1>1, <2>2, SlidBack, Zenon
<1>4. ASSUME Gone(h, u), u \notin h.tombs, \A x : ~Tomb(x, u)' PROVE r'.ver[u] = 0 /\ ~Brought(u)'
  <2>1. CASE \E x : Tomb(x, u)
    <3>1. PICK x : Tomb(x, u)
        BY <2>1
    <3>2. ~Afoot(x)' /\ Afoot(x) /\ x.kind = "tomb" /\ x.u = u
        BY <1>4, <3>1, Zenon DEF Tomb
    <3>3. r'.ver[u] = 0 /\ x.after <= r'.mg.coldApplied
        BY <3>2, Zenon DEF Taken
    <3>4. x.after \in Nat /\ r'.mg.coldApplied \in Nat
      <4>1. fast \in Seq(Post) /\ r.mg.parked \subseteq Post
          BY DEF Kinds, ReplicaKinds, Merger
      <4>2. \A i \in 1..Len(fast) : fast[i] \in Post
          BY <4>1
      <4>3. x \in Post
          BY <3>2, <4>1, <4>2, Zenon DEF Afoot
      <4>4. r'.mg \in Merger(Post)
          BY <1>1 DEF ReplicaKinds
      <4> QED
          BY <4>3, <4>4 DEF Post, Merger
    <3>5. ASSUME NEW i \in 1..Len(cold'), Carries(cold'[i], u), Val(cold'[i], u) # 0 PROVE FALSE
      <4>1. i + o \in 1..Len(cold) /\ cold'[i] = cold[i + o]
          BY <1>1, SlidBack, Zenon
      <4>2. cold[i + o].seq <= x.after
          BY <3>1, <3>5, <4>1, Zenon DEF Graves
      <4>3. cold'[i].seq \in Nat /\ cold'[i].seq > r'.mg.coldApplied
          BY <1>2, <4>1, Values DEF Lined
      <4> QED
          BY <3>3, <3>4, <4>1, <4>2, <4>3
    <3> QED
        BY <3>3, <3>5, Zenon DEF Brought
  <2>2. CASE \A x : ~Tomb(x, u)
    <3>1. r.ver[u] = 0 /\ ~Brought(u)
        BY <1>4, <2>2, Zenon DEF Graves
    <3>2. ~Brought(u)'
      <4>1. ASSUME NEW i \in 1..Len(cold'), Carries(cold'[i], u), Val(cold'[i], u) # 0 PROVE FALSE
        <5>1. i + o \in 1..Len(cold) /\ cold'[i] = cold[i + o]
            BY <1>1, SlidBack, Zenon
        <5> QED
            BY <3>1, <4>1, <5>1, Zenon DEF Brought
      <4> QED
          BY <4>1, Zenon DEF Brought
    <3>3. o = 1 /\ Carries(cold[1], u) => Val(cold[1], u) = 0
        BY <1>1, <3>1, Zenon DEF Brought, Slides
    <3>4. r'.ver[u] = 0 \/ Fed(o, u)
        BY Zenon DEF Taken
    <3> QED
        BY <1>2, <3>1, <3>2, <3>3, <3>4, Zenon DEF Fed
  <2> QED
      BY <2>1, <2>2
<1> QED
    BY <1>1, <1>3, <1>4, Zenon DEF Graves

\* The difference is still made up for when the first frame has been applied,
\* refused or lost.
LEMMA WholeTaken ==
    ASSUME Shape, Kinds, NEW u \in Things, Whole(u), NEW o, Slides(o), h' = h, StillThere(u), Served1(o, u),
           Hole => Hole' \/ (o = 1 /\ cold[1].kind \in {"boot", "end"}),
           r.missed => r'.missed \/ (o = 1 /\ cold[1].kind = "boot")
    PROVE  Whole(u)'
<1>1. o \in {0, 1} /\ (o = 1 => 1 \in 1..Len(cold))
    BY DEF Slides
<1>2. ASSUME NEW i \in 1..Len(cold), Brings(h, cold[i], u)
      PROVE  \/ i = 1 /\ o = 1 /\ (There(u)' \/ (Hole' /\ ~cold[i].fix) \/ r'.missed)
             \/ i - o \in 1..Len(cold') /\ cold'[i - o] = cold[i] /\ Brings(h', cold'[i - o], u)
  <2>1. CASE i = o
    <3>1. i = 1 /\ o = 1
        BY <1>1, <2>1
    <3> QED
        BY <1>2, <3>1, Zenon DEF Served1
  <2>2. CASE i # o
      BY <1>2, <2>2, Zenon DEF Slides
  <2> QED
      BY <2>1, <2>2
<1>3. Now(u)'
  <2>1. \A i \in 1..Len(cold) : Brings(h, cold[i], u) => Now(u)'
      BY <1>2, Zenon DEF Now
  <2>2. There(u) => Now(u)'
      BY Zenon DEF Now, StillThere
  <2>3. o = 1 /\ cold[1].kind = "boot" => Now(u)'
    <3> SUFFICES ASSUME o = 1, cold[1].kind = "boot" PROVE Now(u)'
        OBVIOUS
    <3>1. Owed(h, u) \/ \E i \in 1..Len(cold) : Brings(h, cold[i], u)
        BY <1>1, Zenon DEF Whole, AtFile
    <3> QED
        BY <2>1, <2>2, <3>1, Zenon DEF There
  <2>4. r.missed => Now(u)'
      BY <2>3, Zenon DEF Now
  <2>5. o = 1 /\ cold[1].kind = "end" => Now(u)'
    <3> SUFFICES ASSUME o = 1, cold[1].kind = "end" PROVE Now(u)'
        OBVIOUS
    <3>1. r.missed \/ There(u) \/ \E i \in 1..Len(cold) : Brings(h, cold[i], u)
        BY <1>1, Zenon DEF Whole, AtEnd, Barred
    <3> QED
        BY <2>1, <2>2, <2>4, <3>1, Zenon
  <2>6. Hole => Now(u)'
      BY <2>3, <2>5, Zenon DEF Now
  <2> QED
      BY <2>1, <2>2, <2>4, <2>6, Zenon DEF Whole, Now
<1>4. AtFile(u)'
  <2> SUFFICES ASSUME NEW c \in 1..Len(cold'), cold'[c].kind = "boot"
               PROVE  Owed(h', u) \/ \E i \in 1..Len(cold') : i >= c /\ Brings(h', cold'[i], u)
      BY Zenon DEF AtFile
  <2>1. c + o \in 1..Len(cold) /\ cold'[c] = cold[c + o] /\ c \in Nat /\ c >= 1
      BY SlidBack
  <2>2. Owed(h, u) \/ \E i \in 1..Len(cold) : i >= c + o /\ Brings(h, cold[i], u)
      BY <2>1, Zenon DEF Whole, AtFile
  <2>3. ASSUME NEW i \in 1..Len(cold), i >= c + o, Brings(h, cold[i], u)
        PROVE  \E j \in 1..Len(cold') : j >= c /\ Brings(h', cold'[j], u)
    <3>1. ~(i = 1 /\ o = 1) /\ i - o >= c
        BY <1>1, <2>1, <2>3
    <3> QED
        BY <1>2, <2>3, <3>1, Zenon
  <2> QED
      BY <2>2, <2>3, Zenon
<1>5. ASSUME NEW k \in 1..Len(cold'), cold'[k].kind = "boot"
      PROVE  k + o \in 1..Len(cold) /\ cold[k + o].kind = "boot" /\ k \in Nat /\ k >= 1
    BY <1>5, SlidBack
<1>6. ASSUME NEW c \in Nat, NEW b, b = c + o \/ (b = Len(cold) /\ c = Len(cold')), Barred(b), o = 1 => 1 <= b
      PROVE  Barred(c)'
  <2>1. r.missed /\ \A k \in 1..Len(cold) : cold[k].kind = "boot" => k > b
      BY <1>6, Zenon DEF Barred
  <2>2. o = 1 => cold[1].kind # "boot"
    <3>1. 1 \in 1..Len(cold) /\ cold[1].kind = "boot" => 1 > b
        BY <2>1, Zenon
    <3>2. b \in Int
        BY <1>1, <1>6 DEF Slides
    <3> QED
        BY <1>1, <1>6, <3>1, <3>2
  <2>3. r'.missed
      BY <2>1, <2>2, Zenon
  <2>4. ASSUME NEW k \in 1..Len(cold'), cold'[k].kind = "boot" PROVE k > c
    <3>1. k + o \in 1..Len(cold) /\ k + o > b /\ k \in Nat
        BY <1>5, <2>1, <2>4
    <3> QED
        BY <1>1, <1>6, <3>1 DEF Slides
  <2> QED
      BY <2>3, <2>4, Zenon DEF Barred
<1>7. ASSUME NEW c \in Nat, NEW b, b = c + o \/ (b = Len(cold) /\ c = Len(cold')),
             NEW i \in 1..Len(cold), cold[i].fix, NoFile(i, b), Brings(h, cold[i], u)
      PROVE  Barred(c)' \/ There(u)' \/ \E j \in 1..Len(cold') : cold'[j].fix /\ NoFile(j, c)' /\ Brings(h', cold'[j], u)
  <2>1. ASSUME NEW k \in 1..Len(cold'), cold'[k].kind = "boot" PROVE k <= i - o \/ k > c
    <3>1. k + o \in 1..Len(cold) /\ (k + o <= i \/ k + o > b) /\ k \in Nat
        BY <1>5, <1>7, <2>1, Zenon DEF NoFile
    <3> QED
        BY <1>1, <1>7, <3>1 DEF Slides
  <2>2. CASE i = 1 /\ o = 1
    <3>1. \A k \in 1..Len(cold') : cold'[k].kind = "boot" => k > c
        BY <2>1, <2>2
    <3>2. r'.missed => Barred(c)'
        BY <3>1, Zenon DEF Barred
    <3>3. ~(i - o \in 1..Len(cold'))
        BY <2>2
    <3>4. There(u)' \/ r'.missed
        BY <1>2, <1>7, <3>3, Zenon
    <3> QED
        BY <3>2, <3>4
  <2>3. CASE ~(i = 1 /\ o = 1)
    <3>1. i - o \in 1..Len(cold') /\ cold'[i - o].fix /\ Brings(h', cold'[i - o], u)
        BY <1>2, <1>7, <2>3, Zenon
    <3>2. NoFile(i - o, c)'
        BY <2>1, Zenon DEF NoFile
    <3> QED
        BY <3>1, <3>2, Zenon
  <2> QED
      BY <2>2, <2>3
<1>8. AtEnd(u)'
  <2> SUFFICES ASSUME NEW c \in 1..Len(cold'), cold'[c].kind = "end"
               PROVE  \/ Barred(c)' \/ There(u)'
                      \/ \E i \in 1..Len(cold') : (i > c \/ (cold'[i].fix /\ NoFile(i, c)')) /\ Brings(h', cold'[i], u)
      BY Zenon DEF AtEnd
  <2>1. c + o \in 1..Len(cold) /\ cold'[c] = cold[c + o] /\ c \in Nat /\ c >= 1
      BY SlidBack
  <2>2. PICK b : b = c + o
      OBVIOUS
  <2>3. \/ Barred(b) \/ There(u)
        \/ \E i \in 1..Len(cold) : (i > b \/ (cold[i].fix /\ NoFile(i, b))) /\ Brings(h, cold[i], u)
      BY <2>1, <2>2, Zenon DEF Whole, AtEnd
  <2>4. ASSUME NEW i \in 1..Len(cold), i > b, Brings(h, cold[i], u)
        PROVE  \E j \in 1..Len(cold') : j > c /\ Brings(h', cold'[j], u)
    <3>1. ~(i = 1 /\ o = 1) /\ i - o > c
        BY <1>1, <2>1, <2>2, <2>4
    <3> QED
        BY <1>2, <2>4, <3>1, Zenon
  <2>5. o = 1 => 1 <= b
      BY <2>1, <2>2
  <2>6. Barred(b) => Barred(c)'
      BY <1>6, <2>1, <2>2, <2>5, Zenon
  <2>7. ASSUME NEW i \in 1..Len(cold), cold[i].fix, NoFile(i, b), Brings(h, cold[i], u)
        PROVE  Barred(c)' \/ There(u)' \/ \E j \in 1..Len(cold') : cold'[j].fix /\ NoFile(j, c)' /\ Brings(h', cold'[j], u)
      BY <1>7, <2>1, <2>2, <2>7, Zenon
  <2> QED
      BY <2>3, <2>4, <2>6, <2>7, Zenon DEF StillThere
<1>9. Listed(u)'
  <2>1. PICK b, c : b = Len(cold) /\ c = Len(cold')
      OBVIOUS
  <2>2. c \in Nat /\ (o = 1 => 1 <= b)
      BY <1>1, <2>1 DEF Slides
  <2>3. h.end => \/ Barred(b) \/ There(u) \/ \E e \in h.queue : e.u = u
                 \/ \E i \in 1..Len(cold) : cold[i].fix /\ NoFile(i, b) /\ Brings(h, cold[i], u)
      BY <2>1, Zenon DEF Whole, Listed
  <2>4. Barred(b) => Barred(c)'
      BY <1>6, <2>1, <2>2, Zenon
  <2>5. ASSUME NEW i \in 1..Len(cold), cold[i].fix, NoFile(i, b), Brings(h, cold[i], u)
        PROVE  Barred(c)' \/ There(u)' \/ \E j \in 1..Len(cold') : cold'[j].fix /\ NoFile(j, c)' /\ Brings(h', cold'[j], u)
      BY <1>7, <2>1, <2>2, <2>5, Zenon
  <2>6. h'.end => \/ Barred(c)' \/ There(u)' \/ \E e \in h'.queue : e.u = u
                  \/ \E j \in 1..Len(cold') : cold'[j].fix /\ NoFile(j, c)' /\ Brings(h', cold'[j], u)
      BY <2>3, <2>4, <2>5, Zenon DEF StillThere
  <2> QED
      BY <2>1, <2>6, Zenon DEF Listed, Barred, NoFile
<1> QED
    BY <1>3, <1>4, <1>8, <1>9 DEF Whole

\* The fast messages that are left are in turn, and no file is behind them.
LEMMA PostsTaken ==
    ASSUME Shape, Kinds, Posts, NEW o, Taken(o)
    PROVE  Posts'
<1>1. Slides(o) /\ h' = h
    BY Zenon DEF Taken
<1>2. \A y : Mailed(y) => Afoot(y) /\ OfScene(y) /\ r'.dig = y.dig /\ y.dig <= h.dig
    BY Zenon DEF Mailed, Posts, Fits
<1>3. r'.dig > r'.sd => (r'.sd = r.sd /\ r'.dig = r.dig) \/ \E y : Mailed(y)
  <2>1. ~(r'.sd > r'.sd)
      BY DEF Taken, ReplicaKinds
  <2> QED
      BY <2>1, Zenon DEF Taken, Dug
<1>4. ASSUME NEW x, Afoot(x)' PROVE x.seq <= h.fseq /\ (OfScene(x) => Fits(x)')
  <2>1. Afoot(x)
      BY <1>4, Zenon DEF Taken
  <2>2. x.seq <= h.fseq /\ (OfScene(x) => Fits(x))
      BY <2>1, Zenon DEF Posts
  <2>3. ASSUME OfScene(x) PROVE Fits(x)'
    <3>1. /\ x.dig <= h.dig /\ x.after <= h.bootSeq /\ (r.dig > r.sd => r.dig <= x.dig)
          /\ \A i \in 1..Len(cold) : cold[i].kind = "boot" /\ cold[i].seq > x.after => x.dig <= cold[i].sd
        BY <2>2, <2>3, Zenon DEF Fits
    <3>2. \A y : Mailed(y) => r'.dig <= x.dig
        BY <1>4, <2>3, Zenon DEF Mailed, InTurn
    <3>3. r'.dig > r'.sd => r'.dig <= x.dig
        BY <1>3, <3>1, <3>2, Zenon
    <3>4. \A i \in 1..Len(cold') : cold'[i].kind = "boot" /\ cold'[i].seq > x.after => x.dig <= cold'[i].sd
        BY <1>1, <3>1, SlidBack, Zenon
    <3> QED
        BY <1>1, <3>1, <3>3, <3>4, Zenon DEF Fits
  <2> QED
      BY <2>2, <2>3
<1>5. \A x, y : Afoot(x)' /\ Afoot(y)' /\ x.after < y.after => InTurn(x, y)
    BY Zenon DEF Taken, Posts
<1>6. r'.dig > r'.sd => r'.dig <= h.dig
    BY <1>2, <1>3, Zenon DEF Posts
<1>7. Turns
    BY Zenon DEF Taken
<1> QED
    BY <1>1, <1>4, <1>5, <1>6, <1>7, Zenon DEF Posts, Turns

\* What the replica has got of the structure goes up, and not past what is on its way.
LEMMA SceneRisen ==
    ASSUME Shape, Kinds, Lined', Posts, Climbs(Scene), NEW o, Taken(o)
    PROVE  Risen(Scene)
<1>1. Slides(o) /\ h' = h /\ ReplicaKinds(r') /\ Dug(o) /\ Scene \in Things
    BY Zenon DEF Taken, Things
<1>2. /\ r.sd \in Nat /\ r.dig \in Nat /\ r'.sd \in Nat /\ r'.dig \in Nat /\ h.sd \in Nat /\ h.dig \in Nat
      /\ h.dig <= h.sd
    BY <1>1, Zenon DEF Kinds, ReplicaKinds, HostKinds, Filed, Shape, HostOK
<1>3. /\ Got(r, Scene) = IF r.dig > r.sd THEN r.dig ELSE r.sd
      /\ Got(r', Scene) = IF r'.dig > r'.sd THEN r'.dig ELSE r'.sd
      /\ Has(h, Scene) = h.sd
    BY Zenon DEF Got, Has
<1>4. \A i \in 1..Len(cold) : cold[i].kind = "boot" <=> Carries(cold[i], Scene)
    BY DeltaAssumption DEF Carries, Shape, FrameOK
<1>5. \A i \in 1..Len(cold) : Carries(cold[i], Scene) => Val(cold[i], Scene) = cold[i].sd /\ cold[i].sd \in Nat
  <2>1. \A i \in 1..Len(cold) : Carries(cold[i], Scene) => Val(cold[i], Scene) = cold[i].sd
      BY <1>4, Zenon DEF Val, Has
  <2> QED
      BY <1>1, <2>1, Values
<1>6. o = 1 => 1 \in 1..Len(cold)
    BY <1>1 DEF Slides
<1>7. /\ Got(r, Scene) <= h.sd
      /\ \A i \in 1..Len(cold) : cold[i].kind = "boot" => Got(r, Scene) <= cold[i].sd /\ cold[i].sd <= h.sd /\ cold[i].sd \in Nat
      /\ \A i, j \in 1..Len(cold) : i < j /\ cold[i].kind = "boot" /\ cold[j].kind = "boot" => cold[i].sd <= cold[j].sd
    BY <1>3, <1>4, <1>5, Zenon DEF Climbs
<1>8. ASSUME NEW y, Mailed(y)
      PROVE  /\ r'.dig <= h.sd /\ (r.dig > r.sd => r.dig <= r'.dig)
             /\ \A i \in 1..Len(cold') : cold'[i].kind = "boot" => r'.dig <= cold'[i].sd
  <2>1. Afoot(y) /\ Fits(y) /\ r'.dig = y.dig /\ y.after <= r'.mg.coldApplied
      BY <1>8, Zenon DEF Mailed, Posts
  <2>2. r'.dig <= h.dig /\ (r.dig > r.sd => r.dig <= r'.dig)
      BY <2>1, Zenon DEF Fits
  <2>3. ASSUME NEW i \in 1..Len(cold'), cold'[i].kind = "boot" PROVE r'.dig <= cold'[i].sd
    <3>1. i + o \in 1..Len(cold) /\ cold'[i] = cold[i + o]
        BY <1>1, SlidBack, Zenon
    <3>2. cold'[i].seq > r'.mg.coldApplied /\ cold'[i].seq \in Nat
        BY <1>1, <3>1, Values DEF Lined
    <3>3. r'.mg.coldApplied \in Nat /\ y.after \in Nat
      <4>1. fast \in Seq(Post) /\ r.mg.parked \subseteq Post /\ r'.mg \in Merger(Post)
          BY <1>1 DEF Kinds, ReplicaKinds, Merger
      <4>2. \A j \in 1..Len(fast) : fast[j] \in Post
          BY <4>1
      <4>3. y \in Post
          BY <2>1, <4>1, <4>2, Zenon DEF Afoot
      <4> QED
          BY <4>1, <4>3 DEF Post, Merger
    <3>4. cold'[i].seq > y.after
        BY <2>1, <3>2, <3>3
    <3> QED
        BY <2>1, <2>3, <3>1, <3>4, Zenon DEF Fits
  <2> QED
      BY <1>2, <2>2, <2>3
<1>9. ASSUME NEW i \in 1..Len(cold'), cold'[i].kind = "boot"
      PROVE  /\ Got(r, Scene) <= cold'[i].sd /\ cold'[i].sd \in Nat
             /\ o = 1 /\ cold[1].kind = "boot" => cold[1].sd <= cold'[i].sd
  <2>1. i + o \in 1..Len(cold) /\ cold'[i] = cold[i + o] /\ (o = 1 => 1 < i + o)
      BY <1>1, SlidBack, Zenon
  <2> QED
      BY <1>6, <1>7, <1>9, <2>1, Zenon
<1>10. ASSUME NEW v \in {r.sd, r.dig} PROVE v <= h.sd /\ \A i \in 1..Len(cold') : cold'[i].kind = "boot" => v <= cold'[i].sd
  <2>1. v <= Got(r, Scene) /\ v \in Nat /\ Got(r, Scene) \in Nat
      BY <1>2, <1>3
  <2>2. v <= h.sd
      BY <1>2, <1>7, <2>1
  <2>3. ASSUME NEW i \in 1..Len(cold'), cold'[i].kind = "boot" PROVE v <= cold'[i].sd
    <3>1. Got(r, Scene) <= cold'[i].sd /\ cold'[i].sd \in Nat
        BY <1>9, <2>3, Zenon
    <3> QED
        BY <2>1, <3>1
  <2> QED
      BY <2>2, <2>3
<1>11. ASSUME o = 1, cold[1].kind = "boot"
       PROVE  /\ cold[1].sd <= h.sd /\ Got(r, Scene) <= cold[1].sd /\ cold[1].sd \in Nat
              /\ \A i \in 1..Len(cold') : cold'[i].kind = "boot" => cold[1].sd <= cold'[i].sd
    BY <1>6, <1>7, <1>9, <1>11, Zenon
<1>12. r'.sd <= h.sd /\ \A i \in 1..Len(cold') : cold'[i].kind = "boot" => r'.sd <= cold'[i].sd
    BY <1>1, <1>10, <1>11, Zenon DEF Dug
<1>13. r'.dig <= h.sd /\ \A i \in 1..Len(cold') : cold'[i].kind = "boot" => r'.dig <= cold'[i].sd
    BY <1>1, <1>8, <1>10, <1>12, Zenon DEF Dug
<1>14. Got(r, Scene) <= Got(r', Scene)
  <2>1. CASE r'.sd = r.sd /\ (r'.dig = r.dig \/ \E y : Mailed(y))
    <3>1. r'.dig = r.dig \/ (r.dig > r.sd => r.dig <= r'.dig)
        BY <1>8, <2>1, Zenon
    <3> QED
        BY <1>2, <1>3, <2>1, <3>1
  <2>2. CASE o = 1 /\ cold[1].kind = "boot" /\ r'.sd = cold[1].sd
      BY <1>2, <1>3, <1>11, <2>2
  <2> QED
      BY <1>1, <2>1, <2>2, Zenon DEF Dug
<1>15. Got(r', Scene) \in {r'.sd, r'.dig}
    BY <1>3
<1>16. ASSUME NEW i \in 1..Len(cold'), Carries(cold'[i], Scene) PROVE Got(r', Scene) <= Val(cold'[i], Scene)
  <2>1. i + o \in 1..Len(cold) /\ cold'[i] = cold[i + o]
      BY <1>1, SlidBack, Zenon
  <2>2. cold'[i].kind = "boot" /\ Val(cold'[i], Scene) = cold'[i].sd
      BY <1>4, <1>5, <1>16, <2>1, Zenon
  <2> QED
      BY <1>12, <1>13, <1>15, <2>2, Zenon
<1> QED
    BY <1>3, <1>12, <1>13, <1>14, <1>15, <1>16, Zenon DEF Risen

\* The scene's part of the difference stays, and what the first frame brings of it counts.
LEMMA SceneServed ==
    ASSUME Shape, Kinds, Risen(Scene), NEW o, Taken(o)
    PROVE  StillThere(Scene) /\ Served1(o, Scene)
<1>1. h' = h /\ ReplicaKinds(r') /\ Built(o)
    BY Zenon DEF Taken
<1>2. /\ r'.sd \in Nat /\ r'.dig \in Nat /\ h.sd \in Nat /\ Has(h, Scene) = h.sd /\ Scene \notin r.failed
      /\ Got(r, Scene) \in Nat /\ Got(r', Scene) = IF r'.dig > r'.sd THEN r'.dig ELSE r'.sd
  <2>1. Scene \in Things
      BY DEF Things
  <2> QED
      BY <1>1, <2>1, Values, DeltaAssumption DEF Got, Has, Kinds, ReplicaKinds, Shape, HostOK
<1>3. /\ Got(r, Scene) = h.sd => Got(r', Scene) = h.sd
      /\ r'.sd = h.sd => Got(r', Scene) = h.sd
    BY <1>2 DEF Risen
<1>4. StillThere(Scene)
    BY <1>1, <1>2, <1>3, Zenon DEF StillThere, There, Refused
<1>5. Served1(o, Scene)
    BY <1>1, <1>2, <1>3, Zenon DEF Served1, Built, There
<1> QED
    BY <1>4, <1>5

\* Such a step keeps the invariant.
LEMMA ReplicaKeeps ==
    ASSUME Shape, Shape', Mended, NEW o, Taken(o)
    PROVE  Mended'
<1>1. Slides(o) /\ h' = h /\ ReplicaKinds(r') /\ fast' \in Seq(Post) /\ Kinds /\ Posts
    BY Zenon DEF Taken, Mended
<1>2. Kinds'
    BY <1>1, Zenon DEF Kinds
<1>3. Lined'
    BY LinedTaken, Zenon DEF Mended
<1>4. ASSUME NEW u \in Things PROVE Got(r', u) \in Nat
  <2>1. r'.ver \in [D -> Nat] /\ r'.sd \in Nat /\ r'.dig \in Nat
      BY <1>1, Zenon DEF Shape, ReplicaOK, ReplicaKinds, Versions
  <2> QED
      BY <2>1 DEF Got, Things
<1>5. Scene \in Things /\ ~Gone(h, Scene) /\ \A u \in Things : u = Scene \/ u \in D
    BY <1>1, DeltaAssumption DEF Things, Gone, Kinds, HostKinds
<1>6. Risen(Scene)
    BY <1>1, <1>3, <1>5, SceneRisen, Zenon DEF Mended
<1>7. ASSUME NEW u \in Things, ~Gone(h, u)
      PROVE  /\ Fed(o, u) \/ Risen(u)
             /\ Claim(r', u) <= Got(r', u) /\ StillThere(u) /\ Served1(o, u)
  <2>1. CASE u = Scene
    <3>1. Claim(r', Scene) <= Got(r', Scene)
        BY <1>1 DEF Claim, Got, ReplicaKinds
    <3> QED
        BY <1>1, <1>6, <2>1, <3>1, SceneServed, Zenon
  <2>2. CASE u \in D
      BY <1>7, <2>2, Zenon DEF Taken
  <2> QED
      BY <1>5, <2>1, <2>2, Zenon
<1>8. ASSUME NEW u \in Things, ~Gone(h, u)
      PROVE  Climbs(u)' /\ Behind(u)' /\ Whole(u)' /\ Got(r, u) <= Got(r', u)
  <2>1. (Fed(o, u) \/ Risen(u)) /\ Claim(r', u) <= Got(r', u) /\ StillThere(u) /\ Served1(o, u)
      BY <1>7, <1>8, Zenon
  <2>2. Climbs(u) /\ Behind(u) /\ Whole(u) /\ Got(r', u) \in Nat
      BY <1>4, <1>8, Zenon DEF Mended
  <2>3. Climbs(u)' /\ Got(r, u) <= Got(r', u)
      BY <1>1, <2>1, <2>2, ClimbsTaken, Zenon
  <2>4. Behind(u)'
      BY <1>1, <2>1, <2>2, <2>3, BehindTaken, Zenon
  <2>5. /\ Hole => Hole' \/ (o = 1 /\ cold[1].kind \in {"boot", "end"})
        /\ r.missed => r'.missed \/ (o = 1 /\ cold[1].kind = "boot")
      BY Zenon DEF Taken
  <2>6. Whole(u)'
      BY <1>1, <2>1, <2>2, <2>5, WholeTaken, Zenon
  <2> QED
      BY <2>3, <2>4, <2>6
<1>9. Posts'
    BY <1>1, PostsTaken, Zenon
<1>10. ASSUME NEW u \in D
       PROVE  /\ Graves(u)' /\ (u \notin h.born => h.ver[u] = 0)
              /\ (~Gone(h, u) => Hashed(u)' /\ Covers(u)')
  <2>1. Graves(u)' /\ (u \notin h.born => h.ver[u] = 0)
      BY <1>1, <1>3, GravesTaken, Zenon DEF Mended
  <2>2. ASSUME ~Gone(h, u) PROVE Hashed(u)' /\ Covers(u)'
    <3>1. u \in Things /\ Got(r', u) = r'.ver[u] /\ Got(r, u) = r.ver[u]
        BY DeltaAssumption DEF Got, Things
    <3>2. Fed(o, u) /\ Loaded(o, u) /\ Hashed(u) /\ Covers(u) /\ ctl' \subseteq ctl
        BY <2>2, <3>1, Zenon DEF Taken, Mended
    <3>3. Hashed(u)'
        BY <1>1, <3>2, HashedTaken, Zenon
    <3>4. r.ver[u] <= r'.ver[u] /\ r.ver[u] \in Nat /\ r'.ver[u] \in Nat
      <4>1. r.ver[u] \in Nat
          BY DEF Shape, ReplicaOK, Versions
      <4> QED
          BY <1>4, <1>8, <2>2, <3>1, <4>1, Zenon
    <3>5. Covers(u)'
        BY <1>1, <3>2, <3>4, CoversTaken, Zenon
    <3> QED
        BY <3>3, <3>5
  <2> QED
      BY <2>1, <2>2
<1> QED
    BY <1>1, <1>2, <1>3, <1>8, <1>9, <1>10, Zenon DEF Mended

\* Every nonempty set of naturals has a least element.
LEMMA NatMin ==
    ASSUME NEW T \in SUBSET Nat, T # {}
    PROVE  \E x \in T : \A y \in T : x <= y
<1>1. \E x \in T : \A y \in T : ~ (<<y, x>> \in OpToRel(<, Nat))
    BY NatLessThanWellFounded, WFMin, Zenon
<1>2. PICK x \in T : \A y \in T : ~ (<<y, x>> \in OpToRel(<, Nat))
    BY <1>1
<1>3. \A y \in T : ~ (y < x)
    BY <1>2 DEF OpToRel
<1> QED
    BY <1>3

\* A nonempty bounded set of naturals has a greatest element.
LEMMA NatMax ==
    ASSUME NEW S \in SUBSET Nat, S # {}, NEW b \in Nat, \A s \in S : s <= b
    PROVE  \E x \in S : \A y \in S : y <= x
<1> DEFINE T == {b - s : s \in S}
<1>1. T \in SUBSET Nat /\ T # {}
  <2>1. \A s \in S : s \in Nat /\ b - s \in Nat
      OBVIOUS
  <2> QED
      BY <2>1, Zenon
<1>2. PICK t \in T : \A y \in T : t <= y
    BY <1>1, NatMin
<1>3. PICK x \in S : t = b - x
    OBVIOUS
<1>4. \A y \in S : t <= b - y
    BY <1>2
<1> QED
    BY <1>3, <1>4

\* The digest after some fast messages is the one before, or one of theirs.
LEMMA DigestOf ==
    ASSUME NEW p, NEW msgs \in SUBSET Post, NEW b \in Nat, \A x \in msgs : x.seq <= b
    PROVE  \/ Digest(p, msgs) = p.dig
           \/ \E x \in msgs : x.kind = "t1" /\ x.u = Scene /\ Digest(p, msgs) = x.dig
<1> DEFINE news == {m \in msgs : m.kind = "t1" /\ m.u = Scene}
           newest == CHOOSE m \in news : \A o \in news : o.seq <= m.seq
<1>1. Digest(p, msgs) = IF p.sd = 0 \/ news = {} THEN p.dig ELSE newest.dig
    BY DEF Digest
<1>2. ASSUME news # {} PROVE newest \in news
  <2> DEFINE seqs == {m.seq : m \in news}
  <2>1. seqs \in SUBSET Nat /\ seqs # {} /\ \A s \in seqs : s <= b
      BY <1>2 DEF Post
  <2>2. PICK s \in seqs : \A y \in seqs : y <= s
      BY <2>1, NatMax
  <2>3. PICK m \in news : s = m.seq
      OBVIOUS
  <2>4. \A o \in news : o.seq <= m.seq
      BY <2>2, <2>3
  <2> QED
      BY <2>4
<1> HIDE DEF newest
<1> QED
    BY <1>1, <1>2

\* What fast messages on their way do to a replica that has been fed: nothing
\* to a datablock the host has, and the digest is one of theirs or as it was.
LEMMA Delivered ==
    ASSUME Shape, Mended, NEW p, ReplicaKeys \subseteq DOMAIN p, p.ver \in Versions, p.held \in Versions,
           p.dig \in Nat,
           NEW msgs, \A x \in msgs : Afoot(x), NEW q, q = ApplyFast(p, msgs)
    PROVE  /\ q.mg = p.mg /\ q.sd = p.sd /\ q.gen = p.gen /\ q.failed = p.failed /\ q.lost = p.lost
           /\ q.missed = p.missed /\ (p.want => q.want)
           /\ q.dig \in Nat /\ (q.dig = p.dig \/ \E x \in msgs : OfScene(x) /\ q.dig = x.dig)
           /\ \A u \in D : q.ver[u] = 0 \/ q.ver[u] = p.ver[u]
           /\ \A u \in D : ~Gone(h, u) => q.ver[u] = p.ver[u] /\ q.held[u] = p.held[u]
           /\ \A x \in msgs : x.kind = "tomb" /\ x.u \in D => q.ver[x.u] = 0
<1> DEFINE gone == Buried(p, msgs)
           ver == [u \in D |-> IF u \in gone THEN 0 ELSE p.ver[u]]
           held == [u \in D |-> IF u \in gone THEN 0 ELSE p.held[u]]
           dig == Digest(p, msgs)
           lost == MeetsUnknown(p, msgs)
           k == [p EXCEPT !.ver = ver, !.held = held, !.dig = dig,
                          !.unknown = @ \/ lost, !.want = @ \/ lost]
<1>1. q = k
    BY DEF ApplyFast
<1>2. msgs \in SUBSET Post /\ (\A x \in msgs : x.seq <= h.fseq) /\ h.fseq \in Nat
  <2>1. fast \in Seq(Post) /\ r.mg.parked \subseteq Post /\ h.fseq \in Nat
      BY DEF Mended, Kinds, ReplicaKinds, HostKinds, Merger
  <2>2. \A i \in 1..Len(fast) : fast[i] \in Post
      BY <2>1
  <2>3. \A x \in msgs : x \in Post /\ x.seq <= h.fseq
      BY <2>1, <2>2, Zenon DEF Afoot, Mended, Posts
  <2> QED
      BY <2>1, <2>3
<1>3. dig = p.dig \/ \E x \in msgs : OfScene(x) /\ dig = x.dig
    BY <1>2, DigestOf, Zenon DEF OfScene
<1>4. dig \in Nat
  <2>1. \A x \in msgs : x.dig \in Nat
      BY <1>2 DEF Post
  <2> HIDE DEF dig
  <2> QED
      BY <1>3, <2>1, Zenon
<1>5. \A u \in D : u \in gone <=> p.ver[u] # 0 /\ \E m \in msgs : m.kind = "tomb" /\ m.u = u
    BY DEF Buried
<1>6. \A u \in D : u \in gone => Gone(h, u)
    BY <1>5, Zenon DEF Mended, Graves, Tomb
<1> HIDE DEF gone, dig, lost
<1>7. /\ \A u \in D : ver[u] = 0 \/ ver[u] = p.ver[u]
      /\ \A u \in D : ~Gone(h, u) => ver[u] = p.ver[u] /\ held[u] = p.held[u]
    BY <1>6, Zenon
<1>8. \A x \in msgs : x.kind = "tomb" /\ x.u \in D => ver[x.u] = 0
    BY <1>5, Zenon
<1> HIDE DEF ver, held
<1>9. /\ k.mg = p.mg /\ k.sd = p.sd /\ k.gen = p.gen /\ k.failed = p.failed /\ k.lost = p.lost
      /\ k.missed = p.missed
      /\ k.ver = ver /\ k.held = held /\ k.dig = dig /\ k.want = (p.want \/ lost)
    BY DEF ReplicaKeys
<1> HIDE DEF k
<1>10. p.want => k.want
    BY <1>9, Zenon
<1> QED
    BY <1>1, <1>3, <1>4, <1>7, <1>8, <1>9, <1>10, Zenon

\* Nothing new of the structure.
LEMMA DugNothing ==
    ASSUME NEW o, r'.sd = r.sd, r'.dig = r.dig
    PROVE  Dug(o)
BY Zenon DEF Dug

\* The fast lane is as it was.
LEMMA TurnsOn ==
    ASSUME Mended, fast' = fast, r'.mg = r.mg
    PROVE  Turns
BY Zenon DEF Turns, Mended, Posts

\* Where the replica has what it had of a thing, the difference is where it was.
LEMMA StaysThere ==
    ASSUME NEW u, h' = h, r'.failed = r.failed, Got(r', u) = Got(r, u), NEW o, Slides(o)
    PROVE  StillThere(u)
<1>1. \A i \in 1..Len(cold') : i + o \in 1..Len(cold) /\ cold'[i] = cold[i + o]
    BY Zenon DEF Slides
<1>2. Refused(u) => Refused(u)'
    BY <1>1, Zenon DEF Refused
<1> QED
    BY <1>2, Zenon DEF There, StillThere

\* A batch is merged, dropped or kept.
LEMMA MergeMoves ==
    ASSUME Shape, Mended, NEW b \in ctl, MergeManifest(b)
    PROVE  Taken(0)
<1> DEFINE held == [u \in D |-> IF r.held[u] = 0 THEN b.held[u] ELSE r.held[u]]
<1>1. /\ h' = h /\ cold' = cold /\ ctl' \subseteq ctl /\ fast' = fast /\ r.gen # None
      /\ r' = r \/ (b.gen = r.gen /\ r' = [r EXCEPT !.held = held])
    BY DEF MergeManifest, Mergeable
<1>2. b.gen \in Int /\ b.held \in Versions
    BY DEF Shape
<1>3. \A u \in D : held[u] = IF r.held[u] = 0 THEN b.held[u] ELSE r.held[u]
    OBVIOUS
<1> HIDE DEF held
<1>4. /\ r'.ver = r.ver /\ r'.sd = r.sd /\ r'.dig = r.dig /\ r'.gen = r.gen /\ r'.mg = r.mg
      /\ r'.want = r.want /\ r'.failed = r.failed /\ r'.lost = r.lost /\ r'.missed = r.missed
      /\ r'.held = r.held \/ (b.gen = r.gen /\ r'.held = held)
    BY <1>1, ReplicaFacts DEF ReplicaKeys
<1>5. Slides(0) /\ Kinds
    BY <1>1, SlidesNot, Zenon DEF Mended
<1>6. ReplicaKinds(r') /\ fast' \in Seq(Post) /\ (Hole => Hole')
    BY <1>1, <1>4, <1>5, Zenon DEF Kinds, ReplicaKinds, Hole
<1>7. \A x : Afoot(x)' <=> Afoot(x)
    BY <1>1, <1>4, Zenon DEF Afoot
<1>8. ASSUME NEW u PROVE Got(r', u) = Got(r, u)
    BY <1>4, Zenon DEF Got
<1>9. ASSUME NEW u \in D, ~Gone(h, u)
      PROVE  Claim(r', u) <= Got(r', u)
  <2>1. Claim(r, u) <= Got(r, u)
      BY <1>9, Zenon DEF Mended, Behind, Things
  <2>2. CASE Claim(r', u) = Claim(r, u)
      BY <1>8, <2>1, <2>2, Zenon
  <2>3. CASE Claim(r', u) # Claim(r, u)
    <3>1. u \in D /\ r'.held = held /\ b.gen = r.gen /\ u # Scene
        BY <1>4, <1>9, <2>3, DeltaAssumption DEF Claim
    <3>2. Claim(r', u) = b.held[u] /\ Got(r', u) = r.ver[u]
        BY <1>3, <1>4, <2>3, <3>1, Zenon DEF Claim, Got
    <3>3. b.held[u] \in Nat /\ r.ver[u] \in Nat
        BY <1>2, <3>1, ReplicaFacts DEF Versions
    <3>4. CASE b.held[u] = 0
        BY <3>2, <3>3, <3>4
    <3>5. CASE b.held[u] # 0
      <4>1. TellsOf(b.gen, u, b.held[u]) /\ b.held[u] \in Nat \ {0} /\ Covers(u)
          BY <1>9, <3>1, <3>3, <3>5, Zenon DEF TellsOf, BatchSays, Mended
      <4> QED
          BY <1>1, <1>2, <3>1, <3>2, <4>1, Zenon DEF Covers
    <3> QED
        BY <3>4, <3>5
  <2> QED
      BY <2>2, <2>3
<1>10. 0 # 1
    OBVIOUS
<1>11. Dug(0) /\ Built(0) /\ Turns
    BY <1>1, <1>4, <1>10, DugNothing, TurnsOn, Zenon DEF Built
<1>12. ASSUME NEW u PROVE Fed(0, u) /\ StillThere(u) /\ Served1(0, u)
    BY <1>1, <1>4, <1>5, <1>8, <1>10, StaysThere, Zenon DEF Fed, Served1
<1> QED
    BY <1>1, <1>4, <1>5, <1>6, <1>7, <1>9, <1>11, <1>12, Zenon DEF Taken, Marked, Loaded

\* A frame is lost: the next one will show it, and it is missed if it was a part of a repair.
LEMMA LoseMoves ==
    ASSUME Shape, Mended, LoseCold
    PROVE  Taken(1)
<1>1. /\ h' = h /\ cold # <<>> /\ cold' = Tail(cold) /\ ctl' \subseteq ctl /\ fast' = fast
      /\ r' = [r EXCEPT !.lost = Head(cold).seq, !.missed = @ \/ Head(cold).fix]
    BY DEF LoseCold
<1>2. Slides(1) /\ Head(cold) = cold[1] /\ 1 \in 1..Len(cold) /\ Kinds /\ Lined
    BY <1>1, SlidesOne, Zenon DEF Mended
<1>3. /\ r'.ver = r.ver /\ r'.sd = r.sd /\ r'.dig = r.dig /\ r'.held = r.held /\ r'.gen = r.gen /\ r'.mg = r.mg
      /\ r'.want = r.want /\ r'.failed = r.failed /\ r'.lost = cold[1].seq
      /\ r'.missed = (r.missed \/ cold[1].fix)
    BY <1>1, <1>2, ReplicaFacts DEF ReplicaKeys
<1>4. cold[1].seq \in Nat /\ cold[1].seq > r.mg.cold.last
  <2>1. Scene \in Things
      BY DEF Things
  <2> QED
      BY <1>2, <2>1, Values DEF Lined
<1>5. ReplicaKinds(r') /\ fast' \in Seq(Post) /\ Hole'
    BY <1>1, <1>2, <1>3, <1>4, Zenon DEF Kinds, ReplicaKinds, Hole
<1>6. \A x : Afoot(x)' <=> Afoot(x)
    BY <1>1, <1>3, Zenon DEF Afoot
<1>7. ASSUME NEW u PROVE Got(r', u) = Got(r, u) /\ Claim(r', u) = Claim(r, u)
    BY <1>3, Zenon DEF Got, Claim
<1>8. ASSUME NEW u \in D, ~Gone(h, u) PROVE Claim(r', u) <= Got(r', u)
    BY <1>7, <1>8, Zenon DEF Mended, Behind, Things
<1>9. (r.missed => r'.missed) /\ ((Hole' /\ ~cold[1].fix) \/ r'.missed)
    BY <1>3, <1>5, Zenon
<1>10. Dug(1) /\ Built(1) /\ Turns
    BY <1>1, <1>3, <1>9, DugNothing, TurnsOn, Zenon DEF Built
<1>11. ASSUME NEW u PROVE Fed(1, u) /\ StillThere(u) /\ Served1(1, u)
    BY <1>1, <1>2, <1>3, <1>7, <1>9, StaysThere, Zenon DEF Fed, Served1
<1> QED
    BY <1>1, <1>2, <1>3, <1>5, <1>6, <1>8, <1>9, <1>10, <1>11, Zenon DEF Taken, Marked, Loaded

\* A fast message is applied, or waits for the frame it names.
LEMMA FastMoves ==
    ASSUME Shape, Mended, TakeFast
    PROVE  Taken(0)
<1>1. PICK x : x = Head(fast)
    OBVIOUS
<1>2. /\ fast # <<>> /\ h' = h /\ cold' = cold /\ ctl' \subseteq ctl /\ fast' = Tail(fast)
      /\ \/ Admissible(r.mg, x) /\ r' = ApplyFast(r, {x})
         \/ ~Admissible(r.mg, x) /\ r' = [r EXCEPT !.mg = Park(@, x)]
    BY <1>1, Zenon DEF TakeFast
<1>3. Slides(0) /\ Kinds /\ Posts
    BY <1>2, SlidesNot, Zenon DEF Mended
<1>4. fast \in Seq(Post)
    BY <1>3 DEF Kinds
<1>5. /\ fast' \in Seq(Post) /\ x \in Post /\ 1 \in 1..Len(fast) /\ fast[1] = x
      /\ \A i \in 1..Len(fast') : i + 1 \in 1..Len(fast) /\ 1 < i + 1 /\ fast'[i] = fast[i + 1]
      /\ \A i \in 1..Len(fast) : i = 1 \/ (i - 1 \in 1..Len(fast') /\ fast'[i - 1] = fast[i])
  <2>1. PICK q : q = fast'
      OBVIOUS
  <2>2. /\ q \in Seq(Post) /\ x \in Post /\ Len(q) = Len(fast) - 1 /\ Len(fast) \in Nat \ {0} /\ fast[1] = x
        /\ \A i \in 1..Len(q) : q[i] = fast[i + 1]
      BY <1>1, <1>2, <1>4, <2>1
  <2>3. \A i \in 1..Len(fast) : i = 1 \/ (i - 1 \in 1..Len(q) /\ (i - 1) + 1 = i)
      BY <2>2
  <2>4. \A i \in 1..Len(fast) : i = 1 \/ (i - 1 \in 1..Len(q) /\ q[i - 1] = fast[i])
      BY <2>2, <2>3
  <2>5. 1 \in 1..Len(fast) /\ \A i \in 1..Len(q) : i + 1 \in 1..Len(fast) /\ 1 < i + 1
      BY <2>2
  <2> QED
      BY <2>1, <2>2, <2>4, <2>5, Zenon
<1>6. Afoot(x) /\ x.after \in Nat
  <2>1. Afoot(x)
      BY <1>5, Zenon DEF Afoot
  <2> QED
      BY <1>5, <2>1 DEF Post
<1>7. /\ r.mg \in Merger(Post) /\ r.mg.coldApplied \in Nat /\ r.sd \in Nat /\ r.dig \in Nat
      /\ \A y \in r.mg.parked : y.after \in Nat
  <2>1. r.mg \in Merger(Post) /\ r.sd \in Nat /\ r.dig \in Nat
      BY <1>3, Zenon DEF Kinds, ReplicaKinds
  <2> QED
      BY <2>1 DEF Merger, Post
<1>8. /\ r'.sd = r.sd /\ r'.gen = r.gen /\ r'.failed = r.failed /\ r'.lost = r.lost /\ r'.missed = r.missed
      /\ (r.want => r'.want) /\ r'.dig \in Nat
      /\ \A u \in D : r'.ver[u] = 0 \/ r'.ver[u] = r.ver[u]
      /\ \A u \in D : ~Gone(h, u) => r'.ver[u] = r.ver[u] /\ r'.held[u] = r.held[u]
      /\ \/ /\ r'.mg = r.mg /\ x.after <= r.mg.coldApplied /\ (x.kind = "tomb" /\ x.u \in D => r'.ver[x.u] = 0)
            /\ r'.dig = r.dig \/ (OfScene(x) /\ r'.dig = x.dig)
         \/ r'.mg = Park(r.mg, x) /\ ~(x.after <= r.mg.coldApplied) /\ r'.dig = r.dig
  <2>1. CASE Admissible(r.mg, x) /\ r' = ApplyFast(r, {x})
    <3>1. PICK msgs : msgs = {x}
        OBVIOUS
    <3>2. \A y \in msgs : Afoot(y)
        BY <1>6, <3>1
    <3>3. PICK q : q = ApplyFast(r, msgs)
        OBVIOUS
    <3>4. /\ q.mg = r.mg /\ q.sd = r.sd /\ q.gen = r.gen /\ q.failed = r.failed /\ q.lost = r.lost
          /\ q.missed = r.missed /\ (r.want => q.want)
          /\ q.dig \in Nat /\ (q.dig = r.dig \/ \E y \in msgs : OfScene(y) /\ q.dig = y.dig)
          /\ \A u \in D : q.ver[u] = 0 \/ q.ver[u] = r.ver[u]
          /\ \A u \in D : ~Gone(h, u) => q.ver[u] = r.ver[u] /\ q.held[u] = r.held[u]
          /\ \A y \in msgs : y.kind = "tomb" /\ y.u \in D => q.ver[y.u] = 0
      <4>1. ReplicaKeys \subseteq DOMAIN r /\ r.ver \in Versions /\ r.held \in Versions
          BY ReplicaFacts
      <4> QED
          BY <1>7, <3>2, <3>3, <4>1, Delivered
    <3>5. q = r'
        BY <2>1, <3>1, <3>3
    <3>6. /\ q.dig = r.dig \/ (OfScene(x) /\ q.dig = x.dig)
          /\ x.kind = "tomb" /\ x.u \in D => q.ver[x.u] = 0
        BY <3>1, <3>4
    <3> QED
        BY <2>1, <3>4, <3>5, <3>6, Zenon DEF Admissible
  <2>2. CASE ~Admissible(r.mg, x) /\ r' = [r EXCEPT !.mg = Park(@, x)]
    <3>1. PICK mg : mg = Park(r.mg, x)
        OBVIOUS
    <3>2. r' = [r EXCEPT !.mg = mg]
        BY <2>2, <3>1
    <3>3. /\ r'.sd = r.sd /\ r'.gen = r.gen /\ r'.failed = r.failed /\ r'.lost = r.lost /\ r'.want = r.want
          /\ r'.missed = r.missed /\ r'.dig = r.dig /\ r'.ver = r.ver /\ r'.held = r.held /\ r'.mg = mg
        BY <3>2, ReplicaFacts DEF ReplicaKeys
    <3> QED
        BY <1>7, <2>2, <3>1, <3>3, Zenon DEF Admissible
  <2> QED
      BY <1>2, <2>1, <2>2
<1>9. /\ r'.mg \in Merger(Post) /\ r'.mg.cold = r.mg.cold /\ r'.mg.coldApplied = r.mg.coldApplied
      /\ \/ r'.mg = r.mg
         \/ r'.mg.parked = r.mg.parked \union {x} /\ ~(x.after <= r.mg.coldApplied)
  <2>1. PICK mg : mg = Park(r.mg, x)
      OBVIOUS
  <2>2. /\ mg \in Merger(Post) /\ mg.cold = r.mg.cold /\ mg.coldApplied = r.mg.coldApplied
        /\ mg.parked = r.mg.parked \union {x}
      BY <1>5, <1>7, <2>1 DEF Park, Merger
  <2> QED
      BY <1>7, <1>8, <2>1, <2>2, Zenon
<1>10. ReplicaKinds(r') /\ (Hole => Hole')
    BY <1>3, <1>8, <1>9, Zenon DEF Kinds, ReplicaKinds, Hole
<1>11. ASSUME NEW y, Afoot(y)' PROVE Afoot(y)
  <2>1. CASE \E i \in 1..Len(fast') : fast'[i] = y
      BY <1>5, <2>1, Zenon DEF Afoot
  <2>2. CASE y \in r'.mg.parked
    <3>1. y \in r.mg.parked \/ y = x
        BY <1>9, <2>2, Zenon
    <3> QED
        BY <1>6, <3>1, Zenon DEF Afoot
  <2> QED
      BY <1>11, <2>1, <2>2, Zenon DEF Afoot
<1>12. ASSUME NEW y, Afoot(y), y.kind = "tomb", y.u \in D, ~Afoot(y)'
       PROVE  r'.ver[y.u] = 0 /\ y.after <= r'.mg.coldApplied
  <2>1. y \notin r'.mg.parked /\ \A i \in 1..Len(fast') : fast'[i] # y
      BY <1>12, Zenon DEF Afoot
  <2>2. y \notin r.mg.parked
      BY <1>9, <2>1, Zenon
  <2>3. y = x
      BY <1>5, <1>12, <2>1, <2>2, Zenon DEF Afoot
  <2>4. r'.mg # Park(r.mg, x)
    <3>1. x \in Park(r.mg, x).parked
        BY <1>7 DEF Park, Merger
    <3> QED
        BY <2>1, <2>3, <3>1, Zenon
  <2> QED
      BY <1>8, <1>9, <1>12, <2>3, <2>4, Zenon
<1>13. Turns
  <2>1. ASSUME NEW i \in 1..Len(fast'), NEW j \in 1..Len(fast'), i < j PROVE InTurn(fast'[i], fast'[j])
    <3>1. i + 1 \in 1..Len(fast) /\ fast'[i] = fast[i + 1] /\ j + 1 \in 1..Len(fast) /\ fast'[j] = fast[j + 1]
        BY <1>5, Zenon
    <3>2. i + 1 < j + 1
        BY <1>4, <2>1, <3>1
    <3> QED
        BY <1>3, <3>1, <3>2, Zenon DEF Posts
  <2>2. ASSUME NEW y \in r'.mg.parked
        PROVE  y.after > r'.mg.coldApplied /\ \A i \in 1..Len(fast') : InTurn(y, fast'[i])
    <3>1. CASE y \in r.mg.parked
        BY <1>3, <1>5, <1>9, <3>1, Zenon DEF Posts
    <3>2. CASE y = x /\ ~(x.after <= r.mg.coldApplied)
      <4>1. y.after > r'.mg.coldApplied
          BY <1>6, <1>7, <1>9, <3>2
      <4>2. \A i \in 1..Len(fast') : InTurn(y, fast'[i])
          BY <1>3, <1>5, <3>2, Zenon DEF Posts
      <4> QED
          BY <4>1, <4>2
    <3> QED
        BY <1>9, <2>2, <3>1, <3>2, Zenon
  <2> QED
      BY <2>1, <2>2, Zenon DEF Turns
<1>14. Dug(0)
  <2>1. CASE r'.dig = r.dig
      BY <1>8, <2>1, DugNothing, Zenon
  <2>2. CASE OfScene(x) /\ r'.dig = x.dig /\ r'.mg = r.mg /\ x.after <= r.mg.coldApplied
    <3>1. ASSUME NEW z, Afoot(z)' PROVE InTurn(x, z)
      <4>1. CASE \E i \in 1..Len(fast') : fast'[i] = z
          BY <1>3, <1>5, <4>1, Zenon DEF Posts
      <4>2. CASE z \in r'.mg.parked
        <5>1. z \in r.mg.parked /\ z.after > r.mg.coldApplied /\ z.after \in Nat
            BY <1>3, <1>7, <2>2, <4>2, Zenon DEF Posts
        <5>2. x.after < z.after
            BY <1>6, <1>7, <2>2, <5>1
        <5> QED
            BY <1>3, <1>6, <5>1, <5>2, Zenon DEF Posts, Afoot
      <4> QED
          BY <3>1, <4>1, <4>2, Zenon DEF Afoot
    <3>2. Mailed(x)
        BY <1>6, <2>2, <3>1, Zenon DEF Mailed
    <3> QED
        BY <1>8, <3>2, Zenon DEF Dug
  <2> QED
      BY <1>8, <2>1, <2>2, Zenon
<1>15. 0 # 1
    OBVIOUS
<1>16. ASSUME NEW u \in D, ~Gone(h, u)
       PROVE  Fed(0, u) /\ Claim(r', u) <= Got(r', u) /\ StillThere(u) /\ Served1(0, u)
  <2>1. u # Scene /\ u \in Things
      BY DeltaAssumption DEF Things
  <2>2. Got(r', u) = Got(r, u) /\ Claim(r', u) = Claim(r, u)
      BY <1>8, <1>16, <2>1, Zenon DEF Got, Claim
  <2>3. Claim(r, u) <= Got(r, u)
      BY <1>16, <2>1, Zenon DEF Mended, Behind
  <2>4. StillThere(u)
      BY <1>2, <1>3, <1>8, <2>2, StaysThere, Zenon
  <2> QED
      BY <1>15, <2>2, <2>3, <2>4, Zenon DEF Fed, Served1
<1>17. \A u \in D : r'.ver[u] = 0 \/ Fed(0, u)
  <2>1. \A u \in D : u # Scene
      BY DeltaAssumption
  <2> QED
      BY <1>8, <2>1, Zenon DEF Fed, Got
<1>18. Built(0)
    BY <1>15, Zenon DEF Built
<1> QED
    BY <1>2, <1>3, <1>5, <1>8, <1>9, <1>10, <1>11, <1>12, <1>13, <1>14, <1>16, <1>17, <1>18, Zenon
       DEF Taken, Marked, Loaded

\* The replica when it has seen a frame, and when it has applied it or failed to.
Seen(p, m) ==
    /\ ReplicaKeys \subseteq DOMAIN p /\ p.ver = r.ver /\ p.sd = r.sd /\ p.dig = r.dig /\ p.held = r.held
    /\ p.gen = r.gen /\ p.failed = r.failed /\ p.lost = r.lost /\ p.missed = r.missed /\ (Hole => p.want)
    /\ p.mg \in Merger(Post) /\ p.mg.cold.last = m.seq
    /\ p.mg.coldApplied = r.mg.coldApplied /\ p.mg.parked = r.mg.parked
Ate(k, m, u) ==
    /\ Got(k, u) = Got(r, u) \/ (Carries(m, u) /\ Got(k, u) = Val(m, u))
    /\ Carries(m, u) => Got(k, u) = Val(m, u) \/ u \in k.failed \/ k.missed
    /\ u \in r.failed => u \in k.failed \/ (Carries(m, u) /\ Got(k, u) = Val(m, u))
    /\ ~Gone(h, u) => Claim(k, u) <= Got(k, u)
FedBy(k, m) ==
    /\ ReplicaKeys \subseteq DOMAIN k /\ k.ver \in Versions /\ k.held \in Versions
    /\ k.failed \subseteq D /\ k.lost = r.lost
    /\ k.mg \in Merger(Post) /\ k.mg.cold.last = m.seq
    /\ k.mg.coldApplied = r.mg.coldApplied /\ k.mg.parked = r.mg.parked
    /\ Hole => k.want \/ m.kind \in {"boot", "end"}
    /\ r.missed => k.missed \/ m.kind = "boot"
    /\ k.gen = r.gen \/ (m.kind = "boot" /\ k.gen = m.gen /\ k.ver = m.ver)
    /\ (k.sd = r.sd /\ k.dig = r.dig) \/ (m.kind = "boot" /\ k.sd = m.sd /\ k.dig = m.sd)
    /\ m.kind = "boot" => k.sd = m.sd \/ k.missed
    /\ \A u \in D : Ate(k, m, u)

\* Clearing the gap leaves what the invariant speaks of.
LEMMA GapCleared ==
    ASSUME NEW mg \in Merger(Post), NEW n, n = ClearColdGap(mg)
    PROVE  /\ n \in Merger(Post) /\ n.cold.last = mg.cold.last
           /\ n.coldApplied = mg.coldApplied /\ n.parked = mg.parked
<1> DEFINE c == [mg.cold EXCEPT !.miss = 0]
<1>1. mg.cold \in [last : Nat, miss : Nat]
    BY DEF Merger, Tracker
<1>2. c \in Tracker /\ c.last = mg.cold.last
    BY <1>1 DEF Tracker
<1>3. n = [mg EXCEPT !.cold = c]
    BY DEF ClearColdGap, ClearGap
<1> HIDE DEF c
<1> QED
    BY <1>2, <1>3 DEF Merger

\* The frame is seen: if a hole was there, it shows.
LEMMA FrameSeen ==
    ASSUME Shape, Mended, cold # <<>>, NEW m, m = cold[1]
    PROVE  Seen(Observed(r, m.seq), m)
<1>1. 1 \in 1..Len(cold) /\ Scene \in Things
    BY DEF Shape, Things
<1>2. Kinds /\ Lined /\ r.mg \in Merger(Post) /\ r.lost \in Nat
    BY DEF Mended, Kinds, ReplicaKinds
<1>3. /\ m.seq \in Nat /\ m.seq > r.mg.cold.last /\ m.seq > r.lost
    BY <1>1, <1>2, Values DEF Lined
<1> DEFINE c == Observe(r.mg.cold, m.seq)
           want == r.want \/ ~Contiguous(r.mg.cold, m.seq)
           mg == [r.mg EXCEPT !.cold = c]
           p == [r EXCEPT !.want = want, !.mg = mg]
<1>4. r.mg.cold \in [last : Nat, miss : Nat]
    BY <1>2 DEF Merger, Tracker
<1>5. c \in Tracker /\ c.last = m.seq
    BY <1>3, <1>4 DEF Observe, Tracker
<1>6. Hole => want
  <2>1. r.lost > r.mg.cold.last => m.seq # r.mg.cold.last + 1
      BY <1>2, <1>3, <1>4
  <2> QED
      BY <2>1, Zenon DEF Hole, Contiguous
<1> HIDE DEF c, want
<1>7. /\ mg \in Merger(Post) /\ mg.cold = c /\ mg.coldApplied = r.mg.coldApplied /\ mg.parked = r.mg.parked
    BY <1>2, <1>5 DEF Merger
<1>8. Observed(r, m.seq) = p
  <2>1. ReplicaKeys \subseteq DOMAIN r
      BY ReplicaFacts
  <2> QED
      BY <2>1 DEF Observed, c, want, ReplicaKeys
<1> HIDE DEF mg
<1>9. /\ DOMAIN p = DOMAIN r /\ p.ver = r.ver /\ p.sd = r.sd /\ p.dig = r.dig /\ p.held = r.held
      /\ p.gen = r.gen /\ p.failed = r.failed /\ p.lost = r.lost /\ p.missed = r.missed /\ p.want = want /\ p.mg = mg
    BY ReplicaFacts DEF ReplicaKeys
<1> HIDE DEF p
<1>10. ReplicaKeys \subseteq DOMAIN p
    BY <1>9, ReplicaFacts, Zenon
<1> QED
    BY <1>5, <1>6, <1>7, <1>8, <1>9, <1>10, Zenon DEF Seen

\* What the first frame is.
LEMMA FirstFrame ==
    ASSUME Shape, cold # <<>>, NEW m, m = cold[1]
    PROVE  /\ m \in Frame /\ m.kind \in {"t2", "boot", "end"} /\ m.seq \in Nat /\ m.sd \in Nat
           /\ (m.kind = "t2" => m.u \in D /\ m.ver \in Nat \ {0}) /\ (m.kind = "boot" => m.ver \in Versions)
<1>1. m \in Frame /\ FrameOK(m, h.gen)
    BY DEF Shape
<1> QED
    BY <1>1 DEF Frame, FrameOK

\* What the invariant says of the replica as it is.
LEMMA AsItIs ==
    ASSUME Shape, Mended
    PROVE  /\ r.ver \in Versions /\ r.held \in Versions /\ r.sd \in Nat /\ r.dig \in Nat /\ r.failed \subseteq D
           /\ r.mg \in Merger(Post) /\ \A u \in D : ~Gone(h, u) => Claim(r, u) <= Got(r, u)
<1>1. r.ver \in Versions /\ r.held \in Versions
    BY ReplicaFacts
<1>2. r.sd \in Nat /\ r.dig \in Nat /\ r.failed \subseteq D /\ r.mg \in Merger(Post)
    BY Zenon DEF Mended, Kinds, ReplicaKinds
<1>3. \A u \in D : ~Gone(h, u) => Claim(r, u) <= Got(r, u)
    BY Zenon DEF Mended, Behind, Things
<1> QED
    BY <1>1, <1>2, <1>3

\* A file is applied.
LEMMA BootFed ==
    ASSUME Shape, Mended, cold # <<>>, NEW m, m = cold[1], m.kind = "boot", NEW p, Seen(p, m), NEW k, k = ApplyBoot(p, m)
    PROVE  FedBy(k, m)
<1>1. m.ver \in Versions /\ m.sd \in Nat
    BY FirstFrame, Zenon
<1>2. PICK mg : mg = ClearColdGap(p.mg)
    OBVIOUS
<1>3. k = [p EXCEPT !.ver = m.ver, !.sd = m.sd, !.dig = m.sd, !.held = Empty, !.gen = m.gen,
                    !.failed = {}, !.missed = FALSE, !.want = FALSE, !.unknown = FALSE, !.boots = @ + 1, !.mg = mg]
    BY <1>2 DEF ApplyBoot
<1>4. ReplicaKeys \subseteq DOMAIN p /\ p.lost = r.lost
    BY Zenon DEF Seen
<1>5. /\ DOMAIN k = DOMAIN p /\ k.ver = m.ver /\ k.held = Empty /\ k.gen = m.gen /\ k.sd = m.sd /\ k.dig = m.sd
      /\ k.failed = {} /\ k.mg = mg /\ k.lost = r.lost
    BY <1>3, <1>4 DEF ReplicaKeys
<1>6. Empty \in Versions /\ \A u \in D : Empty[u] = 0
    BY DEF Empty, Versions
<1>7. /\ mg \in Merger(Post) /\ mg.cold.last = m.seq
      /\ mg.coldApplied = r.mg.coldApplied /\ mg.parked = r.mg.parked
    BY <1>2, GapCleared, Zenon DEF Seen
<1>8. ASSUME NEW u \in D PROVE Ate(k, m, u)
  <2>1. u # Scene
      BY DeltaAssumption
  <2>2. Carries(m, u) /\ Got(k, u) = Val(m, u) /\ Got(k, u) = m.ver[u] /\ Claim(k, u) = 0
      BY <1>5, <1>6, <2>1, Zenon DEF Carries, Val, Has, Got, Claim
  <2>3. Claim(k, u) <= Got(k, u)
      BY <1>1, <2>2 DEF Versions
  <2> QED
      BY <2>2, <2>3, Zenon DEF Ate
<1>9. k.failed \subseteq D
    BY <1>5
<1> QED
    BY <1>1, <1>4, <1>5, <1>6, <1>7, <1>8, <1>9, Zenon DEF FedBy

\* A replica with the same in it: the end of a repair, and a blob or a file that fails.
LEMMA SameFed ==
    ASSUME Shape, Mended, cold # <<>>, NEW m, m = cold[1], NEW k, ReplicaKeys \subseteq DOMAIN k,
           k.ver = r.ver, k.sd = r.sd, k.dig = r.dig, k.held = r.held, k.gen = r.gen, k.lost = r.lost,
           k.mg \in Merger(Post), k.mg.cold.last = m.seq, k.mg.coldApplied = r.mg.coldApplied,
           k.mg.parked = r.mg.parked, k.failed \subseteq D, r.failed \subseteq k.failed, r.missed => k.missed,
           \/ m.kind = "end"
           \/ (m.kind = "boot" /\ k.missed)
           \/ (m.kind = "t2" /\ m.u \in k.failed /\ (Hole => k.want))
    PROVE  FedBy(k, m)
<1>1. ASSUME NEW u \in D PROVE Ate(k, m, u)
  <2>1. Got(k, u) = Got(r, u) /\ Claim(k, u) = Claim(r, u)
      BY Zenon DEF Got, Claim
  <2>2. Carries(m, u) => u \in k.failed \/ k.missed
      BY DEF Carries
  <2>3. ~Gone(h, u) => Claim(k, u) <= Got(k, u)
      BY <2>1, AsItIs, Zenon
  <2>4. u \in r.failed => u \in k.failed
      BY Zenon
  <2> QED
      BY <2>1, <2>2, <2>3, <2>4, Zenon DEF Ate
<1>2. Hole => k.want \/ m.kind \in {"boot", "end"}
    BY Zenon
<1>3. m.kind = "boot" => k.missed
    OBVIOUS
<1> QED
    BY <1>1, <1>2, <1>3, AsItIs, Zenon DEF FedBy

\* A blob is applied.
LEMMA BlobFed ==
    ASSUME Shape, Mended, cold # <<>>, NEW m, m = cold[1], m.kind = "t2", NEW p, Seen(p, m), NEW k, k = ApplyT2(p, m)
    PROVE  FedBy(k, m)
<1>1. m.u \in D /\ m.ver \in Nat
    BY FirstFrame
<1>2. r.ver \in [D -> Nat] /\ r.held \in [D -> Nat]
    BY AsItIs DEF Versions
<1>3. /\ ReplicaKeys \subseteq DOMAIN p /\ p.ver = r.ver /\ p.sd = r.sd /\ p.dig = r.dig /\ p.held = r.held
      /\ p.gen = r.gen /\ p.failed = r.failed /\ p.lost = r.lost /\ p.missed = r.missed /\ (Hole => p.want)
    BY Zenon DEF Seen
<1>4. k = [p EXCEPT !.ver[m.u] = m.ver, !.held[m.u] = m.ver, !.failed = @ \ {m.u}]
    BY DEF ApplyT2
<1>5. /\ DOMAIN k = DOMAIN p /\ k.ver = [r.ver EXCEPT ![m.u] = m.ver] /\ k.held = [r.held EXCEPT ![m.u] = m.ver]
      /\ k.sd = r.sd /\ k.dig = r.dig /\ k.gen = r.gen /\ k.lost = r.lost /\ k.want = p.want /\ k.mg = p.mg
      /\ k.failed = r.failed \ {m.u} /\ k.missed = r.missed
    BY <1>3, <1>4 DEF ReplicaKeys
<1>6. k.ver \in [D -> Nat] /\ k.ver[m.u] = m.ver /\ \A u \in D : u # m.u => k.ver[u] = r.ver[u]
    BY <1>1, <1>2, <1>5
<1>7. k.held \in [D -> Nat] /\ k.held[m.u] = m.ver /\ \A u \in D : u # m.u => k.held[u] = r.held[u]
    BY <1>1, <1>2, <1>5
<1>8. ASSUME NEW u \in D PROVE Ate(k, m, u)
  <2>1. CASE u = m.u
    <3>1. u # Scene
        BY <1>1, <2>1, DeltaAssumption
    <3>2. Carries(m, u) /\ Got(k, u) = m.ver /\ Val(m, u) = m.ver /\ Claim(k, u) = m.ver
        BY <1>6, <1>7, <2>1, <3>1 DEF Carries, Val, Got, Claim
    <3>3. Claim(k, u) <= Got(k, u)
        BY <1>1, <3>2
    <3> QED
        BY <3>2, <3>3, Zenon DEF Ate
  <2>2. CASE u # m.u
    <3>1. ~Carries(m, u)
        BY <2>2 DEF Carries
    <3>2. Got(k, u) = Got(r, u) /\ Claim(k, u) = Claim(r, u)
        BY <1>5, <1>6, <1>7, <2>2, DeltaAssumption DEF Got, Claim
    <3>3. ~Gone(h, u) => Claim(k, u) <= Got(k, u)
        BY <3>2, AsItIs, Zenon
    <3>4. u \in r.failed => u \in k.failed
        BY <1>5, <2>2
    <3> QED
        BY <3>1, <3>2, <3>3, <3>4, Zenon DEF Ate
  <2> QED
      BY <2>1, <2>2
<1>9. k.failed \subseteq D /\ m.kind # "boot"
    BY <1>5, AsItIs
<1>10. /\ k.mg \in Merger(Post) /\ k.mg.cold.last = m.seq
       /\ k.mg.coldApplied = r.mg.coldApplied /\ k.mg.parked = r.mg.parked
    BY <1>5, Zenon DEF Seen
<1> QED
    BY <1>3, <1>5, <1>6, <1>7, <1>8, <1>9, <1>10, Zenon DEF FedBy, Versions

\* Whatever the frame is.
LEMMA FrameFed ==
    ASSUME Shape, Mended, cold # <<>>, NEW m, m = cold[1], NEW fails \in BOOLEAN, fails => m.kind # "end",
           NEW p, Seen(p, m), NEW k,
           k = CASE fails -> Raised(p, m)
                 [] ~fails /\ m.kind = "boot" -> ApplyBoot(p, m)
                 [] ~fails /\ m.kind = "end" -> EndResync(p)
                 [] ~fails /\ m.kind = "t2" -> ApplyT2(p, m)
    PROVE  FedBy(k, m)
<1>1. m.kind \in {"t2", "boot", "end"} /\ (m.kind = "t2" => m.u \in D)
    BY FirstFrame
<1>2. /\ ReplicaKeys \subseteq DOMAIN p /\ p.ver = r.ver /\ p.sd = r.sd /\ p.dig = r.dig /\ p.held = r.held
      /\ p.gen = r.gen /\ p.failed = r.failed /\ p.lost = r.lost /\ p.missed = r.missed /\ (Hole => p.want)
      /\ p.mg \in Merger(Post) /\ p.mg.cold.last = m.seq
      /\ p.mg.coldApplied = r.mg.coldApplied /\ p.mg.parked = r.mg.parked
    BY Zenon DEF Seen
<1>3. CASE m.kind = "boot" /\ ~fails
  <2>1. k = ApplyBoot(p, m)
      BY <1>3
  <2> QED
      BY <1>3, <2>1, BootFed, Zenon
<1>4. CASE m.kind = "end"
  <2>1. k = EndResync(p)
      BY <1>4
  <2>2. PICK mg : mg = ClearColdGap(p.mg)
      OBVIOUS
  <2>3. k = [p EXCEPT !.mg = mg, !.unknown = FALSE, !.want = FALSE, !.resyncs = @ + 1]
      BY <2>1, <2>2 DEF EndResync
  <2>4. /\ DOMAIN k = DOMAIN p /\ k.ver = p.ver /\ k.held = p.held /\ k.gen = p.gen /\ k.sd = p.sd /\ k.dig = p.dig
        /\ k.failed = p.failed /\ k.lost = p.lost /\ k.missed = p.missed /\ k.mg = mg
      BY <1>2, <2>3 DEF ReplicaKeys
  <2>5. /\ mg \in Merger(Post) /\ mg.cold.last = m.seq
        /\ mg.coldApplied = r.mg.coldApplied /\ mg.parked = r.mg.parked
      BY <1>2, <2>2, GapCleared, Zenon
  <2>6. r.failed \subseteq D /\ r.failed \subseteq k.failed
      BY <1>2, <2>4, AsItIs
  <2> QED
      BY <1>2, <1>4, <2>4, <2>5, <2>6, SameFed
<1>5. CASE m.kind = "t2" /\ fails
  <2>1. k = [p EXCEPT !.failed = @ \union {m.u}]
      BY <1>5 DEF Raised
  <2>2. /\ DOMAIN k = DOMAIN p /\ k.ver = p.ver /\ k.held = p.held /\ k.gen = p.gen /\ k.sd = p.sd /\ k.dig = p.dig
        /\ k.failed = p.failed \union {m.u} /\ k.lost = p.lost /\ k.mg = p.mg /\ k.want = p.want
        /\ k.missed = p.missed
      BY <1>2, <2>1 DEF ReplicaKeys
  <2>3. k.failed \subseteq D /\ r.failed \subseteq k.failed /\ m.u \in k.failed
      BY <1>1, <1>2, <1>5, <2>2, AsItIs
  <2>4. Hole => k.want
      BY <1>2, <2>2, Zenon
  <2> QED
      BY <1>2, <1>5, <2>2, <2>3, <2>4, SameFed
<1>6. CASE m.kind = "t2" /\ ~fails
  <2>1. k = ApplyT2(p, m)
      BY <1>6
  <2> QED
      BY <1>6, <2>1, BlobFed, Zenon
<1>7. CASE m.kind = "boot" /\ fails
  <2>1. k = [p EXCEPT !.missed = TRUE]
      BY <1>7 DEF Raised
  <2>2. /\ DOMAIN k = DOMAIN p /\ k.ver = p.ver /\ k.held = p.held /\ k.gen = p.gen /\ k.sd = p.sd /\ k.dig = p.dig
        /\ k.failed = p.failed /\ k.lost = p.lost /\ k.mg = p.mg /\ k.missed
      BY <1>2, <2>1 DEF ReplicaKeys
  <2>3. k.failed \subseteq D /\ r.failed \subseteq k.failed
      BY <1>2, <2>2, AsItIs
  <2> QED
      BY <1>2, <1>7, <2>2, <2>3, SameFed
<1> QED
    BY <1>1, <1>3, <1>4, <1>5, <1>6, <1>7

\* The frame is done with, and what waited for it applied.
LEMMA FrameDone ==
    ASSUME NEW n \in Merger(Post), NEW seq \in Nat, n.coldApplied < seq
    PROVE  /\ ColdDone(n, seq) \in Merger(Post) /\ ColdDone(n, seq).cold = n.cold
           /\ ColdDone(n, seq).coldApplied = seq
           /\ Due(n, seq) \subseteq n.parked /\ ColdDone(n, seq).parked = n.parked \ Due(n, seq)
           /\ \A x \in Due(n, seq) : x.after <= seq
           /\ \A x \in n.parked : x \in Due(n, seq) \/ seq < x.after
<1>1. AppliedUpTo(n, seq) = seq
    BY DEF AppliedUpTo, Merger
<1>2. Due(n, seq) = {x \in n.parked : x.after <= seq}
    BY <1>1 DEF Due
<1>3. ColdDone(n, seq) = [n EXCEPT !.coldApplied = seq, !.parked = @ \ Due(n, seq)]
    BY <1>1 DEF ColdDone
<1> DEFINE due == Due(n, seq)
<1> HIDE DEF due
<1>4. ColdDone(n, seq) = [n EXCEPT !.coldApplied = seq, !.parked = @ \ due]
    BY <1>3 DEF due
<1>5. /\ ColdDone(n, seq) \in Merger(Post) /\ ColdDone(n, seq).cold = n.cold
      /\ ColdDone(n, seq).coldApplied = seq /\ ColdDone(n, seq).parked = n.parked \ due
    BY <1>4 DEF Merger
<1>6. Due(n, seq) \subseteq n.parked /\ \A x \in Due(n, seq) : x.after <= seq
    BY <1>2
<1>7. \A x \in n.parked : x \in Due(n, seq) \/ seq < x.after
  <2>1. \A x \in n.parked : x.after \in Nat
      BY DEF Merger, Post
  <2> QED
      BY <1>2, <2>1
<1> QED
    BY <1>5, <1>6, <1>7, Zenon DEF due

\* A frame is applied, or fails to be, and what waited for it goes.
LEMMA ColdMoves ==
    ASSUME Shape, Shape', Mended, NEW fails \in BOOLEAN, TakeCold(fails)
    PROVE  Taken(1)
<1>1. PICK m : m = cold[1]
    OBVIOUS
<1> DEFINE p == Observed(r, m.seq)
           k == CASE fails -> Raised(p, m)
                  [] ~fails /\ m.kind = "boot" -> ApplyBoot(p, m)
                  [] ~fails /\ m.kind = "end" -> EndResync(p)
                  [] ~fails /\ m.kind = "t2" -> ApplyT2(p, m)
<1>2. cold # <<>> /\ cold' = Tail(cold) /\ h' = h /\ ctl' \subseteq ctl /\ fast' = fast
    BY DEF TakeCold
<1>3. Slides(1) /\ Head(cold) = m /\ 1 \in 1..Len(cold)
    BY <1>1, <1>2, SlidesOne, Zenon
<1>4. r' = Done(k, m.seq) /\ (fails => m.kind # "end")
    BY <1>3, Zenon DEF TakeCold
<1>5. FedBy(k, m)
  <2>1. Seen(p, m)
      BY <1>1, <1>2, FrameSeen, Zenon
  <2> HIDE DEF p
  <2> QED
      BY <1>1, <1>2, <1>4, <2>1, FrameFed
<1> HIDE DEF k
<1>6. Kinds /\ Lined /\ Posts /\ m.seq \in Nat /\ m.seq > r.mg.coldApplied /\ r.mg.coldApplied \in Nat
  <2>1. Kinds /\ Lined /\ Posts /\ Scene \in Things
      BY DEF Mended, Things
  <2>2. m.seq \in Nat /\ m.seq > r.mg.coldApplied
      BY <1>1, <1>3, <2>1, Values DEF Lined
  <2> QED
      BY <2>1, <2>2 DEF Kinds, ReplicaKinds, Merger
<1>7. /\ ReplicaKeys \subseteq DOMAIN k /\ k.ver \in Versions /\ k.held \in Versions
      /\ k.failed \subseteq D /\ k.lost = r.lost
      /\ k.mg \in Merger(Post) /\ k.mg.cold.last = m.seq
      /\ k.mg.coldApplied = r.mg.coldApplied /\ k.mg.parked = r.mg.parked
      /\ (Hole => k.want \/ m.kind \in {"boot", "end"})
      /\ (r.missed => k.missed \/ m.kind = "boot")
      /\ (k.gen = r.gen \/ (m.kind = "boot" /\ k.gen = m.gen /\ k.ver = m.ver))
      /\ ((k.sd = r.sd /\ k.dig = r.dig) \/ (m.kind = "boot" /\ k.sd = m.sd /\ k.dig = m.sd))
      /\ (m.kind = "boot" => k.sd = m.sd \/ k.missed)
      /\ \A u \in D : Ate(k, m, u)
    BY <1>5, Zenon DEF FedBy
<1>8. k.sd \in Nat /\ k.dig \in Nat
  <2>1. m.sd \in Nat
      BY <1>1, <1>2, FirstFrame, Zenon
  <2> QED
      BY <1>7, <2>1, AsItIs, Zenon
<1> DEFINE mg == ColdDone(k.mg, m.seq)
           due == Due(k.mg, m.seq)
           n == [k EXCEPT !.mg = mg]
<1>9. r' = ApplyFast(n, due)
    BY <1>4 DEF Done
<1>10. /\ mg \in Merger(Post) /\ mg.cold.last = m.seq /\ mg.coldApplied = m.seq
       /\ due \subseteq r.mg.parked /\ mg.parked = r.mg.parked \ due /\ (\A x \in due : x.after <= m.seq)
       /\ \A x \in r.mg.parked : x \in due \/ m.seq < x.after
  <2>1. k.mg.coldApplied < m.seq
      BY <1>6, <1>7
  <2> QED
      BY <1>6, <1>7, <2>1, FrameDone, Zenon
<1> HIDE DEF mg, due
<1>11. /\ DOMAIN n = DOMAIN k /\ n.ver = k.ver /\ n.held = k.held /\ n.sd = k.sd /\ n.dig = k.dig
       /\ n.gen = k.gen /\ n.failed = k.failed /\ n.lost = k.lost /\ n.want = k.want /\ n.missed = k.missed /\ n.mg = mg
    BY <1>7 DEF ReplicaKeys
<1> HIDE DEF n
<1>12. \A x \in due : Afoot(x)
    BY <1>10, Zenon DEF Afoot
<1>13. PICK q : q = r'
    OBVIOUS
<1>14. /\ q.mg = mg /\ q.sd = k.sd /\ q.gen = k.gen /\ q.failed = k.failed /\ q.lost = r.lost
       /\ q.missed = k.missed /\ (k.want => q.want)
       /\ q.dig \in Nat /\ (q.dig = k.dig \/ \E x \in due : OfScene(x) /\ q.dig = x.dig)
       /\ \A u \in D : q.ver[u] = 0 \/ q.ver[u] = k.ver[u]
       /\ \A u \in D : ~Gone(h, u) => q.ver[u] = k.ver[u] /\ q.held[u] = k.held[u]
       /\ \A x \in due : x.kind = "tomb" /\ x.u \in D => q.ver[x.u] = 0
  <2>1. ReplicaKeys \subseteq DOMAIN n /\ n.ver \in Versions /\ n.held \in Versions /\ n.dig \in Nat
      BY <1>7, <1>8, <1>11, Zenon
  <2>2. /\ q.mg = n.mg /\ q.sd = n.sd /\ q.gen = n.gen /\ q.failed = n.failed /\ q.lost = n.lost
        /\ q.missed = n.missed /\ (n.want => q.want)
        /\ q.dig \in Nat /\ (q.dig = n.dig \/ \E x \in due : OfScene(x) /\ q.dig = x.dig)
        /\ \A u \in D : q.ver[u] = 0 \/ q.ver[u] = n.ver[u]
        /\ \A u \in D : ~Gone(h, u) => q.ver[u] = n.ver[u] /\ q.held[u] = n.held[u]
        /\ \A x \in due : x.kind = "tomb" /\ x.u \in D => q.ver[x.u] = 0
      BY <1>9, <1>12, <1>13, <2>1, Delivered
  <2> QED
      BY <1>7, <1>11, <2>2, Zenon
<1>15. ReplicaKinds(q) /\ fast' \in Seq(Post)
    BY <1>2, <1>6, <1>7, <1>8, <1>10, <1>14, Zenon DEF Kinds, ReplicaKinds
<1>16. \A x : Afoot(x)' => Afoot(x)
  <2>1. q.mg.parked \subseteq r.mg.parked
      BY <1>10, <1>14
  <2> QED
      BY <1>2, <1>13, <2>1, Zenon DEF Afoot
<1>17. ASSUME NEW x, Afoot(x), x.kind = "tomb", x.u \in D, ~Afoot(x)'
       PROVE  q.ver[x.u] = 0 /\ x.after <= q.mg.coldApplied
  <2>1. x \in due
      BY <1>2, <1>10, <1>13, <1>14, <1>17, Zenon DEF Afoot
  <2> QED
      BY <1>10, <1>14, <1>17, <2>1, Zenon
<1>18. Hole => Hole' \/ m.kind \in {"boot", "end"}
    BY <1>7, <1>13, <1>14, Zenon DEF Hole
<1>19. ASSUME NEW u \in D PROVE q.ver[u] = 0 \/ Fed(1, u)
  <2>1. u # Scene
      BY DeltaAssumption
  <2>2. Ate(k, m, u) /\ (q.ver[u] = 0 \/ q.ver[u] = k.ver[u])
      BY <1>7, <1>14, Zenon
  <2>3. Got(k, u) = k.ver[u] /\ Got(q, u) = q.ver[u]
      BY <2>1 DEF Got
  <2> QED
      BY <1>1, <1>13, <2>2, <2>3, Zenon DEF Ate, Fed
<1>20. ASSUME NEW u \in D, ~Gone(h, u) PROVE Loaded(1, u)
    BY <1>1, <1>7, <1>13, <1>14, <1>20, Zenon DEF Loaded
<1>21. ASSUME NEW u \in D, ~Gone(h, u)
       PROVE  Got(q, u) = Got(k, u) /\ Claim(q, u) <= Got(q, u) /\ Fed(1, u)
  <2>1. Ate(k, m, u) /\ u # Scene
      BY <1>7, DeltaAssumption
  <2>2. Got(q, u) = Got(k, u) /\ Claim(q, u) = Claim(k, u)
      BY <1>14, <1>21, <2>1, Zenon DEF Got, Claim
  <2> QED
      BY <1>1, <1>13, <1>21, <2>1, <2>2, Zenon DEF Ate, Fed
<1>22. ASSUME NEW u \in D, ~Gone(h, u) PROVE StillThere(u) /\ Served1(1, u)
  <2>1. Ate(k, m, u) /\ q.failed = k.failed /\ q.missed = k.missed /\ u \in Things /\ Climbs(u)
    <3>1. u \in Things
        BY DEF Things
    <3> QED
        BY <1>7, <1>14, <1>22, <3>1, Zenon DEF Mended
  <2>2. Got(q, u) = Got(k, u) /\ Fed(1, u)
      BY <1>21, <1>22
  <2>3. Got(r', u) \in Nat /\ Got(r, u) \in Nat /\ Has(h, u) \in Nat
    <3>1. r'.ver \in [D -> Nat]
        BY Zenon DEF Shape, ReplicaOK, Versions
    <3>2. Got(r', u) \in Nat
        BY <3>1, DeltaAssumption DEF Got
    <3> QED
        BY <1>6, <2>1, <3>2, Values
  <2>4. Climbs(u)' /\ Got(r, u) <= Got(r', u)
      BY <1>2, <1>3, <1>6, <2>1, <2>2, <2>3, ClimbsTaken
  <2>5. Got(r', u) <= Has(h, u)
      BY <1>2, <2>4, Zenon DEF Climbs
  <2>6. Got(r, u) = Has(h, u) => Got(r', u) = Has(h, u)
      BY <2>3, <2>4, <2>5
  <2>7. Owed(h, u) => Owed(h', u)
      BY <1>2
  <2>8. \A i \in 1..Len(cold') : i + 1 \in 1..Len(cold) /\ cold'[i] = cold[i + 1]
      BY <1>3, Zenon DEF Slides
  <2>9. ASSUME Refused(u) PROVE There(u)'
    <3>1. CASE u \in k.failed
      <4>1. Refused(u)'
          BY <1>2, <1>13, <2>1, <2>8, <2>9, <3>1, Zenon DEF Refused
      <4> QED
          BY <4>1, Zenon DEF There
    <3>2. CASE u \notin k.failed
      <4>1. Carries(m, u) /\ Got(k, u) = Val(m, u)
          BY <2>1, <2>9, <3>2, Zenon DEF Ate, Refused
      <4>2. Val(m, u) = Has(h, u)
          BY <1>1, <1>3, <2>9, <4>1, Zenon DEF Refused
      <4> QED
          BY <1>2, <1>13, <2>2, <4>1, <4>2, Zenon DEF There
    <3> QED
        BY <3>1, <3>2
  <2>10. There(u) => There(u)'
      BY <1>2, <2>6, <2>7, <2>9, Zenon DEF There
  <2>11. ASSUME Brings(h, m, u) PROVE There(u)' \/ q.missed
    <3>1. Carries(m, u) /\ Val(m, u) = Has(h, u)
        BY <2>11 DEF Brings
    <3>2. CASE Got(k, u) = Val(m, u)
        BY <1>2, <1>13, <2>2, <3>1, <3>2, Zenon DEF There
    <3>3. CASE u \in k.failed
      <4>1. ASSUME NEW i \in 1..Len(cold'), Carries(cold'[i], u) PROVE Val(cold'[i], u) = Has(h, u)
        <5>1. i + 1 \in 1..Len(cold) /\ cold'[i] = cold[i + 1] /\ 1 < i + 1
            BY <2>8
        <5>2. Val(m, u) <= Val(cold[i + 1], u) /\ Val(cold[i + 1], u) <= Has(h, u)
            BY <1>1, <1>3, <2>1, <3>1, <4>1, <5>1, Zenon DEF Climbs
        <5>3. Val(cold[i + 1], u) \in Nat
            BY <1>6, <2>1, <4>1, <5>1, Values
        <5> QED
            BY <2>3, <3>1, <5>1, <5>2, <5>3
      <4>2. Refused(u)'
          BY <1>2, <1>13, <2>1, <3>3, <4>1, Zenon DEF Refused
      <4> QED
          BY <4>2, Zenon DEF There
    <3> QED
        BY <2>1, <3>1, <3>2, <3>3, Zenon DEF Ate
  <2> QED
      BY <1>1, <1>13, <2>10, <2>11, Zenon DEF StillThere, Served1
<1>23. /\ Marked(1, q.mg.cold.last, r.mg.cold.last) /\ Marked(1, q.mg.coldApplied, r.mg.coldApplied)
       /\ Marked(1, q.lost, r.lost)
    BY <1>1, <1>10, <1>14, Zenon DEF Marked
<1>24. Turns
    BY <1>2, <1>6, <1>10, <1>13, <1>14 DEF Turns, Posts
<1>25. Dug(1)
  <2>1. ASSUME NEW y \in due, OfScene(y), q.dig = y.dig PROVE Mailed(y)
    <3>1. Afoot(y) /\ y \in r.mg.parked /\ y.after <= m.seq
        BY <1>10, <1>12
    <3>2. ASSUME NEW z, Afoot(z)' PROVE InTurn(y, z)
      <4>1. CASE \E i \in 1..Len(fast') : fast'[i] = z
          BY <1>2, <1>6, <3>1, <4>1, Zenon DEF Posts
      <4>2. CASE z \in r'.mg.parked
        <5>1. z \in r.mg.parked /\ m.seq < z.after
            BY <1>10, <1>13, <1>14, <4>2
        <5>2. y.after \in Nat /\ z.after \in Nat
          <6>1. r.mg.parked \subseteq Post
              BY <1>6 DEF Kinds, ReplicaKinds, Merger
          <6> QED
              BY <3>1, <5>1, <6>1 DEF Post
        <5>3. y.after < z.after
            BY <1>6, <3>1, <5>1, <5>2
        <5> QED
            BY <1>6, <3>1, <5>1, <5>3, Zenon DEF Posts, Afoot
      <4> QED
          BY <3>2, <4>1, <4>2, Zenon DEF Afoot
    <3> QED
        BY <1>10, <1>13, <1>14, <2>1, <3>1, <3>2, Zenon DEF Mailed
  <2>2. q.dig = k.dig \/ \E y : Mailed(y)
      BY <1>14, <2>1, Zenon
  <2> QED
      BY <1>1, <1>7, <1>13, <1>14, <2>2, Zenon DEF Dug
<1>26. Built(1)
  <2>1. Brings(h, m, Scene) => m.kind = "boot" /\ m.sd = h.sd
      BY <1>1, <1>2, FirstFrame, DeltaAssumption DEF Brings, Carries, Val, Has
  <2> QED
      BY <1>1, <1>7, <1>13, <1>14, <2>1, Zenon DEF Built
<1>27. r.missed => r'.missed \/ cold[1].kind = "boot"
    BY <1>1, <1>7, <1>13, <1>14, Zenon
<1> QED
    BY <1>1, <1>2, <1>3, <1>13, <1>15, <1>16, <1>17, <1>18, <1>19, <1>20, <1>21, <1>22, <1>23, <1>24, <1>25, <1>26,
       <1>27, Zenon DEF Taken

-----------------------------------------------------------------------------
(* The repair is whole: the theorem                                        *)

\* At the handshake the file on its way brings all there is.
LEMMA BeginsMended ==
    ASSUME Init, ~Leftover
    PROVE  Mended
<1> DEFINE g == SendBootstrap(HostSync, FALSE)
           b == [kind |-> "boot", u |-> Scene, ver |-> HostSync.ver, fix |-> FALSE, seq |-> 0,
                 sd |-> HostSync.sd, gen |-> HostSync.gen + 1]
           m == [b EXCEPT !.seq = HostSync.seq + 1]
<1>1. /\ h = [g EXCEPT !.out = <<>>] /\ cold = g.out /\ fast = <<>> /\ ctl = {} /\ r = Replica
    BY Zenon DEF Init
<1>2. Shape
    BY Beginning
<1>3. Empty \in Versions /\ \A u \in D : Empty[u] = 0
    BY DEF Empty, Versions
<1>4. /\ HostKeys \subseteq DOMAIN HostSync /\ HostSync.ver = [u \in D |-> IF u \in D0 THEN 1 ELSE 0]
      /\ HostSync.sd = 1 /\ HostSync.born = D0 /\ HostSync.dirty = {} /\ HostSync.tombs = {}
      /\ HostSync.scene = "same" /\ HostSync.auto = FALSE /\ HostSync.gen = -1 /\ HostSync.req = NoRequest
      /\ HostSync.seq = 0 /\ HostSync.fseq = 0 /\ HostSync.out = <<>> /\ HostSync.fout = <<>>
    BY DEF HostSync, HostKeys
<1>5. PICK ver : ver = HostSync.ver
    OBVIOUS
<1>6. HostSync.seq + 1 = 1 /\ HostSync.gen + 1 = 0
    BY <1>4
<1>7. /\ m.kind = "boot" /\ m.ver = ver /\ m.seq = 1 /\ m.sd = 1 /\ m.gen = 0
  <2>1. /\ m.kind = "boot" /\ m.ver = HostSync.ver /\ m.seq = HostSync.seq + 1 /\ m.sd = HostSync.sd
        /\ m.gen = HostSync.gen + 1
      OBVIOUS
  <2> HIDE DEF m
  <2> QED
      BY <1>4, <1>5, <1>6, <2>1, Zenon
<1> HIDE DEF m
<1>8. /\ DOMAIN g = DOMAIN HostSync /\ g.ver = ver /\ g.sd = 1 /\ g.born = D0 /\ g.dirty = {} /\ g.tombs = {}
      /\ g.scene = "same" /\ g.auto = FALSE /\ g.hash = Empty /\ g.mpend = Empty /\ g.gen = 0
      /\ g.dig = 1 /\ g.manifest = None /\ g.req = NoRequest /\ g.queue = {} /\ g.tail = {} /\ g.end = FALSE
      /\ g.seq = 1 /\ g.fseq = 0 /\ g.bootSeq = 1 /\ g.at = Empty /\ g.out = <<m>> /\ g.fout = <<>>
      /\ g.shipped = 1
  <2>1. Append(<<>>, m) = <<m>>
      OBVIOUS
  <2>2. /\ DOMAIN g = DOMAIN HostSync /\ g.ver = HostSync.ver /\ g.sd = HostSync.sd /\ g.born = HostSync.born
        /\ g.dirty = HostSync.dirty /\ g.tombs = HostSync.tombs /\ g.shipped = HostSync.sd /\ g.scene = HostSync.scene
        /\ g.auto = HostSync.auto /\ g.req = HostSync.req /\ g.fseq = HostSync.fseq /\ g.fout = HostSync.fout
        /\ g.hash = Empty /\ g.mpend = Empty /\ g.manifest = None /\ g.queue = {} /\ g.tail = {}
        /\ g.end = FALSE /\ g.at = Empty /\ g.gen = HostSync.gen + 1 /\ g.dig = HostSync.sd
        /\ g.seq = HostSync.seq + 1 /\ g.bootSeq = HostSync.seq + 1 /\ g.out = Append(HostSync.out, m)
    <3>1. HostKeys \subseteq DOMAIN HostSync
        BY <1>4
    <3>2. PICK s : s = HostSync
        OBVIOUS
    <3>3. PICK prime : prime = Live(HostSync)
        OBVIOUS
    <3>4. g = [[s EXCEPT !.seq = @ + 1, !.out = Append(@, m)]
               EXCEPT !.gen = @ + 1, !.dig = s.sd, !.shipped = s.sd, !.mpend = Empty, !.manifest = None,
                      !.queue = {}, !.tail = {}, !.end = FALSE,
                      !.hash = Empty, !.prime = prime, !.bootSeq = s.seq + 1, !.at = Empty]
        BY <3>2, <3>3 DEF SendBootstrap, Cold, m
    <3> HIDE DEF g
    <3> QED
        BY <3>1, <3>2, <3>4 DEF HostKeys
  <2> HIDE DEF g
  <2> QED
      BY <1>4, <1>5, <1>6, <2>1, <2>2, Zenon
<1> HIDE DEF g
<1>9. /\ h.ver = ver /\ h.sd = 1 /\ h.born = D0 /\ h.dirty = {} /\ h.tombs = {}
      /\ h.scene = "same" /\ h.auto = FALSE /\ h.hash = Empty /\ h.mpend = Empty /\ h.gen = 0
      /\ h.dig = 1 /\ h.manifest = None /\ h.req = NoRequest /\ h.queue = {} /\ h.tail = {} /\ h.end = FALSE
      /\ h.seq = 1 /\ h.fseq = 0 /\ h.bootSeq = 1 /\ h.at = Empty /\ h.fout = <<>> /\ h.shipped = 1
    BY <1>1, <1>4, <1>8 DEF HostKeys
<1>10. /\ (\A u \in D : r.ver[u] = 0) /\ r.sd = 0 /\ r.dig = 0 /\ r.held = Empty /\ r.gen = None
       /\ r.failed = {} /\ r.lost = 0 /\ r.mg = Primed(0, 0) /\ r.missed = FALSE
    BY <1>1 DEF Replica
<1>11. /\ r.mg \in Merger(Post) /\ r.mg.cold.last = 0 /\ r.mg.coldApplied = 0 /\ r.mg.parked = {}
    BY <1>10 DEF Primed, Merger, Tracker
<1>12. Len(cold) = 1 /\ cold[1] = m /\ 1 \in 1..Len(cold) /\ \A i \in 1..Len(cold) : i = 1
    BY <1>1, <1>8
<1>13. h.req.at # "answered"
    BY <1>9 DEF NoRequest
<1>14. ver \in [D -> Nat] /\ \A u \in D : (u \in D0 => ver[u] = 1) /\ (u \notin D0 => ver[u] = 0)
    BY <1>4, <1>5
<1>15. Kinds
  <2>1. HostKinds(h)
    <3>1. h.bootSeq <= h.seq /\ (\A u \in D : h.at[u] <= h.seq) /\ h.bootSeq \in Nat /\ h.fseq \in Nat /\ h.dig \in Nat
        BY <1>3, <1>9
    <3>2. h.born \subseteq D /\ h.tail \subseteq h.born \union {Scene} /\ (\A u \in h.tombs : Gone(h, u))
          /\ (\A e \in h.queue : e.u \in h.born /\ e.expect \in Nat)
        BY <1>9, DeltaAssumption
    <3>3. Filed(h)
        BY <1>9 DEF Filed
    <3> QED
        BY <1>3, <1>9, <1>13, <3>1, <3>2, <3>3, Zenon DEF HostKinds
  <2>2. ReplicaKinds(r)
      BY <1>10, <1>11 DEF ReplicaKinds
  <2>3. fast \in Seq(Post)
      BY <1>1
  <2> QED
      BY <1>9, <2>1, <2>2, <2>3 DEF Kinds
<1>16. \A x : ~Afoot(x)
  <2>1. \A i \in 1..Len(fast) : FALSE
      BY <1>1
  <2> QED
      BY <1>11, <2>1, Zenon DEF Afoot
<1>17. Lined
  <2>1. \A u \in Things : After(h, u) = 1
      BY <1>3, <1>9 DEF After, Things
  <2>2. \A i \in 1..Len(cold) : cold[i].seq = 1
      BY <1>7, <1>12, Zenon
  <2>3. \A i, j \in 1..Len(cold) : ~(i < j)
      BY <1>12
  <2> QED
      BY <1>9, <1>10, <1>11, <2>1, <2>2, <2>3 DEF Lined
<1>18. Posts
  <2>1. ~(r.dig > r.sd) /\ \A i \in 1..Len(fast) : FALSE
      BY <1>1, <1>10
  <2> QED
      BY <1>11, <1>16, <2>1, Zenon DEF Posts
<1>19. ASSUME NEW u \in Things
       PROVE  /\ Got(r, u) = 0 /\ Has(h, u) \in Nat /\ Claim(r, u) = 0
              /\ \A i \in 1..Len(cold) : Carries(cold[i], u) /\ Val(cold[i], u) = Has(h, u) /\ cold[i].kind = "boot"
  <2>1. Got(r, u) = 0 /\ Claim(r, u) = 0
      BY <1>3, <1>10 DEF Got, Claim, Things
  <2>2. Has(h, u) \in Nat
      BY <1>9, <1>14 DEF Has, Things
  <2>3. Carries(m, u) /\ Val(m, u) = Has(h, u)
      BY <1>7, <1>9 DEF Carries, Val, Has
  <2> QED
      BY <1>7, <1>12, <2>1, <2>2, <2>3, Zenon
<1>20. ASSUME NEW u \in Things PROVE Climbs(u) /\ Behind(u) /\ Whole(u)
  <2>1. Climbs(u)
    <3>1. 0 <= Has(h, u) /\ Has(h, u) <= Has(h, u)
        BY <1>19
    <3> QED
        BY <1>19, <3>1, Zenon DEF Climbs
  <2>2. Behind(u)
    <3>1. Claim(r, u) <= Got(r, u)
        BY <1>19
    <3> QED
        BY <1>9, <1>13, <3>1, Zenon DEF Behind, Asked
  <2>3. \A i \in 1..Len(cold) : Brings(h, cold[i], u) /\ i >= i /\ cold[i].kind # "end"
      BY <1>19 DEF Brings
  <2>4. Whole(u)
      BY <1>9, <1>12, <2>3, Zenon DEF Whole, Now, AtFile, AtEnd, Listed
  <2> QED
      BY <2>1, <2>2, <2>4
<1>21. ASSUME NEW u \in D
       PROVE  Graves(u) /\ (u \notin h.born => h.ver[u] = 0) /\ Hashed(u) /\ Covers(u)
  <2>1. ~Gone(h, u) /\ (u \notin h.born => h.ver[u] = 0) /\ h.ver[u] \in Nat /\ h.hash[u] = 0 /\ h.mpend[u] = 0
      BY <1>3, <1>9, <1>14 DEF Gone
  <2>2. Graves(u)
      BY <1>16, <2>1, Zenon DEF Graves, Tomb
  <2>3. Hashed(u)
      BY <2>1 DEF Hashed
  <2>4. Covers(u)
    <3> SUFFICES ASSUME NEW n \in Int, NEW v \in Nat \ {0}, TellsOf(n, u, v)
                 PROVE  /\ r.gen # None /\ r.gen = n => v <= r.ver[u]
                        /\ \A i \in 1..Len(cold) : cold[i].kind = "boot" /\ cold[i].gen = n => v <= cold[i].ver[u]
        BY Zenon DEF Covers
    <3>1. v = h.ver[u]
      <4>1. v # 0
          OBVIOUS
      <4> QED
          BY <1>1, <2>1, <4>1, Zenon DEF TellsOf, HostSays
    <3>2. \A i \in 1..Len(cold) : cold[i].ver[u] = h.ver[u]
        BY <1>7, <1>9, <1>12, Zenon
    <3> QED
        BY <1>10, <2>1, <3>1, <3>2
  <2> QED
      BY <2>1, <2>2, <2>3, <2>4
<1> QED
    BY <1>15, <1>17, <1>18, <1>20, <1>21, Zenon DEF Mended

\* One step keeps it.
LEMMA StepMended ==
    ASSUME Shape, Mended, [Next]_vars
    PROVE  Mended'
<1>1. Shape'
    BY Step
<1>2. ASSUME Move PROVE Mended'
    BY <1>1, <1>2, HostKeeps
<1>3. ASSUME NEW o, Taken(o) PROVE Mended'
    BY <1>1, <1>3, ReplicaKeeps
<1>4. CASE Edits
  <2>1. ASSUME NEW u \in D, Edit(u) \/ Create(u) \/ Delete(u) PROVE Move
      BY <2>1, ChangedMoves, DeletedMoves, Zenon
  <2>2. ASSUME NEW how \in {"alone", "rides"}, Restructure(how) PROVE Move
      BY <2>2, RestructureMoves, Zenon
  <2> QED
      BY <1>2, <1>4, <2>1, <2>2, FilesMove, Zenon DEF Edits
<1>5. CASE Flush
    BY <1>2, <1>5, FlushT2Moves, FlushTombMoves, PrimeMoves, FlushSceneMoves, FilesMove, CoveredMoves, BatchMoves,
       ResendMoves, T1FullMoves, EndMoves, Zenon DEF Flush
<1>6. CASE \E late, limited \in BOOLEAN : Watch(late, limited)
    BY <1>2, <1>6, WatchMoves, Zenon
<1>7. CASE ServeManifest
    BY <1>2, <1>7, ServeMoves, Zenon
<1>8. CASE Pong \/ UNCHANGED vars
  <2>1. h' = h /\ r' = r /\ cold' = cold /\ fast' = fast /\ ctl' = ctl
      BY <1>8 DEF Pong, vars
  <2>2. Slides(0) /\ Kinds /\ ctl' \subseteq ctl
      BY <2>1, SlidesNot, Zenon DEF Mended
  <2>3. ReplicaKinds(r') /\ fast' \in Seq(Post) /\ (Hole => Hole') /\ \A x : Afoot(x)' <=> Afoot(x)
      BY <2>1, <2>2, Zenon DEF Kinds, Hole, Afoot
  <2>4. 0 # 1
      OBVIOUS
  <2>5. Dug(0) /\ Built(0) /\ Turns
      BY <2>1, <2>4, DugNothing, TurnsOn, Zenon DEF Built
  <2>6. \A u : Fed(0, u) /\ StillThere(u) /\ Served1(0, u)
      BY <2>1, <2>2, <2>4, StaysThere, Zenon DEF Fed, Served1
  <2>7. \A u \in D : ~Gone(h, u) => Claim(r', u) <= Got(r', u)
      BY <2>1, AsItIs, Zenon
  <2>8. Taken(0)
      BY <2>1, <2>2, <2>3, <2>5, <2>6, <2>7, Zenon DEF Taken, Marked, Loaded
  <2> QED
      BY <1>3, <2>8, Zenon
<1>9. CASE TakeCold(FALSE) \/ TakeCold(TRUE)
  <2>1. FALSE \in BOOLEAN /\ TRUE \in BOOLEAN
      OBVIOUS
  <2> QED
      BY <1>1, <1>3, <1>9, <2>1, ColdMoves, Zenon
<1>10. CASE TakeFast
    BY <1>3, <1>10, FastMoves, Zenon
<1>11. CASE \E k \in ctl : MergeManifest(k)
    BY <1>3, <1>11, MergeMoves, Zenon
<1>12. CASE LoseCold
    BY <1>3, <1>12, LoseMoves, Zenon
<1> QED
    BY <1>4, <1>5, <1>6, <1>7, <1>8, <1>9, <1>10, <1>11, <1>12, Zenon DEF Next, Take

\* When nothing is under way, what the invariant says is that the scene is there.
LEMMA MendedRepaired ==
    ASSUME Shape, Mended
    PROVE  RepairComplete
<1> SUFFICES ASSUME Quiet, ~r.want, ~TailLost, ~r.missed
             PROVE  (r.sd = h.sd \/ Skipped \/ Ahead) /\ \A u \in D \ r.failed : r.ver[u] = h.ver[u]
    BY Zenon DEF RepairComplete
<1>1. ~Hole
    BY Zenon DEF Hole, TailLost
<1>2. cold = <<>> /\ fast = <<>>
    BY DEF Quiet
<1>3. (\A i \in 1..Len(cold) : FALSE) /\ (\A i \in 1..Len(fast) : FALSE)
    BY <1>2
<1>4. \A x : ~Afoot(x)
    BY <1>3, Zenon DEF Afoot, Quiet
<1>5. ASSUME NEW u \in Things, ~Gone(h, u), u \notin r.failed PROVE Owed(h, u) \/ Got(r, u) = Has(h, u)
    BY <1>1, <1>3, <1>5, Zenon DEF Mended, Whole, Now, There, Refused
<1>6. r.sd = h.sd \/ Skipped \/ Ahead
  <2>1. Scene \in Things /\ ~Gone(h, Scene) /\ Scene \notin r.failed
      BY DeltaAssumption DEF Mended, Kinds, HostKinds, ReplicaKinds, Gone, Things
  <2> QED
      BY <1>5, <2>1, Zenon DEF Has, Got, Owed, Skipped, Ahead
<1>7. ASSUME NEW u \in D \ r.failed PROVE r.ver[u] = h.ver[u]
  <2>1. CASE Gone(h, u)
    <3>1. u \notin h.tombs
        BY DEF Quiet
    <3>2. r.ver[u] = 0
        BY <1>4, <2>1, <3>1, Zenon DEF Mended, Graves, Tomb
    <3> QED
        BY <2>1, <3>2 DEF Gone
  <2>2. CASE ~Gone(h, u)
    <3>1. u \in Things /\ u # Scene /\ u \notin r.failed /\ ~Owed(h, u)
        BY DeltaAssumption DEF Things, Owed, Quiet
    <3> QED
        BY <1>5, <2>2, <3>1, Zenon DEF Has, Got
  <2> QED
      BY <2>1, <2>2
<1> QED
    BY <1>6, <1>7

\* The difference is the whole difference: whatever is edited, lost, refused by
\* Blender, skipped or asked for again while a repair is planned and sent, with any
\* number of datablocks, files and repairs, when everything has landed, no repair is
\* asked for and no file has failed and no part of a repair been lost since the last
\* file, the replica is the host's scene but for a structure that only a file would
\* bring (ring1/resync.py, plan_delta; ring0/host_handlers.py, send_delta, _drain_delta and
\* the automatic bootstrap of _flush_tick_inner).
THEOREM RepairIsComplete ==
    ASSUME ~Leftover
    PROVE  Spec => []RepairComplete
<1>1. Init => Shape /\ Mended
    BY Beginning, BeginsMended
<1>2. Shape /\ Mended /\ [Next]_vars => (Shape /\ Mended)'
    BY Step, StepMended
<1>3. Shape /\ Mended => RepairComplete
    BY MendedRepaired
<1> QED
    BY <1>1, <1>2, <1>3, PTL DEF Spec
=============================================================================
