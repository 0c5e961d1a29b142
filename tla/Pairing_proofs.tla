--------------------------- MODULE Pairing_proofs ---------------------------
(* Proofs about pairing, for any number of sessions, handshakes, files,    *)
(* chunks and faults, and whatever the timers do (Timely or not), as long  *)
(* as a session starts with nothing of an earlier one under way towards    *)
(* the replica (~Overlap).                                                 *)
EXTENDS Pairing, FiniteSetTheorems, SequenceTheorems, TLAPS

Status == [epoch : Nat, want : BOOLEAN, boots : Nat]
Answer == [ok : BOOLEAN, epoch : Nat]
Chunk == [file : Nat \X Nat, id : Nat \X Nat, i : Int, seq : Nat]
Question == [kind : {"hello", "ping", "goodbye"}, s : Nat, req : Nat, epoch : Nat, seq : Nat]
Response == [kind : {"reply", "pong"}, s : Nat, req : Nat, ok : BOOLEAN, epoch : Nat, status : Status]

HostT == [on : BOOLEAN, session : Nat, epoch : Nat, armed : BOOLEAN, req : Nat,
          peer : Nat, lost : BOOLEAN, reconnect : BOOLEAN, served : Int,
          boot : Nat, at : Nat, out : Int, grace : BOOLEAN, seq : Nat, unseen : {"no", "unborn", "waited"}]
IoT == [up : BOOLEAN, pong : BOOLEAN, alive : BOOLEAN, born : BOOLEAN, status : Status, slot : Seq(Answer)]
RepT == [here : BOOLEAN, mirrored : BOOLEAN, epoch : Nat, peer : Nat, new : BOOLEAN, base : Nat,
         last : Int, parts : SUBSET Chunk, pending : SUBSET (Nat \X Nat), holds : SUBSET (Nat \X Nat), boots : Nat,
         want : BOOLEAN, bye : BOOLEAN, ended : BOOLEAN, told : SUBSET Nat]

\* The types the steps need, without the bounds TypeOK adds.
Shape ==
    /\ host \in HostT /\ io \in IoT /\ rep \in RepT /\ up \in BOOLEAN /\ ev \in Seq(BOOLEAN)
    /\ toRep \in Seq(Question) /\ toHost \in Seq(Response) /\ cold \in Seq(Chunk)
    /\ count \in [DOMAIN Limit -> Nat]

-----------------------------------------------------------------------------
(* Hellos and their answers.                                               *)

\* The process an answer of epoch e came from is not younger than the replica's, and if it is
\* the one there is, it has been told the host's epoch.
Knows(e) == rep.here /\ e = rep.epoch => host.epoch \in rep.told

\* What the host will read off the messages of its session: a request waits only while a
\* handshake is armed, the epoch does not change meanwhile, and no other message has its id.
Hellos ==
    /\ host.on => \A m \in ToSet(toRep) : m.s = host.session
    /\ host.on => \A m \in ToSet(toHost) : m.kind = "reply" => m.s = host.session
    /\ host.req # 0 => host.armed
    /\ host.on /\ host.req # 0 => \A m \in ToSet(toRep) : m.kind = "hello" /\ m.req = host.req => m.epoch = host.epoch

Answers ==
    /\ host.peer <= rep.epoch
    /\ \A m \in ToSet(toHost) : m.kind = "reply" => m.epoch <= rep.epoch
    /\ io.slot # <<>> => io.slot[1].epoch <= rep.epoch
    /\ host.on /\ host.req # 0 => /\ \A m \in ToSet(toHost) : m.kind = "reply" /\ m.req = host.req /\ m.ok => Knows(m.epoch)
                                  /\ io.slot # <<>> /\ io.slot[1].ok => Knows(io.slot[1].epoch)

-----------------------------------------------------------------------------
(* Files and their chunks.                                                 *)

\* A chunk of the session there is, or was last: its blob id names its file.
Mine(c) == c.file = <<host.session, c.id[1]>>

\* No epoch told so far, or on its way, is one that _start_host and _arm_handshake have yet to make.
Epoch == count["session"] + count["arm"]
Numbered ==
    /\ host.epoch <= Epoch /\ (host.on => host.epoch # 0)
    /\ rep.peer \in rep.told \cup {0}
    /\ \A m \in ToSet(toRep) : m.epoch <= Epoch
    /\ \A e \in rep.told : e <= Epoch

\* The replica has not been told of the session there is: nothing of it but hellos can come.
Untold ==
    /\ cold = <<>> /\ rep.here
    /\ host.on => /\ host.armed /\ host.out = 0 /\ host.epoch \notin rep.told
                  /\ \A m \in ToSet(toHost) : m.kind = "reply" => m.epoch = rep.epoch
                  /\ io.slot # <<>> => io.slot[1].epoch = rep.epoch

\* Pieces the replica keeps of an earlier session's file are dropped before one of this session
\* comes: the hello is not there yet, or the tick has still to act on it.
Pieces == (\A c \in rep.parts : Mine(c)) \/ rep.new \/ Untold

OneFile ==
    /\ \A c \in ToSet(cold) : Mine(c)
    /\ rep.parts # {} => rep.here
    /\ \A c, d \in rep.parts : c.id = d.id /\ c.file = d.file
    /\ \A x, y \in rep.pending : x = y
    /\ \A x, y \in rep.holds : x = y

Inv == Shape /\ Hellos /\ Answers /\ AnswersItsHello /\ Numbered /\ Pieces /\ OneFile

-----------------------------------------------------------------------------
(* What the operators on lanes return.                                     *)

\* A message at the end of a lane.
LEMMA SetAppend ==
    ASSUME NEW T, NEW q \in Seq(T), NEW m \in T
    PROVE  Append(q, m) \in Seq(T) /\ ToSet(Append(q, m)) = ToSet(q) \cup {m}
<1> DEFINE r == Append(q, m)
<1>1. r \in Seq(T) /\ DOMAIN r = 1..Len(q) + 1 /\ DOMAIN q = 1..Len(q) /\ Len(q) \in Nat
    OBVIOUS
<1>2. r[Len(q) + 1] = m /\ \A i \in 1..Len(q) : r[i] = q[i]
    OBVIOUS
<1> HIDE DEF r
<1>3. ToSet(r) \subseteq ToSet(q) \cup {m}
    BY <1>1, <1>2 DEF ToSet
<1>4. ToSet(q) \subseteq ToSet(r) /\ m \in ToSet(r)
    BY <1>1, <1>2 DEF ToSet
<1> QED
    BY <1>1, <1>3, <1>4 DEF r

\* A lane without its first message.
LEMMA SetTail ==
    ASSUME NEW T, NEW q \in Seq(T), q # <<>>
    PROVE  Tail(q) \in Seq(T) /\ Head(q) \in T /\ Head(q) \in ToSet(q) /\ ToSet(Tail(q)) \subseteq ToSet(q)
BY DEF ToSet

\* What a lost connection leaves of a lane.
LEMMA SetPart ==
    ASSUME NEW T, NEW q \in Seq(T), NEW r \in PrefixesOf(q) \cup SuffixesOf(q)
    PROVE  r \in Seq(T) /\ ToSet(r) \subseteq ToSet(q)
<1>1. PICK a \in 1..Len(q) + 1, b \in 0..Len(q) : r = SubSeq(q, a, b)
    BY DEF PrefixesOf, SuffixesOf
<1>2. r \in Seq(T) /\ \A i \in 1..Len(r) : r[i] = q[a + i - 1] /\ a + i - 1 \in 1..Len(q)
    BY <1>1
<1>3. DOMAIN r = 1..Len(r) /\ DOMAIN q = 1..Len(q)
    BY <1>2
<1> QED
    BY <1>2, <1>3 DEF ToSet

\* An empty lane.
LEMMA SetEmpty == ToSet(<<>>) = {}
BY DEF ToSet

\* A lane holds finitely many messages.
LEMMA SetFinite ==
    ASSUME NEW T, NEW q \in Seq(T)
    PROVE  IsFiniteSet(ToSet(q)) /\ ToSet(q) \subseteq T
<1>1. q \in [1..Len(q) -> ToSet(q)] /\ \A t \in ToSet(q) : \E i \in 1..Len(q) : q[i] = t
    BY DEF ToSet
<1>2. q \in Surjection(1..Len(q), ToSet(q))
    BY <1>1 DEF Surjection
<1>3. IsFiniteSet(1..Len(q))
    BY FS_Interval
<1> QED
    BY <1>2, <1>3, FS_Surjection DEF ToSet

\* request_nowait: no message of this session under way carries the new id.
LEMMA NewReqFresh ==
    ASSUME Shape
    PROVE  /\ NewReq \in Nat \ {0}
           /\ \A m \in ToSet(toRep) \cup ToSet(toHost) : m.s = host.session => m.req # NewReq
<1> DEFINE M == {x \in ToSet(toRep) \cup ToSet(toHost) : x.s = host.session}
           inFlight == {m.req : m \in M}
           n == Cardinality(inFlight)
           f == [m \in M |-> m.req]
<1>1. IsFiniteSet(ToSet(toRep) \cup ToSet(toHost))
    BY SetFinite, FS_Union DEF Shape
<1>2. IsFiniteSet(M)
    BY <1>1, FS_Subset
<1>3. f \in Surjection(M, inFlight)
    BY DEF Surjection
<1>4. IsFiniteSet(inFlight) /\ n \in Nat
    BY <1>2, <1>3, FS_Surjection, FS_CardinalityType
<1>5. \E k \in 1..n + 1 : k \notin inFlight
  <2> SUFFICES ASSUME 1..n + 1 \subseteq inFlight PROVE FALSE
      OBVIOUS
  <2>1. Cardinality(1..n + 1) <= n
      BY <1>4, FS_Subset
  <2>2. Cardinality(1..n + 1) = n + 1
      BY <1>4, FS_Interval
  <2> QED
      BY <1>4, <2>1, <2>2
<1>6. NewReq = CHOOSE k \in 1..n + 1 : k \notin inFlight
    BY DEF NewReq
<1>7. NewReq \in 1..n + 1 /\ NewReq \notin inFlight
    BY <1>5, <1>6
<1> QED
    BY <1>4, <1>7

-----------------------------------------------------------------------------
(* What the handlers do to the records.                                    *)

\* Counting an event.
LEMMA UseTypes ==
    ASSUME count \in [DOMAIN Limit -> Nat], NEW c \in DOMAIN Limit, Use(c)
    PROVE  /\ count' \in [DOMAIN Limit -> Nat] /\ Epoch \in Nat /\ Epoch <= Epoch'
           /\ c \in {"session", "arm"} => Epoch' = Epoch + 1
<1>1. count' = [count EXCEPT ![c] = @ + 1] /\ {"session", "arm"} \subseteq DOMAIN Limit
    BY DEF Use, Limit
<1>2. count["session"] \in Nat /\ count["arm"] \in Nat
    BY <1>1
<1>3. count'["session"] = IF c = "session" THEN count["session"] + 1 ELSE count["session"]
    BY <1>1
<1>4. count'["arm"] = IF c = "arm" THEN count["arm"] + 1 ELSE count["arm"]
    BY <1>1
<1>5. count' \in [DOMAIN Limit -> Nat]
    BY <1>1
<1> QED
    BY <1>2, <1>3, <1>4, <1>5 DEF Epoch

\* As long as nothing is counted, no epoch is made.
LEMMA SameCount ==
    ASSUME count \in [DOMAIN Limit -> Nat]
    PROVE  Epoch \in Nat /\ (count' = count => Epoch' = Epoch)
<1>1. {"session", "arm"} \subseteq DOMAIN Limit
    BY DEF Limit
<1>2. count["session"] \in Nat /\ count["arm"] \in Nat
    BY <1>1
<1> QED
    BY <1>2 DEF Epoch

\* The states the threads start from.
LEMMA Fresh ==
    /\ HostOff \in HostT /\ ~HostOff.on /\ ~HostOff.armed /\ HostOff.req = 0 /\ HostOff.peer = 0
    /\ HostOff.epoch = 0 /\ HostOff.out = 0
    /\ \A b \in BOOLEAN : IoFresh(b) \in IoT /\ IoFresh(b).slot = <<>>
    /\ \A e \in Nat : LET r == RepFresh(e) IN
         r \in RepT /\ r.here /\ r.epoch = e /\ r.parts = {} /\ r.pending = {} /\ r.holds = {} /\ r.told = {} /\ r.peer = 0
<1>1. /\ HostOff \in HostT /\ ~HostOff.on /\ ~HostOff.armed /\ HostOff.req = 0 /\ HostOff.peer = 0
      /\ HostOff.epoch = 0 /\ HostOff.out = 0
    BY DEF HostOff, HostT, NoSeq
<1>2. ASSUME NEW b \in BOOLEAN PROVE IoFresh(b) \in IoT /\ IoFresh(b).slot = <<>>
    BY DEF IoFresh, IoT, NoStatus, Status
<1>3. ASSUME NEW e \in Nat
      PROVE  LET r == RepFresh(e) IN
         r \in RepT /\ r.here /\ r.epoch = e /\ r.parts = {} /\ r.pending = {} /\ r.holds = {} /\ r.told = {} /\ r.peer = 0
    BY DEF RepFresh, RepT, NoSeq
<1> QED
    BY <1>1, <1>2, <1>3

\* The slot for a reply, written or emptied.
LEMMA SlotCleared ==
    ASSUME io \in IoT, NEW t \in Seq(Answer)
    PROVE  [io EXCEPT !.slot = t] \in IoT /\ [io EXCEPT !.slot = t].slot = t
BY DEF IoT

\* An empty lane has any type.
LEMMA EmptyLanes == \A T : <<>> \in Seq(T)
OBVIOUS

\* _arm_handshake: a handshake that is armed stays; a new one waits for no reply yet.
LEMMA ArmHost ==
    ASSUME count \in [DOMAIN Limit -> Nat], NEW h \in HostT, NEW b \in BOOLEAN
    PROVE  LET a == Arm(h, b) IN
           /\ a \in HostT /\ a.on = h.on /\ a.session = h.session /\ a.peer = h.peer /\ a.armed /\ a.out = h.out
           /\ h.armed => a = h
           /\ ~h.armed => a.req = 0 /\ a.epoch = IF b THEN Epoch + 1 ELSE h.epoch
<1>1. CASE h.armed
    BY <1>1 DEF Arm
<1>2. CASE ~h.armed
  <2> DEFINE e == IF b THEN count["session"] + count["arm"] + 1 ELSE h.epoch
             a == [h EXCEPT !.armed = TRUE, !.req = 0, !.unseen = "no", !.epoch = e]
  <2>1. e \in Nat
      BY DEF Limit, HostT
  <2>2. Arm(h, b) = a
      BY <1>2 DEF Arm
  <2> HIDE DEF e
  <2>3. /\ a \in HostT /\ a.on = h.on /\ a.session = h.session /\ a.peer = h.peer /\ a.armed /\ a.req = 0
        /\ a.epoch = e /\ a.out = h.out
      BY <2>1 DEF HostT
  <2>4. e = IF b THEN Epoch + 1 ELSE h.epoch
      BY DEF e, Epoch
  <2> HIDE DEF a
  <2> QED
      BY <1>2, <2>2, <2>3, <2>4
<1> QED
    BY <1>1, <1>2

\* send_bootstrap leaves the handshake alone.
LEMMA BootHost ==
    ASSUME NEW h \in HostT
    PROVE  LET a == SendBootstrap(h) IN
           /\ a \in HostT /\ a.on = h.on /\ a.session = h.session /\ a.peer = h.peer /\ a.armed = h.armed
           /\ a.req = h.req /\ a.epoch = h.epoch
<1> DEFINE b == h.boot + 1
           t == h.seq + 1
           a == [h EXCEPT !.boot = b, !.at = t, !.out = Chunks]
<1>1. b \in Nat /\ t \in Nat /\ Chunks \in Int
    BY PairingAssumption DEF HostT
<1>2. SendBootstrap(h) = a
    BY DEF SendBootstrap
<1> HIDE DEF b, t
<1>3. /\ a \in HostT /\ a.on = h.on /\ a.session = h.session /\ a.peer = h.peer /\ a.armed = h.armed
      /\ a.req = h.req /\ a.epoch = h.epoch
    BY <1>1 DEF HostT
<1> HIDE DEF a
<1> QED
    BY <1>2, <1>3

\* The first state.
LEMMA InitInv == Init => Inv
<1> SUFFICES ASSUME Init PROVE Inv
    OBVIOUS
<1>1. /\ host = HostOff /\ io = IoFresh(FALSE) /\ rep = RepFresh(1) /\ toRep = <<>> /\ toHost = <<>> /\ cold = <<>>
      /\ up = FALSE /\ ev = <<>> /\ count = [c \in DOMAIN Limit |-> 0]
    BY DEF Init
<1>0. /\ host \in HostT /\ ~host.on /\ host.req = 0 /\ host.peer = 0 /\ io \in IoT /\ io.slot = <<>>
      /\ rep \in RepT /\ rep.epoch = 1 /\ rep.parts = {} /\ rep.pending = {} /\ rep.holds = {}
      /\ rep.told = {} /\ rep.peer = 0 /\ host.epoch = 0
    BY <1>1, Fresh
<1>2. Shape
    BY <1>0, <1>1, EmptyLanes DEF Shape
<1>3. ToSet(toRep) = {} /\ ToSet(toHost) = {} /\ ToSet(cold) = {}
    BY <1>1, SetEmpty
<1>4. Hellos /\ Answers /\ AnswersItsHello
    BY <1>0, <1>3 DEF Hellos, Answers, AnswersItsHello
<1>5. OneFile
    BY <1>0, <1>3 DEF OneFile
<1>6. Numbered
  <2>1. Epoch \in Nat
      BY <1>2, SameCount DEF Shape
  <2> QED
      BY <1>0, <1>3, <2>1 DEF Numbered
<1>7. Pieces
    BY <1>0 DEF Pieces
<1> QED
    BY <1>2, <1>4, <1>5, <1>6, <1>7 DEF Inv

-----------------------------------------------------------------------------
(* The host's timers.                                                      *)

\* A step of the host that sends and takes nothing.  A request still waiting is the one that
\* waited, under the same epoch; the host becomes paired only with a process that knows it.
LEMMA HostOnly ==
    ASSUME Inv, host' \in HostT, io' \in IoT, count' \in [DOMAIN Limit -> Nat], up' \in BOOLEAN, ev' \in Seq(BOOLEAN),
           UNCHANGED <<rep, toRep, toHost, cold>>,
           host'.session = host.session, host'.on = host.on,
           host'.req # 0 => host'.req = host.req /\ host'.epoch = host.epoch /\ host'.armed,
           io'.slot = <<>> \/ io'.slot = io.slot, host'.peer <= rep.epoch,
           host'.on /\ ~host'.armed => /\ host'.epoch = host.epoch
                                       /\ (host'.peer = host.peer /\ ~host.armed) \/ Knows(host'.peer),
           host'.epoch <= Epoch', Epoch <= Epoch', host'.on => host'.epoch # 0,
           Untold /\ host.on /\ rep.parts # {} => host'.armed /\ host'.out = host.out /\ host'.epoch = host.epoch
    PROVE  Inv'
<1> USE DEF Inv
<1>1. Shape'
    BY DEF Shape
<1>2. Hellos'
    BY DEF Hellos
<1>3. Answers'
    BY DEF Answers, Knows
<1>4. AnswersItsHello'
    BY DEF AnswersItsHello, Knows
<1>5. OneFile'
    BY DEF OneFile, Mine
<1>6. Numbered'
  <2>1. /\ Epoch \in Nat /\ Epoch' \in Nat /\ \A e \in rep.told : e \in Nat
        /\ \A m \in ToSet(toRep) : m.epoch \in Nat
    <3>1. Epoch \in Nat
        BY SameCount DEF Shape
    <3>2. Epoch' \in Nat
      <4>1. count'["session"] \in Nat /\ count'["arm"] \in Nat
          BY DEF Limit
      <4> QED
          BY <4>1 DEF Epoch
    <3>3. ToSet(toRep) \subseteq Question
        BY SetFinite DEF Shape
    <3> QED
        BY <3>1, <3>2, <3>3 DEF Shape, RepT, Question
  <2>2. /\ rep'.told = rep.told /\ rep'.peer = rep.peer /\ toRep' = toRep
      OBVIOUS
  <2>3. \A e \in rep.told : e <= Epoch'
      BY <2>1 DEF Numbered
  <2>4. \A m \in ToSet(toRep) : m.epoch <= Epoch'
      BY <2>1 DEF Numbered
  <2> QED
      BY <2>2, <2>3, <2>4 DEF Numbered
<1>7. Pieces'
  <2>1. CASE (\A c \in rep.parts : Mine(c)) \/ rep.new
      BY <2>1 DEF Pieces, Mine
  <2>2. CASE Untold /\ rep.parts # {}
    <3>1. Untold'
        BY <2>2 DEF Untold
    <3> QED
        BY <3>1 DEF Pieces
  <2> QED
      BY <2>1, <2>2 DEF Pieces
<1> QED
    BY <1>1, <1>2, <1>3, <1>4, <1>5, <1>6, <1>7

\* The watcher arms a handshake or sends the file.
LEMMA WatchInv == ASSUME Inv, WatchReconnect \/ WatchRestarted \/ WatchResync PROVE Inv'
<1> USE DEF Inv
<1>0. Shape /\ host \in HostT /\ io \in IoT /\ count \in [DOMAIN Limit -> Nat] /\ up \in BOOLEAN /\ ev \in Seq(BOOLEAN)
      /\ host.peer <= rep.epoch /\ (host.req # 0 => host.armed) /\ {"arm", "boot"} \subseteq DOMAIN Limit
    BY DEF Shape, Answers, Hellos, Limit
<1>00. /\ Epoch \in Nat /\ host.epoch <= Epoch /\ (host.on => host.epoch # 0) /\ host.epoch \in Nat
       /\ count' = count => Epoch' = Epoch
    BY <1>0, SameCount DEF Numbered, HostT
<1>01. Untold /\ host.on => host.armed
    BY DEF Untold
<1>1. CASE WatchReconnect
  <2> DEFINE h == [host EXCEPT !.lost = FALSE, !.reconnect = FALSE]
             a == Arm(h, TRUE)
  <2>1. /\ h \in HostT /\ h.on = host.on /\ h.session = host.session /\ h.peer = host.peer /\ h.armed = host.armed
        /\ h.req = host.req /\ h.epoch = host.epoch /\ h.out = host.out
      BY <1>0 DEF HostT
  <2>2. host' = a /\ UNCHANGED <<io, rep, up, ev, toRep, toHost, cold>> 
        /\ IF host.armed THEN count' = count ELSE Use("arm")
      BY <1>1 DEF WatchReconnect
  <2>3. count' \in [DOMAIN Limit -> Nat] /\ Epoch' = IF host.armed THEN Epoch ELSE Epoch + 1
      BY <1>0, <1>00, <2>2, UseTypes
  <2> HIDE DEF h
  <2>4. /\ a \in HostT /\ a.on = h.on /\ a.session = h.session /\ a.peer = h.peer /\ a.armed
        /\ (h.armed => a = h) /\ (~h.armed => a.req = 0 /\ a.epoch = Epoch + 1) /\ a.out = h.out
      BY <1>0, <2>1, ArmHost
  <2> HIDE DEF a
  <2>5. a.req # 0 => a.req = host.req /\ a.epoch = host.epoch
      BY <1>0, <2>1, <2>4
  <2>6. a.epoch <= Epoch' /\ Epoch <= Epoch' /\ (a.on => a.epoch # 0)
      BY <1>00, <2>1, <2>3, <2>4
  <2>7. Untold /\ host.on => a.armed /\ a.out = host.out /\ a.epoch = host.epoch
      BY <1>01, <2>1, <2>4
  <2> QED
      BY <1>0, <2>1, <2>2, <2>3, <2>4, <2>5, <2>6, <2>7, HostOnly
<1>2. CASE WatchRestarted
  <2> DEFINE a == Arm(host, TRUE)
  <2>1. host' = a /\ ~host.armed /\ UNCHANGED <<io, rep, up, ev, toRep, toHost, cold>> /\ Use("arm")
      BY <1>2 DEF WatchRestarted
  <2>2. count' \in [DOMAIN Limit -> Nat] /\ Epoch' = Epoch + 1
      BY <1>0, <2>1, UseTypes
  <2>3. /\ a \in HostT /\ a.on = host.on /\ a.session = host.session /\ a.peer = host.peer /\ a.armed /\ a.req = 0
        /\ a.epoch = Epoch + 1
      BY <1>0, <2>1, ArmHost
  <2> HIDE DEF a
  <2> QED
      BY <1>0, <1>00, <1>01, <2>1, <2>2, <2>3, HostOnly
<1>3. CASE WatchResync
  <2> DEFINE b == SendBootstrap(host)
  <2>1. /\ host' = [b EXCEPT !.served = io.status.boots] /\ ~host.armed
        /\ UNCHANGED <<io, rep, up, ev, toRep, toHost, cold>> /\ Use("boot")
      BY <1>3 DEF WatchResync
  <2>2. count' \in [DOMAIN Limit -> Nat] /\ Epoch <= Epoch' /\ Epoch' \in Nat
      BY <1>0, <2>1, UseTypes, SameCount DEF Epoch, Limit
  <2>3. /\ b \in HostT /\ b.on = host.on /\ b.session = host.session /\ b.peer = host.peer /\ b.armed = host.armed
        /\ b.req = host.req /\ b.epoch = host.epoch
      BY <1>0, BootHost
  <2> HIDE DEF b
  <2>4. io.status.boots \in Int
      BY <1>0 DEF IoT, Status
  <2>5. /\ host' \in HostT /\ host'.on = b.on /\ host'.session = b.session /\ host'.peer = b.peer /\ host'.armed = b.armed
        /\ host'.req = b.req /\ host'.epoch = b.epoch
      BY <2>1, <2>3, <2>4 DEF HostT
  <2>6. host'.epoch <= Epoch'
      BY <1>00, <2>2, <2>3, <2>5
  <2> QED
      BY <1>0, <1>00, <1>01, <2>1, <2>2, <2>3, <2>5, <2>6, HostOnly
<1> QED
    BY <1>1, <1>2, <1>3

\* The answer is there: its epoch's process has been told, or is gone.
LEMMA PairedInv == ASSUME Inv, Paired PROVE Inv'
<1> USE DEF Inv
<1>0. host \in HostT /\ io \in IoT /\ count' \in [DOMAIN Limit -> Nat] /\ up' \in BOOLEAN /\ ev' \in Seq(BOOLEAN)
    BY DEF Shape, Paired
<1>1. /\ host.on /\ host.req # 0 /\ io.slot # <<>> /\ io.slot[1].ok
      /\ UNCHANGED <<rep, toRep, toHost, cold>>
    BY DEF Paired
<1>2. Knows(io.slot[1].epoch) /\ io.slot[1].epoch <= rep.epoch
    BY <1>1 DEF Answers
<1>20. ~Untold
    BY <1>1, <1>2 DEF Untold, Knows
<1>21. count' = count /\ Epoch' = Epoch /\ Epoch \in Nat /\ host.epoch <= Epoch /\ host.epoch # 0
    BY <1>0, <1>1, SameCount DEF Paired, Shape, Numbered
<1> DEFINE b == SendBootstrap(host)
           e == io.slot[1].epoch
           v == IF io.status = NoStatus THEN NoSeq ELSE io.status.boots
<1>3. e \in Nat /\ v \in Int
  <2>1. io.slot \in Seq(Answer) /\ io.status \in Status
      BY <1>0 DEF IoT
  <2>2. io.slot[1] \in Answer
      BY <1>1, <2>1
  <2> QED
      BY <2>1, <2>2 DEF Status, Answer, NoSeq
<1>4. host' = [b EXCEPT !.peer = e, !.armed = FALSE, !.req = 0, !.served = v] /\ io' = [io EXCEPT !.slot = <<>>]
    BY DEF Paired
<1>5. /\ b \in HostT /\ b.on = host.on /\ b.session = host.session /\ b.epoch = host.epoch
    BY <1>0, BootHost
<1>6. io' \in IoT /\ io'.slot = <<>>
    BY <1>0, <1>4, SlotCleared, EmptyLanes
<1> HIDE DEF b, e, v
<1>7. /\ host' \in HostT /\ host'.on = b.on /\ host'.session = b.session /\ host'.peer = e /\ host'.req = 0
      /\ host'.epoch = b.epoch
    BY <1>3, <1>4, <1>5 DEF HostT
<1> QED
    BY <1>0, <1>1, <1>2, <1>20, <1>21, <1>5, <1>6, <1>7, HostOnly DEF e

\* A refusal, a timeout, the end of the grace, a turn of _io_loop, a late pong, an event.
LEMMA TimerInv ==
    ASSUME Inv, Denied \/ Timeout \/ EarlyTimeout \/ GraceEnds \/ IoTurn \/ PongsLate \/ TakeEvent
    PROVE  Inv'
<1> USE DEF Inv
<1>0. Shape /\ host \in HostT /\ io \in IoT /\ count \in [DOMAIN Limit -> Nat] /\ up \in BOOLEAN /\ ev \in Seq(BOOLEAN)
      /\ host.peer <= rep.epoch /\ (host.req # 0 => host.armed) /\ "fault" \in DOMAIN Limit
    BY DEF Shape, Answers, Hellos, Limit
<1>1. count' \in [DOMAIN Limit -> Nat] /\ Epoch <= Epoch' /\ Epoch \in Nat /\ Epoch' \in Nat
  <2>1. count' = count \/ Use("fault")
      BY DEF Denied, Timeout, EarlyTimeout, GraceEnds, IoTurn, PongsLate, TakeEvent
  <2>2. count' \in [DOMAIN Limit -> Nat] /\ Epoch <= Epoch' /\ Epoch \in Nat
      BY <1>0, <2>1, UseTypes, SameCount
  <2>3. count'["session"] \in Nat /\ count'["arm"] \in Nat
      BY <2>2 DEF Limit
  <2> QED
      BY <2>2, <2>3 DEF Epoch
<1>2. UNCHANGED <<rep, up, toRep, toHost, cold>>
    BY DEF Denied, Timeout, EarlyTimeout, Unanswered, GraceEnds, IoTurn, PongsLate, TakeEvent
<1>3. ev' \in Seq(BOOLEAN)
  <2>1. ev' = ev \/ (ev # <<>> /\ ev' = Tail(ev))
      BY DEF Denied, Timeout, EarlyTimeout, Unanswered, GraceEnds, IoTurn, PongsLate, TakeEvent
  <2> QED
      BY <1>0, <2>1, SetTail
<1>4. /\ host' \in HostT /\ host'.on = host.on /\ host'.session = host.session /\ host'.peer = host.peer
      /\ host'.armed = host.armed /\ host'.epoch = host.epoch /\ host'.req \in {0, host.req}
      /\ host'.out = host.out
  <2>1. CASE Denied \/ Timeout \/ EarlyTimeout
    <3>1. host' = [host EXCEPT !.req = 0]
        BY <2>1 DEF Denied, Timeout, EarlyTimeout, Unanswered
    <3> QED
        BY <1>0, <3>1 DEF HostT
  <2>2. CASE GraceEnds
      BY <1>0, <2>2 DEF GraceEnds, HostT
  <2>3. CASE IoTurn
    <3>1. \/ host' = [host EXCEPT !.reconnect = host.reconnect \/ host.lost]
          \/ host' = host
          \/ host' = [host EXCEPT !.lost = TRUE]
        BY <2>3 DEF IoTurn, OnPeer
    <3> QED
        BY <1>0, <3>1 DEF HostT
  <2>4. CASE PongsLate
      BY <1>0, <2>4 DEF PongsLate
  <2>5. CASE TakeEvent
    <3>1. \E u \in {"no", "unborn", "waited"} : host' = [host EXCEPT !.unseen = u]
      <4>1. host.unseen \in {"no", "unborn", "waited"}
          BY <1>0 DEF HostT
      <4>2. host' = [host EXCEPT !.unseen = IF host.unseen # "no" \/ Head(ev) \/ io.alive \/ host.lost THEN host.unseen
                                            ELSE IF io.born THEN "waited" ELSE "unborn"]
          BY <2>5 DEF TakeEvent
      <4> QED
          BY <4>1, <4>2
    <3> QED
        BY <1>0, <3>1 DEF HostT
  <2> QED
      BY <2>1, <2>2, <2>3, <2>4, <2>5
<1>5. io' \in IoT /\ (io'.slot = <<>> \/ io'.slot = io.slot)
  <2>1. CASE Denied
      BY <1>0, <2>1, SlotCleared, EmptyLanes DEF Denied
  <2>2. CASE Timeout \/ EarlyTimeout \/ GraceEnds
      BY <1>0, <2>2 DEF Timeout, EarlyTimeout, Unanswered, GraceEnds
  <2>3. CASE IoTurn
    <3>1. io' = [io EXCEPT !.alive = (io.up /\ io.pong), !.born = (io.born \/ (io.up /\ io.pong))]
        BY <2>3 DEF IoTurn
    <3> QED
        BY <1>0, <3>1 DEF IoT
  <2>4. CASE PongsLate
      BY <1>0, <2>4 DEF PongsLate, IoT
  <2>5. CASE TakeEvent
    <3>1. io' = [io EXCEPT !.up = TRUE] \/ io' = [io EXCEPT !.up = FALSE, !.pong = FALSE]
        BY <2>5 DEF TakeEvent
    <3> QED
        BY <1>0, <3>1 DEF IoT
  <2> QED
      BY <2>1, <2>2, <2>3, <2>4, <2>5
<1>6. host'.on /\ ~host'.armed => /\ host'.epoch = host.epoch
                                  /\ (host'.peer = host.peer /\ ~host.armed) \/ Knows(host'.peer)
    BY <1>4
<1>7. host'.req # 0 => host'.req = host.req /\ host'.epoch = host.epoch /\ host'.armed
    BY <1>0, <1>4
<1>8. host'.epoch <= Epoch' /\ (host'.on => host'.epoch # 0)
  <2>1. host.epoch <= Epoch /\ (host.on => host.epoch # 0) /\ host.epoch \in Nat
      BY <1>0 DEF Numbered, HostT
  <2> QED
      BY <1>1, <1>4, <2>1
<1>9. Untold /\ host.on => host'.armed
    BY <1>4 DEF Untold
<1> QED
    BY <1>0, <1>1, <1>2, <1>3, <1>4, <1>5, <1>6, <1>7, <1>8, <1>9, HostOnly

\* The agents connect.
LEMMA ConnectInv == ASSUME Inv, Connect PROVE Inv'
<1>0. /\ Shape /\ host \in HostT /\ io \in IoT /\ ev \in Seq(BOOLEAN) /\ count \in [DOMAIN Limit -> Nat]
      /\ host.peer <= rep.epoch /\ (host.req # 0 => host.armed)
    BY DEF Inv, Shape, Answers, Hellos
<1>1. host' = host /\ io' = io /\ count' = count /\ up' = TRUE /\ UNCHANGED <<rep, toRep, toHost, cold>>
    BY DEF Connect
<1>2. ev' = ev \/ ev' = Append(ev, TRUE)
    BY DEF Connect
<1>3. ev' \in Seq(BOOLEAN)
    BY <1>0, <1>2, SetAppend
<1>4. Epoch' = Epoch /\ Epoch \in Nat /\ host.epoch <= Epoch /\ (host.on => host.epoch # 0)
    BY <1>0, <1>1, SameCount DEF Inv, Numbered
<1>5. Untold /\ host.on => host.armed
    BY DEF Untold
<1> QED
    BY <1>0, <1>1, <1>3, <1>4, <1>5, HostOnly

-----------------------------------------------------------------------------
(* The host sends and takes.                                               *)

\* A step that leaves the epoch, the replica and the chunks as they are, and says no other
\* epoch than the host's.
LEMMA TellsOnly ==
    ASSUME Inv, UNCHANGED <<rep, cold, count>>, toRep' \in Seq(Question), host'.session = host.session,
           \A m \in ToSet(toRep') : m \in ToSet(toRep) \/ m.epoch \in {0, host.epoch},
           \/ ~host'.on /\ host'.epoch = 0
           \/ /\ host'.on = host.on /\ host'.epoch = host.epoch /\ host'.armed = host.armed /\ host'.out = host.out
              /\ ToSet(toHost') \subseteq ToSet(toHost)
              /\ \/ io'.slot = <<>> \/ io'.slot = io.slot
                 \/ \E m \in ToSet(toHost) : m.kind = "reply" /\ io'.slot = <<[ok |-> m.ok, epoch |-> m.epoch]>>
    PROVE  Numbered' /\ Pieces' /\ OneFile'
<1> USE DEF Inv
<1>0. Epoch' = Epoch /\ Epoch \in Nat /\ host.epoch \in Nat
    BY SameCount DEF Shape, HostT
<1>1. Numbered'
    BY <1>0 DEF Numbered
<1>2. Pieces'
  <2>1. CASE (\A c \in rep.parts : Mine(c)) \/ rep.new
      BY <2>1 DEF Pieces, Mine
  <2>2. CASE Untold
    <3>1. CASE ~host'.on
        BY <2>2, <3>1 DEF Untold, Pieces
    <3>2. CASE host'.on
      <4>1. io'.slot # <<>> => io'.slot[1].epoch = rep.epoch
        <5>1. CASE io'.slot = <<>> \/ io'.slot = io.slot
            BY <2>2, <3>2, <5>1 DEF Untold
        <5>2. ASSUME NEW m \in ToSet(toHost), m.kind = "reply", io'.slot = <<[ok |-> m.ok, epoch |-> m.epoch]>>
              PROVE  io'.slot[1].epoch = rep.epoch
          <6>1. io'.slot[1].epoch = m.epoch
              BY <5>2
          <6>2. m.epoch = rep.epoch
              BY <2>2, <3>2, <5>2 DEF Untold
          <6> QED
              BY <6>1, <6>2
        <5> QED
            BY <3>2, <5>1, <5>2
      <4> QED
          BY <2>2, <3>2, <4>1 DEF Untold, Pieces
    <3> QED
        BY <3>1, <3>2
  <2> QED
      BY <2>1, <2>2 DEF Pieces
<1>3. OneFile'
    BY DEF OneFile, Mine
<1> QED
    BY <1>1, <1>2, <1>3

\* A control message sent, or lost where there is no connection.
LEMMA Sent ==
    ASSUME toRep \in Seq(Question), NEW m \in Question, SendControl(m)
    PROVE  toRep' \in Seq(Question) /\ ToSet(toRep') \subseteq ToSet(toRep) \cup {m}
<1>1. toRep' = toRep \/ toRep' = Append(toRep, m)
    BY DEF SendControl
<1>2. Append(toRep, m) \in Seq(Question) /\ ToSet(Append(toRep, m)) = ToSet(toRep) \cup {m}
    BY SetAppend
<1> QED
    BY <1>1, <1>2, Zenon

\* The hello carries the epoch there is, under an id nothing else under way carries.
LEMMA SendHelloInv == ASSUME Inv, SendHello PROVE Inv'
<1> USE DEF Inv
<1>0. host \in HostT /\ io \in IoT /\ toRep \in Seq(Question)
    BY DEF Shape
<1>1. /\ host.on /\ host.armed /\ host.req = 0 /\ SendControl(MakeHello(host.epoch))
      /\ UNCHANGED <<rep, up, ev, toHost, cold, count>>
    BY DEF SendHello
<1>2. /\ NewReq \in Nat \ {0}
      /\ \A m \in ToSet(toRep) \cup ToSet(toHost) : m.s = host.session => m.req # NewReq
    BY NewReqFresh
<1> DEFINE m == MakeHello(host.epoch)
<1>3. m \in Question /\ m.s = host.session /\ m.epoch = host.epoch
    BY <1>0, <1>2 DEF MakeHello, Question, HostT
<1>4. host' = [host EXCEPT !.req = NewReq] /\ io' = [io EXCEPT !.slot = <<>>]
    BY DEF SendHello
<1> HIDE DEF m
<1>5. toRep' \in Seq(Question) /\ ToSet(toRep') \subseteq ToSet(toRep) \cup {m}
    BY <1>0, <1>1, <1>3, Sent DEF m
<1>6. /\ host' \in HostT /\ host'.on = host.on /\ host'.session = host.session /\ host'.peer = host.peer
      /\ host'.armed = host.armed /\ host'.epoch = host.epoch /\ host'.req = NewReq /\ host'.out = host.out
    BY <1>0, <1>2, <1>4 DEF HostT
<1>7. io' \in IoT /\ io'.slot = <<>>
    BY <1>0, <1>4, SlotCleared, EmptyLanes
<1>8. Shape'
    BY <1>1, <1>5, <1>6, <1>7 DEF Shape
<1>9. Hellos'
    BY <1>1, <1>2, <1>3, <1>5, <1>6 DEF Hellos
<1>10. Answers'
  <2>1. \A x \in ToSet(toHost) : x.kind = "reply" => x.req # NewReq
      BY <1>1, <1>2 DEF Hellos
  <2>2. rep' = rep /\ toHost' = toHost
      BY <1>1
  <2> QED
      BY <1>6, <1>7, <2>1, <2>2 DEF Answers
<1>11. AnswersItsHello'
    BY <1>1, <1>6 DEF AnswersItsHello
<1>12. \A x \in ToSet(toRep') : x \in ToSet(toRep) \/ x.epoch \in {0, host.epoch}
    BY <1>3, <1>5
<1>13. Numbered' /\ Pieces' /\ OneFile'
    BY <1>1, <1>5, <1>6, <1>7, <1>12, TellsOnly
<1> QED
    BY <1>8, <1>9, <1>10, <1>11, <1>13

\* The ping tells nothing of the handshake.
LEMMA PingInv == ASSUME Inv, Ping PROVE Inv'
<1> USE DEF Inv
<1> DEFINE m == [kind |-> "ping", s |-> host.session, req |-> 0, epoch |-> 0, seq |-> 0]
<1>0. host \in HostT /\ toRep \in Seq(Question)
    BY DEF Shape
<1>1. m \in Question /\ m.s = host.session /\ m.kind = "ping" /\ m.epoch = 0
    BY <1>0 DEF Question, HostT
<1>2. SendControl(m) /\ UNCHANGED <<host, io, rep, up, ev, toHost, cold, count>>
    BY DEF Ping
<1> HIDE DEF m
<1>3. toRep' \in Seq(Question) /\ ToSet(toRep') \subseteq ToSet(toRep) \cup {m}
    BY <1>0, <1>1, <1>2, Sent
<1>4. Shape'
    BY <1>2, <1>3 DEF Shape
<1>5. Hellos'
    BY <1>1, <1>2, <1>3 DEF Hellos
<1>6. Answers' /\ AnswersItsHello'
    BY <1>2 DEF Answers, AnswersItsHello, Knows
<1>7. \A x \in ToSet(toRep') : x \in ToSet(toRep) \/ x.epoch \in {0, host.epoch}
    BY <1>1, <1>3
<1>8. Numbered' /\ Pieces' /\ OneFile'
    BY <1>2, <1>3, <1>7, TellsOnly
<1> QED
    BY <1>4, <1>5, <1>6, <1>8

\* A session stops.
LEMMA StopInv == ASSUME Inv, Stop PROVE Inv'
<1> USE DEF Inv
<1> DEFINE m == [kind |-> "goodbye", s |-> host.session, req |-> 0, epoch |-> 0, seq |-> 0]
<1>0. host \in HostT /\ toRep \in Seq(Question) /\ rep \in RepT /\ rep.epoch \in Nat
    BY DEF Shape, RepT
<1>1. m \in Question /\ m.epoch = 0
    BY <1>0 DEF Question, HostT
<1>2. SendControl(m) /\ UNCHANGED <<rep, up, toHost, cold, count>> /\ ev' = <<>>
    BY DEF Stop
<1>3. host' = [HostOff EXCEPT !.session = host.session] /\ io' = IoFresh(FALSE)
    BY DEF Stop
<1> HIDE DEF m
<1>4. toRep' \in Seq(Question) /\ ToSet(toRep') \subseteq ToSet(toRep) \cup {m}
    BY <1>0, <1>1, <1>2, Sent
<1>5. host' \in HostT /\ ~host'.on /\ host'.req = 0 /\ host'.peer = 0 /\ host'.session = host.session
      /\ host'.epoch = 0
  <2>1. HostOff \in HostT /\ ~HostOff.on /\ HostOff.req = 0 /\ HostOff.peer = 0 /\ HostOff.epoch = 0
      BY Fresh
  <2>2. host.session \in Nat
      BY <1>0 DEF HostT
  <2> QED
      BY <1>3, <2>1, <2>2 DEF HostT
<1>6. io' \in IoT /\ io'.slot = <<>>
    BY <1>3, Fresh
<1>7. Shape'
    BY <1>2, <1>4, <1>5, <1>6, EmptyLanes DEF Shape
<1>8. Hellos' /\ AnswersItsHello'
    BY <1>5 DEF Hellos, AnswersItsHello
<1>9. Answers'
    BY <1>0, <1>2, <1>5, <1>6 DEF Answers
<1>10. Numbered' /\ Pieces' /\ OneFile'
  <2>1. \A x \in ToSet(toRep') : x \in ToSet(toRep) \/ x.epoch \in {0, host.epoch}
      BY <1>1, <1>4
  <2> QED
      BY <1>2, <1>4, <1>5, <2>1, TellsOnly
<1> QED
    BY <1>7, <1>8, <1>9, <1>10

\* A session starts with nothing of an earlier one under way to the replica, and no reply to it;
\* the replica, with pieces of an earlier file or not, has not been told its epoch.
LEMMA StartInv == ASSUME Inv, ~Overlap, Start PROVE Inv'
<1> USE DEF Inv
<1>0. /\ host \in HostT /\ toHost \in Seq(Response) /\ rep \in RepT /\ rep.epoch \in Nat
      /\ count \in [DOMAIN Limit -> Nat] /\ "session" \in DOMAIN Limit /\ up \in BOOLEAN
    BY DEF Shape, RepT, Limit
<1>1. /\ toRep = <<>> /\ cold = <<>> /\ Use("session") /\ UNCHANGED <<rep, up, ev, toRep, cold>>
      /\ io' = IoFresh(up) /\ toHost' = Waiting
    BY DEF Start, Quiet
<1> DEFINE n == host.session + 1
           e == count["session"] + count["arm"] + 1
           h == [HostOff EXCEPT !.on = TRUE, !.session = n, !.epoch = e]
           a == Arm(h, FALSE)
<1>2. host' = a
    BY DEF Start
<1>3. n \in Nat /\ e \in Nat /\ e = Epoch + 1 /\ Epoch \in Nat
    BY <1>0, SMTT(30) DEF HostT, Limit, Epoch
<1> HIDE DEF n, e
<1>4. h \in HostT /\ h.on /\ ~h.armed /\ h.session = n /\ h.peer = 0 /\ h.epoch = e /\ h.out = 0
  <2>1. HostOff \in HostT /\ ~HostOff.armed /\ HostOff.peer = 0 /\ HostOff.out = 0
      BY Fresh
  <2> QED
      BY <1>3, <2>1 DEF HostT
<1> HIDE DEF h
<1>5. a \in HostT /\ a.on /\ a.session = n /\ a.peer = 0 /\ a.armed /\ a.req = 0 /\ a.epoch = e /\ a.out = 0
    BY <1>0, <1>4, ArmHost
<1> HIDE DEF a
<1>6. io' \in IoT /\ io'.slot = <<>> /\ count' \in [DOMAIN Limit -> Nat] /\ Epoch' = Epoch + 1
    BY <1>0, <1>1, Fresh, UseTypes
<1>7. toHost' \in Seq(Response) /\ \A m \in ToSet(toHost') : m.kind = "pong"
  <2> DEFINE pongs == {m \in ToSet(toHost) : m.kind = "pong"}
  <2>1. CASE pongs = {}
    <3>1. toHost' = <<>>
        BY <1>1, <2>1 DEF Waiting
    <3> QED
        BY <3>1, SetEmpty, EmptyLanes
  <2>2. CASE pongs # {}
    <3>1. PICK p \in pongs : toHost' = <<p>>
        BY <1>1, <2>2 DEF Waiting
    <3>2. p \in Response /\ p.kind = "pong"
        BY <1>0, <3>1, SetFinite
    <3>3. <<p>> \in Seq(Response) /\ ToSet(<<p>>) = {p}
        BY <3>2 DEF ToSet
    <3> QED
        BY <3>1, <3>2, <3>3
  <2> QED
      BY <2>1, <2>2
<1>8. Shape'
    BY <1>1, <1>2, <1>5, <1>6, <1>7 DEF Shape
<1>9. ToSet(toRep') = {} /\ ToSet(cold') = {}
    BY <1>1, SetEmpty
<1>10. Hellos' /\ AnswersItsHello'
    BY <1>2, <1>5, <1>7, <1>9 DEF Hellos, AnswersItsHello
<1>11. Answers'
    BY <1>0, <1>1, <1>2, <1>5, <1>6, <1>7 DEF Answers
<1>12. OneFile'
    BY <1>1, <1>9 DEF OneFile
<1>13. /\ (\A t \in rep.told : t \in Nat /\ t <= Epoch) /\ rep.peer \in rep.told \cup {0}
    BY <1>0 DEF Numbered, RepT
<1>14. Numbered'
    BY <1>1, <1>2, <1>3, <1>5, <1>6, <1>9, <1>13 DEF Numbered
<1>15. Pieces'
  <2>1. CASE rep.parts = {}
      BY <1>1, <2>1 DEF Pieces
  <2>2. CASE rep.parts # {}
    <3>1. e \notin rep.told
        BY <1>3, <1>13
    <3>2. Untold'
        BY <1>1, <1>2, <1>5, <1>6, <1>7, <2>2, <3>1 DEF Untold, OneFile
    <3> QED
        BY <3>2 DEF Pieces
  <2> QED
      BY <2>1, <2>2
<1> QED
    BY <1>8, <1>10, <1>11, <1>12, <1>14, <1>15

\* One more chunk of the file goes out.
LEMMA FlushInv == ASSUME Inv, FlushChunk PROVE Inv'
<1> USE DEF Inv
<1>0. host \in HostT /\ cold \in Seq(Chunk)
    BY DEF Shape
<1> DEFINE c == [file |-> <<host.session, host.boot>>, id |-> BlobId(host), i |-> Chunks - host.out, seq |-> host.seq + 1]
           q == host.seq + 1
           o == host.out - 1
           g == host.grace \/ host.out = 1
<1>1. (cold' = cold \/ cold' = Append(cold, c)) /\ UNCHANGED <<io, rep, up, ev, toRep, toHost, count>>
    BY DEF FlushChunk
<1>2. host' = [host EXCEPT !.seq = q, !.out = o, !.grace = g]
    BY DEF FlushChunk
<1>3. c \in Chunk /\ Mine(c)
    BY <1>0, PairingAssumption, SMTT(30) DEF Chunk, Mine, BlobId, HostT
<1>4. q \in Nat /\ o \in Int /\ g \in BOOLEAN
    BY <1>0 DEF HostT
<1> HIDE DEF c, q, o, g
<1>5. /\ host' \in HostT /\ host'.on = host.on /\ host'.session = host.session /\ host'.peer = host.peer
      /\ host'.armed = host.armed /\ host'.epoch = host.epoch /\ host'.req = host.req
    BY <1>0, <1>2, <1>4 DEF HostT
<1>50. ~Untold
    BY <1>0 DEF Untold, FlushChunk, HostT
<1>6. cold' \in Seq(Chunk) /\ ToSet(cold') \subseteq ToSet(cold) \cup {c}
  <2>1. Append(cold, c) \in Seq(Chunk) /\ ToSet(Append(cold, c)) = ToSet(cold) \cup {c}
      BY <1>0, <1>3, SetAppend
  <2> QED
      BY <1>0, <1>1, <2>1, Zenon
<1>7. Shape'
    BY <1>1, <1>5, <1>6 DEF Shape
<1>8. Hellos' /\ Answers' /\ AnswersItsHello'
    BY <1>1, <1>5 DEF Hellos, Answers, AnswersItsHello, Knows
<1>9. OneFile'
    BY <1>1, <1>3, <1>5, <1>6 DEF OneFile, Mine
<1>10. Numbered'
    BY <1>1, <1>5, SameCount DEF Numbered, Shape
<1>11. Pieces'
    BY <1>1, <1>5, <1>50 DEF Pieces, Mine
<1> QED
    BY <1>7, <1>8, <1>9, <1>10, <1>11

\* A reply is taken for the request that waits only if it has its id.
LEMMA TakeControlInv == ASSUME Inv, TakeControl PROVE Inv'
<1> USE DEF Inv
<1>0. io \in IoT /\ toHost \in Seq(Response)
    BY DEF Shape
<1>1. toHost # <<>> /\ toHost' = Tail(toHost) /\ UNCHANGED <<host, rep, up, ev, toRep, cold, count>> /\ host.on
    BY DEF TakeControl
<1> DEFINE m == Head(toHost)
<1>2. toHost' \in Seq(Response) /\ m \in Response /\ m \in ToSet(toHost) /\ ToSet(toHost') \subseteq ToSet(toHost)
    BY <1>0, <1>1, SetTail
<1>3. \/ io' = [io EXCEPT !.pong = TRUE, !.status = m.status]
      \/ m.kind = "reply" /\ m.req = host.req /\ host.req # 0 /\ io' = [io EXCEPT !.slot = <<[ok |-> m.ok, epoch |-> m.epoch]>>]
      \/ io' = io
    BY DEF TakeControl
<1> HIDE DEF m
<1>4. io' \in IoT /\ \/ io'.slot = io.slot
                     \/ /\ m.kind = "reply" /\ m.req = host.req /\ host.req # 0
                        /\ io'.slot = <<[ok |-> m.ok, epoch |-> m.epoch]>>
  <2>1. CASE io' = [io EXCEPT !.pong = TRUE, !.status = m.status]
      BY <1>0, <1>2, <2>1 DEF IoT, Response
  <2>2. CASE /\ m.kind = "reply" /\ m.req = host.req /\ host.req # 0
             /\ io' = [io EXCEPT !.slot = <<[ok |-> m.ok, epoch |-> m.epoch]>>]
    <3>1. [ok |-> m.ok, epoch |-> m.epoch] \in Answer
        BY <1>2 DEF Response, Answer
    <3>2. <<[ok |-> m.ok, epoch |-> m.epoch]>> \in Seq(Answer)
        BY <3>1
    <3> QED
        BY <1>0, <2>2, <3>2, SlotCleared
  <2> QED
      BY <1>0, <1>3, <2>1, <2>2
<1>5. Shape'
    BY <1>1, <1>2, <1>4 DEF Shape
<1>6. Hellos' /\ AnswersItsHello'
    BY <1>1, <1>2 DEF Hellos, AnswersItsHello
<1>60. Numbered' /\ Pieces' /\ OneFile'
  <2>1. \/ io'.slot = io.slot
        \/ \E x \in ToSet(toHost) : x.kind = "reply" /\ io'.slot = <<[ok |-> x.ok, epoch |-> x.epoch]>>
      BY <1>2, <1>4
  <2>2. toRep' \in Seq(Question)
      BY <1>1 DEF Shape
  <2> QED
      BY <1>1, <1>2, <2>1, <2>2, TellsOnly
<1>7. Answers'
  <2>1. CASE io'.slot = io.slot
      BY <1>1, <1>2, <2>1 DEF Answers, Knows
  <2>2. CASE /\ m.kind = "reply" /\ m.req = host.req /\ host.req # 0
             /\ io'.slot = <<[ok |-> m.ok, epoch |-> m.epoch]>>
    <3>1. io'.slot # <<>> /\ io'.slot[1].ok = m.ok /\ io'.slot[1].epoch = m.epoch
        BY <2>2
    <3>2. m.epoch <= rep.epoch /\ (m.ok => Knows(m.epoch))
        BY <1>1, <1>2, <2>2 DEF Answers
    <3> QED
        BY <1>1, <1>2, <3>1, <3>2 DEF Answers, Knows
  <2> QED
      BY <1>4, <2>1, <2>2
<1> QED
    BY <1>5, <1>6, <1>60, <1>7

-----------------------------------------------------------------------------
(* The replica's IO thread.                                                *)

\* A reply sent, or lost where there is no connection.
LEMMA Replied ==
    ASSUME toHost \in Seq(Response), NEW m \in Response, Reply(m)
    PROVE  toHost' \in Seq(Response) /\ ToSet(toHost') \subseteq ToSet(toHost) \cup {m}
<1>1. toHost' = toHost \/ toHost' = Append(toHost, m)
    BY DEF Reply
<1>2. Append(toHost, m) \in Seq(Response) /\ ToSet(Append(toHost, m)) = ToSet(toHost) \cup {m}
    BY SetAppend
<1> QED
    BY <1>1, <1>2, Zenon

\* An answer that says ok comes from a process that has just been told what the hello said.
LEMMA ServeInv == ASSUME Inv, Serve PROVE Inv'
<1> USE DEF Inv
<1>0. toRep \in Seq(Question) /\ toHost \in Seq(Response) /\ rep \in RepT /\ rep.epoch \in Nat /\ host \in HostT
    BY DEF Shape, RepT
<1>1. toRep # <<>> /\ toRep' = Tail(toRep) /\ UNCHANGED <<host, io, up, ev, cold, count>>
    BY DEF Serve
<1> DEFINE m == Head(toRep)
<1>2. toRep' \in Seq(Question) /\ m \in Question /\ m \in ToSet(toRep) /\ ToSet(toRep') \subseteq ToSet(toRep)
    BY <1>0, <1>1, SetTail
<1>3. \/ m.kind = "hello" /\ TakeHello(m)
      \/ m.kind = "ping" /\ TakePing(m)
      \/ m.kind = "goodbye" /\ TakeGoodbye(m)
    BY DEF Serve
<1> HIDE DEF m
<1>4. /\ rep' \in RepT /\ rep'.here = rep.here /\ rep'.epoch = rep.epoch /\ rep.told \subseteq rep'.told
      /\ rep'.parts = rep.parts /\ rep'.pending = rep.pending /\ rep'.holds = rep.holds
      /\ m.kind = "hello" /\ rep.mirrored => m.epoch \in rep'.told
      /\ rep'.peer \in rep'.told \cup {0} /\ rep'.told \subseteq rep.told \cup {m.epoch}
      /\ rep.new => rep'.new
      /\ rep'.new \/ rep'.told \subseteq rep.told \cup {0}
  <2>0. rep.peer \in rep.told \cup {0}
      BY DEF Numbered
  <2>1. CASE m.kind = "hello" /\ TakeHello(m)
    <3>1. CASE ~rep.mirrored
      <4>1. rep' = rep
          BY <2>1, <3>1 DEF TakeHello
      <4> QED
          BY <1>0, <2>0, <3>1, <4>1
    <3>2. CASE rep.mirrored
      <4> DEFINE t == rep.told \cup {m.epoch}
                 w == rep.new \/ rep.peer # m.epoch
                 b == IF rep.peer # m.epoch THEN m.seq ELSE rep.base
      <4>1. rep' = [rep EXCEPT !.peer = m.epoch, !.told = t, !.new = w, !.base = b]
          BY <2>1, <3>2 DEF TakeHello
      <4>2. m.epoch \in Nat /\ t \in SUBSET Nat /\ w \in BOOLEAN /\ b \in Nat
          BY <1>0, <1>2 DEF RepT, Question
      <4>3. /\ rep.told \subseteq t /\ m.epoch \in t /\ t \subseteq rep.told \cup {m.epoch}
            /\ (rep.new => w) /\ (w \/ t \subseteq rep.told \cup {0})
          BY <2>0
      <4> HIDE DEF t, w, b
      <4>4. /\ rep' \in RepT /\ rep'.here = rep.here /\ rep'.epoch = rep.epoch /\ rep'.told = t
            /\ rep'.parts = rep.parts /\ rep'.pending = rep.pending /\ rep'.holds = rep.holds
            /\ rep'.peer = m.epoch /\ rep'.new = w
          BY <1>0, <4>1, <4>2 DEF RepT
      <4> QED
          BY <4>3, <4>4
    <3> QED
        BY <3>1, <3>2
  <2>2. CASE m.kind = "ping" /\ TakePing(m)
      BY <1>0, <2>0, <2>2 DEF TakePing
  <2>3. CASE m.kind = "goodbye" /\ TakeGoodbye(m)
      BY <1>0, <2>0, <2>3 DEF TakeGoodbye, RepT
  <2> QED
      BY <1>3, <2>1, <2>2, <2>3
<1>5. /\ toHost' \in Seq(Response)
      /\ \A x \in ToSet(toHost') : \/ x \in ToSet(toHost)
                                   \/ x.kind = "pong"
                                   \/ /\ m.kind = "hello" /\ x.s = m.s /\ x.req = m.req
                                      /\ x.ok = rep.mirrored /\ x.epoch = rep.epoch
  <2>1. CASE m.kind = "hello" /\ TakeHello(m)
    <3> DEFINE x == [kind |-> "reply", s |-> m.s, req |-> m.req, ok |-> rep.mirrored, epoch |-> rep.epoch, status |-> NoStatus]
    <3>1. x \in Response
        BY <1>0, <1>2 DEF Response, Question, RepT, Status, NoStatus
    <3>2. Reply(x)
        BY <2>1 DEF TakeHello
    <3>3. toHost' \in Seq(Response) /\ ToSet(toHost') \subseteq ToSet(toHost) \cup {x}
        BY <1>0, <3>1, <3>2, Replied
    <3> QED
        BY <2>1, <3>3
  <2>2. CASE m.kind = "ping" /\ TakePing(m)
    <3> DEFINE x == [kind |-> "pong", s |-> m.s, req |-> 0, ok |-> TRUE, epoch |-> 0,
                     status |-> [epoch |-> rep.epoch, want |-> rep.want, boots |-> rep.boots]]
    <3>1. x \in Response
        BY <1>0, <1>2 DEF Response, Question, RepT, Status
    <3>2. Reply(x)
        BY <2>2 DEF TakePing
    <3>3. toHost' \in Seq(Response) /\ ToSet(toHost') \subseteq ToSet(toHost) \cup {x}
        BY <1>0, <3>1, <3>2, Replied
    <3> QED
        BY <3>3
  <2>3. CASE m.kind = "goodbye" /\ TakeGoodbye(m)
      BY <1>0, <2>3 DEF TakeGoodbye
  <2> QED
      BY <1>3, <2>1, <2>2, <2>3
<1>6. Shape'
    BY <1>1, <1>2, <1>4, <1>5 DEF Shape
<1>7. Hellos'
    BY <1>1, <1>2, <1>5 DEF Hellos
<1>8. AnswersItsHello' /\ OneFile'
    BY <1>1, <1>4 DEF AnswersItsHello, OneFile, Mine
<1>80. Numbered'
  <2>1. Epoch' = Epoch /\ m.epoch <= Epoch
      BY <1>1, <1>2, SameCount DEF Numbered, Shape
  <2>2. (\A e \in rep'.told : e <= Epoch') /\ rep'.peer \in rep'.told \cup {0}
      BY <1>4, <2>1 DEF Numbered
  <2> QED
      BY <1>1, <1>2, <2>1, <2>2 DEF Numbered
<1>81. Pieces'
  <2>1. CASE rep'.new
      BY <2>1 DEF Pieces
  <2>2. CASE \A c \in rep.parts : Mine(c)
      BY <1>1, <1>4, <2>2 DEF Pieces, Mine
  <2>3. CASE ~rep'.new /\ Untold
    <3>1. host.on => host.epoch \notin rep'.told
        BY <1>4, <2>3 DEF Untold, Numbered
    <3>2. host.on => \A x \in ToSet(toHost') : x.kind = "reply" => x.epoch = rep'.epoch
        BY <1>4, <1>5, <2>3 DEF Untold
    <3>3. Untold'
        BY <1>1, <1>4, <2>3, <3>1, <3>2 DEF Untold
    <3> QED
        BY <3>3 DEF Pieces
  <2> QED
      BY <1>4, <2>1, <2>2, <2>3 DEF Pieces
<1>9. Answers'
  <2>1. \A e : Knows(e) => Knows(e)'
      BY <1>1, <1>4 DEF Knows
  <2>2. host.on /\ host.req # 0 /\ m.kind = "hello" /\ m.req = host.req => m.epoch = host.epoch
      BY <1>2 DEF Hellos
  <2>3. ASSUME host.on, host.req # 0, NEW x \in ToSet(toHost'), x.kind = "reply", x.req = host.req, x.ok
        PROVE  Knows(x.epoch)'
    <3>1. CASE x \in ToSet(toHost)
        BY <2>1, <2>3, <3>1 DEF Answers
    <3>2. CASE m.kind = "hello" /\ x.s = m.s /\ x.req = m.req /\ x.ok = rep.mirrored /\ x.epoch = rep.epoch
        BY <1>1, <1>4, <2>2, <2>3, <3>2 DEF Knows
    <3> QED
        BY <1>5, <2>3, <3>1, <3>2
  <2>4. \A x \in ToSet(toHost') : x.kind = "reply" => x.epoch <= rep'.epoch
      BY <1>0, <1>4, <1>5 DEF Answers
  <2>5. host' = host /\ io' = io
      BY <1>1
  <2>6. io.slot # <<>> => io.slot[1].epoch <= rep'.epoch
      BY <1>4 DEF Answers
  <2>7. host.on /\ host.req # 0 => (io.slot # <<>> /\ io.slot[1].ok => Knows(io.slot[1].epoch)')
      BY <2>1, <2>5 DEF Answers
  <2>8. host.peer <= rep'.epoch
      BY <1>4 DEF Answers
  <2> QED
      BY <2>3, <2>4, <2>5, <2>6, <2>7, <2>8 DEF Answers
<1> QED
    BY <1>6, <1>7, <1>8, <1>80, <1>81, <1>9

-----------------------------------------------------------------------------
(* The replica's main thread.                                              *)

\* r is rep at some point of a tick: the same process, told the same, and whole in its files.
Midway(r) ==
    /\ r \in RepT /\ r.here = rep.here /\ r.epoch = rep.epoch /\ r.told = rep.told /\ r.peer = rep.peer
    /\ (\A c \in r.parts : Mine(c)) \/ r.new \/ Untold
    /\ \A c, d \in r.parts : c.id = d.id /\ c.file = d.file
    /\ \A x, y \in r.pending : x = y
    /\ \A x, y \in r.holds : x = y

\* What each handler of the replica's tick leaves of its state.
LEMMA MidwayHandlers ==
    ASSUME NEW r, Midway(r)
    PROVE  /\ Midway(HandleGoodbye(r))
           /\ Midway(HandleNewSession(r)) /\ ~HandleNewSession(r).new
           /\ Midway(ApplyFile(r)) /\ ApplyFile(r).new = r.new
           /\ \A q \in Nat : Midway(Observe(r, q)) /\ Observe(r, q).new = r.new
<1> USE DEF Midway
<1>1. Midway(HandleGoodbye(r))
  <2> DEFINE t == [r EXCEPT !.bye = FALSE, !.ended = TRUE]
  <2>1. /\ t \in RepT /\ t.here = r.here /\ t.epoch = r.epoch /\ t.told = r.told /\ t.peer = r.peer
        /\ t.parts = r.parts /\ t.pending = r.pending /\ t.holds = r.holds /\ t.new = r.new
      BY DEF RepT
  <2>2. HandleGoodbye(r) = IF r.bye THEN t ELSE r
      BY DEF HandleGoodbye
  <2> HIDE DEF t
  <2> QED
      BY <2>1, <2>2
<1>2. Midway(HandleNewSession(r)) /\ ~HandleNewSession(r).new
  <2> DEFINE b == r.base
             t == [r EXCEPT !.new = FALSE, !.last = b, !.parts = {}, !.want = FALSE]
  <2>0. b \in Int
      BY DEF RepT
  <2>2. HandleNewSession(r) = IF r.new THEN t ELSE r
      BY DEF HandleNewSession
  <2> HIDE DEF b
  <2>1. /\ t \in RepT /\ t.here = r.here /\ t.epoch = r.epoch /\ t.told = r.told /\ t.peer = r.peer
        /\ t.parts = {} /\ t.pending = r.pending /\ t.holds = r.holds /\ ~t.new
      BY <2>0 DEF RepT
  <2> HIDE DEF t
  <2> QED
      BY <2>1, <2>2
<1>3. Midway(ApplyFile(r)) /\ ApplyFile(r).new = r.new
  <2> DEFINE b == r.boots + 1
             t == [r EXCEPT !.pending = {}, !.holds = r.pending, !.boots = b, !.want = FALSE, !.ended = FALSE]
  <2>1. b \in Nat
      BY DEF RepT
  <2>2. ApplyFile(r) = IF r.pending # {} THEN t ELSE r
      BY DEF ApplyFile
  <2> HIDE DEF b
  <2>3. /\ t \in RepT /\ t.here = r.here /\ t.epoch = r.epoch /\ t.told = r.told /\ t.peer = r.peer
        /\ t.parts = r.parts /\ t.pending = {} /\ t.holds = r.pending /\ t.new = r.new
      BY <2>1 DEF RepT
  <2> HIDE DEF t
  <2> QED
      BY <2>2, <2>3
<1>4. ASSUME NEW q \in Nat PROVE Midway(Observe(r, q)) /\ Observe(r, q).new = r.new
  <2> DEFINE w == r.want \/ (r.last # NoSeq /\ q # r.last + 1)
             l == IF r.last = NoSeq \/ q > r.last THEN q ELSE r.last
             t == [r EXCEPT !.want = w, !.last = l]
  <2>1. w \in BOOLEAN /\ l \in Int
      BY DEF RepT
  <2>2. Observe(r, q) = t
      BY DEF Observe
  <2> HIDE DEF w, l
  <2>3. /\ t \in RepT /\ t.here = r.here /\ t.epoch = r.epoch /\ t.told = r.told /\ t.peer = r.peer
        /\ t.parts = r.parts /\ t.pending = r.pending /\ t.holds = r.holds /\ t.new = r.new
      BY <2>1 DEF RepT
  <2> HIDE DEF t
  <2> QED
      BY <2>2, <2>3
<1> QED
    BY <1>1, <1>2, <1>3, <1>4

\* Reassembler.feed, when every part is of this session: those kept are of one blob, so of one file.
LEMMA MidwayFeed ==
    ASSUME NEW r, Midway(r), \A c \in r.parts : Mine(c), NEW f \in Chunk, Mine(f)
    PROVE  Midway(Feed(r, f))
<1> DEFINE parts == {p \in r.parts : p.id = f.id /\ p.i # f.i} \cup {f}
           files == {p.file : p \in parts}
           t == [r EXCEPT !.parts = parts]
           u == [r EXCEPT !.parts = {}, !.pending = files]
<1>1. parts \in SUBSET Chunk /\ (\A p \in parts : Mine(p)) /\ \A p, q \in parts : p.id = q.id
    BY DEF Midway, RepT
<1>10. \A p, q \in parts : p.id = q.id /\ p.file = q.file
    BY <1>1 DEF Mine
<1>2. files \in SUBSET (Nat \X Nat) /\ \A x, y \in files : x = y
  <2>1. \A p \in parts : p.file \in Nat \X Nat /\ p.file = <<host.session, f.id[1]>>
      BY <1>1 DEF Mine, Chunk
  <2> HIDE DEF parts
  <2> QED
      BY <2>1
<1>3. Feed(r, f) = t \/ Feed(r, f) = u
    BY DEF Feed
<1> HIDE DEF parts, files
<1>4. /\ t \in RepT /\ t.here = r.here /\ t.epoch = r.epoch /\ t.told = r.told /\ t.peer = r.peer
      /\ t.parts = parts /\ t.pending = r.pending /\ t.holds = r.holds
    BY <1>1 DEF RepT, Midway
<1>5. /\ u \in RepT /\ u.here = r.here /\ u.epoch = r.epoch /\ u.told = r.told /\ u.peer = r.peer
      /\ u.parts = {} /\ u.pending = files /\ u.holds = r.holds
    BY <1>2 DEF RepT, Midway
<1> HIDE DEF t, u
<1> QED
    BY <1>1, <1>10, <1>2, <1>3, <1>4, <1>5 DEF Midway

\* The replica's tick: goodbye, new session, file, cold chunks.
LEMMA TickInv == ASSUME Inv, Tick PROVE Inv'
<1> USE DEF Inv
<1>0. rep \in RepT /\ cold \in Seq(Chunk)
    BY DEF Shape
<1> DEFINE r == ApplyFile(HandleNewSession(HandleGoodbye(rep)))
<1>1. UNCHANGED <<host, io, up, ev, toRep, toHost, count>>
    BY DEF Tick
<1>20. rep.here
    BY DEF Tick
<1>2. \/ cold # <<>> /\ cold' = Tail(cold) /\ rep' = Feed(Observe(r, Head(cold).seq), Head(cold))
      \/ rep' = r /\ cold' = cold
    BY DEF Tick
<1>3. Midway(rep)
    BY <1>0 DEF Midway, OneFile, Pieces
<1>4. Midway(r) /\ ~r.new
    BY <1>3, MidwayHandlers
<1> HIDE DEF r
<1>5. Midway(rep') /\ cold' \in Seq(Chunk) /\ ToSet(cold') \subseteq ToSet(cold)
  <2>1. CASE cold # <<>> /\ cold' = Tail(cold) /\ rep' = Feed(Observe(r, Head(cold).seq), Head(cold))
    <3> DEFINE f == Head(cold)
    <3>1. cold' \in Seq(Chunk) /\ f \in Chunk /\ f \in ToSet(cold) /\ ToSet(cold') \subseteq ToSet(cold)
        BY <1>0, <2>1, SetTail
    <3>2. Mine(f) /\ f.seq \in Nat
        BY <3>1 DEF OneFile, Chunk
    <3>3. rep' = Feed(Observe(r, f.seq), f)
        BY <2>1
    <3> HIDE DEF f
    <3> DEFINE o == Observe(r, f.seq)
    <3>4. Midway(o) /\ ~o.new
        BY <1>4, <3>2, MidwayHandlers
    <3>40. \A c \in o.parts : Mine(c)
        BY <2>1, <3>4 DEF Midway, Untold
    <3> HIDE DEF o
    <3>5. Midway(Feed(o, f))
        BY <3>1, <3>2, <3>4, <3>40, MidwayFeed
    <3> QED
        BY <3>1, <3>3, <3>5 DEF o
  <2>2. CASE rep' = r /\ cold' = cold
      BY <1>0, <1>4, <2>2
  <2> QED
      BY <1>2, <2>1, <2>2
<1>6. /\ rep' \in RepT /\ rep'.here = rep.here /\ rep'.epoch = rep.epoch /\ rep'.told = rep.told
      /\ rep'.peer = rep.peer
    BY <1>5 DEF Midway
<1>7. Shape'
    BY <1>1, <1>5, <1>6 DEF Shape
<1>8. Hellos' /\ Answers' /\ AnswersItsHello'
    BY <1>1, <1>6 DEF Hellos, Answers, AnswersItsHello, Knows
<1>9. OneFile'
  <2>1. rep'.parts # {} => rep'.here
      BY <1>6, <1>20
  <2> QED
      BY <1>1, <1>5, <2>1 DEF OneFile, Midway, Mine
<1>10. Numbered'
    BY <1>1, <1>6, SameCount DEF Numbered, Shape
<1>11. Pieces'
  <2>1. CASE (\A c \in rep'.parts : Mine(c)) \/ rep'.new
      BY <1>1, <2>1 DEF Pieces, Mine
  <2>2. CASE Untold
    <3>1. cold' = cold
        BY <1>2, <2>2 DEF Untold
    <3>2. Untold'
        BY <1>1, <1>6, <2>2, <3>1 DEF Untold
    <3> QED
        BY <3>2 DEF Pieces
  <2> QED
      BY <1>5, <2>1, <2>2 DEF Midway
<1> QED
    BY <1>7, <1>8, <1>9, <1>10, <1>11

\* The agent's settings reach the addon.
LEMMA MirrorInv == ASSUME Inv, Mirror PROVE Inv'
<1> USE DEF Inv
<1>0. rep \in RepT
    BY DEF Shape
<1>1. UNCHANGED <<host, io, up, ev, toRep, toHost, cold, count>> /\ rep' = [rep EXCEPT !.mirrored = TRUE]
    BY DEF Mirror
<1>2. /\ rep' \in RepT /\ rep'.here = rep.here /\ rep'.epoch = rep.epoch /\ rep'.told = rep.told
      /\ rep'.parts = rep.parts /\ rep'.pending = rep.pending /\ rep'.holds = rep.holds
      /\ rep'.peer = rep.peer /\ rep'.new = rep.new
    BY <1>0, <1>1 DEF RepT
<1>3. Shape'
    BY <1>1, <1>2 DEF Shape
<1>4. Hellos' /\ Answers' /\ AnswersItsHello'
    BY <1>1, <1>2 DEF Hellos, Answers, AnswersItsHello, Knows
<1>5. OneFile'
    BY <1>1, <1>2 DEF OneFile, Mine
<1>6. Numbered'
    BY <1>1, <1>2, SameCount DEF Numbered, Shape
<1>7. Pieces'
    BY <1>1, <1>2 DEF Pieces, Untold, Mine
<1> QED
    BY <1>3, <1>4, <1>5, <1>6, <1>7

-----------------------------------------------------------------------------
(* Faults.                                                                 *)

\* What is at most the newest epoch stays so.
LEMMA Later ==
    ASSUME Shape, Numbered, count' \in [DOMAIN Limit -> Nat], Epoch <= Epoch'
    PROVE  /\ host.epoch <= Epoch'
           /\ \A m \in ToSet(toRep) : m.epoch <= Epoch'
           /\ \A e \in rep.told : e <= Epoch'
<1>1. Epoch \in Nat /\ host.epoch \in Nat /\ rep.told \subseteq Nat
    BY SameCount DEF Shape, HostT, RepT
<1>2. Epoch' \in Nat
  <2>1. count'["session"] \in Nat /\ count'["arm"] \in Nat
      BY DEF Limit
  <2> QED
      BY <2>1 DEF Epoch
<1>3. \A m \in ToSet(toRep) : m.epoch \in Nat
  <2>1. ToSet(toRep) \subseteq Question
      BY SetFinite DEF Shape
  <2> QED
      BY <2>1 DEF Question
<1>4. \A m \in ToSet(toRep) : m.epoch <= Epoch'
    BY <1>1, <1>2, <1>3 DEF Numbered
<1>5. \A e \in rep.told : e <= Epoch'
    BY <1>1, <1>2 DEF Numbered
<1> QED
    BY <1>1, <1>2, <1>4, <1>5 DEF Numbered

\* A lane that holds nothing is empty.
LEMMA NoneLeft == ASSUME NEW T, NEW q \in Seq(T), ToSet(q) \subseteq {} PROVE q = <<>>
<1>1. Len(q) = 0
    BY DEF ToSet
<1> QED
    BY <1>1

\* A replica process ends or starts: answers of the one before name an epoch that is past.
LEMMA ReplicaInv == ASSUME Inv, ReplicaEnds \/ ReplicaStarts PROVE Inv'
<1> USE DEF Inv
<1>0. /\ rep \in RepT /\ rep.epoch \in Nat /\ toRep \in Seq(Question) /\ cold \in Seq(Chunk)
      /\ count \in [DOMAIN Limit -> Nat] /\ "fault" \in DOMAIN Limit
      /\ toHost \in Seq(Response) /\ io \in IoT /\ host \in HostT
    BY DEF Shape, RepT, Limit
<1>1. UNCHANGED <<host, io, up, ev, toHost>>
    BY DEF ReplicaEnds, ReplicaStarts
<1>2. count' \in [DOMAIN Limit -> Nat] /\ Epoch <= Epoch' /\ Epoch \in Nat
    BY <1>0, UseTypes, SameCount DEF ReplicaEnds, ReplicaStarts
<1>3. /\ toRep' \in Seq(Question) /\ ToSet(toRep') \subseteq ToSet(toRep)
      /\ cold' \in Seq(Chunk) /\ ToSet(cold') \subseteq ToSet(cold)
  <2>1. CASE ReplicaEnds
      BY <1>0, <2>1, SetPart DEF ReplicaEnds
  <2>2. CASE ReplicaStarts
      BY <1>0, <2>2 DEF ReplicaStarts
  <2> QED
      BY <2>1, <2>2
<1>4. /\ rep' \in RepT /\ rep'.parts = {} /\ rep'.pending = {} /\ rep'.holds = {}
      /\ rep'.told = {} /\ rep'.peer = 0
      /\ rep'.epoch \in Nat /\ ((~rep'.here /\ rep'.epoch = rep.epoch) \/ rep'.epoch = rep.epoch + 1)
  <2>1. CASE ReplicaEnds
    <3> DEFINE f == RepFresh(rep.epoch)
    <3>1. f \in RepT /\ f.epoch = rep.epoch /\ f.parts = {} /\ f.pending = {} /\ f.holds = {} /\ f.told = {} /\ f.peer = 0
        BY <1>0, Fresh
    <3>2. rep' = [f EXCEPT !.here = FALSE]
        BY <2>1 DEF ReplicaEnds
    <3> HIDE DEF f
    <3> QED
        BY <1>0, <3>1, <3>2 DEF RepT
  <2>2. CASE ReplicaStarts
    <3>1. rep.epoch + 1 \in Nat /\ rep' = RepFresh(rep.epoch + 1)
        BY <1>0, <2>2 DEF ReplicaStarts
    <3> QED
        BY <3>1, Fresh
  <2> QED
      BY <2>1, <2>2
<1>5. Shape'
    BY <1>1, <1>2, <1>3, <1>4 DEF Shape
<1>6. Hellos'
    BY <1>1, <1>3 DEF Hellos
<1>7. \A e \in Nat : e <= rep.epoch => e <= rep'.epoch /\ ~(rep'.here /\ e = rep'.epoch)
    BY <1>0, <1>4
<1>8. host.peer \in Nat /\ host.peer <= rep.epoch
    BY <1>0 DEF HostT, Answers
<1>9. \A m \in ToSet(toHost) : m.kind = "reply" => m.epoch \in Nat /\ m.epoch <= rep.epoch
  <2>1. ToSet(toHost) \subseteq Response
      BY <1>0, SetFinite
  <2> QED
      BY <2>1 DEF Response, Answers
<1>10. io.slot # <<>> => io.slot[1].epoch \in Nat /\ io.slot[1].epoch <= rep.epoch
  <2>1. io.slot \in Seq(Answer)
      BY <1>0 DEF IoT
  <2>2. io.slot # <<>> => io.slot[1] \in Answer
      BY <2>1
  <2> QED
      BY <2>2 DEF Answer, Answers
<1>11. Answers'
    BY <1>1, <1>7, <1>8, <1>9, <1>10 DEF Answers, Knows
<1>12. AnswersItsHello'
    BY <1>1, <1>7, <1>8 DEF AnswersItsHello
<1>13. OneFile'
    BY <1>1, <1>3, <1>4 DEF OneFile, Mine
<1>14. Numbered'
    BY <1>1, <1>2, <1>3, <1>4, Later DEF Numbered
<1>15. Pieces'
    BY <1>4 DEF Pieces
<1> QED
    BY <1>5, <1>6, <1>11, <1>12, <1>13, <1>14, <1>15

\* A connection is lost, with what had not reached the other agent.
LEMMA DropInv == ASSUME Inv, Drop PROVE Inv'
<1> USE DEF Inv
<1>0. /\ toRep \in Seq(Question) /\ cold \in Seq(Chunk) /\ ev \in Seq(BOOLEAN)
      /\ count \in [DOMAIN Limit -> Nat] /\ "fault" \in DOMAIN Limit
    BY DEF Shape, Limit
<1>1. host' = host /\ io' = io /\ rep' = rep /\ toHost' = <<>> /\ up' = FALSE
    BY DEF Drop
<1>2. count' \in [DOMAIN Limit -> Nat] /\ Epoch <= Epoch' /\ Epoch \in Nat
    BY <1>0, UseTypes DEF Drop
<1>3. /\ toRep' \in Seq(Question) /\ ToSet(toRep') \subseteq ToSet(toRep)
      /\ cold' \in Seq(Chunk) /\ ToSet(cold') \subseteq ToSet(cold)
  <2>1. toRep' \in PrefixesOf(toRep) /\ cold' \in PrefixesOf(cold)
      BY DEF Drop
  <2> QED
      BY <1>0, <2>1, SetPart
<1>4. ev' \in Seq(BOOLEAN)
  <2>1. ev' = ev \/ ev' = Append(ev, FALSE)
      BY DEF Drop
  <2>2. Append(ev, FALSE) \in Seq(BOOLEAN)
      BY <1>0, SetAppend
  <2> QED
      BY <1>0, <2>1, <2>2, Zenon
<1>5. ToSet(toHost') = {}
    BY <1>1, SetEmpty
<1>6. Shape'
    BY <1>1, <1>2, <1>3, <1>4, EmptyLanes DEF Shape
<1>7. Hellos' /\ AnswersItsHello'
    BY <1>1, <1>3, <1>5 DEF Hellos, AnswersItsHello
<1>8. Answers'
    BY <1>1, <1>5 DEF Answers, Knows
<1>9. OneFile'
    BY <1>1, <1>3 DEF OneFile, Mine
<1>10. Numbered'
    BY <1>1, <1>2, <1>3, Later DEF Numbered
<1>11. Pieces'
  <2>1. cold = <<>> => cold' = <<>>
      BY <1>3, SetEmpty, NoneLeft
  <2> QED
      BY <1>1, <1>5, <2>1 DEF Pieces, Untold, Mine
<1> QED
    BY <1>6, <1>7, <1>8, <1>9, <1>10, <1>11

-----------------------------------------------------------------------------
\* Every step keeps the invariant.
LEMMA NextInv == ASSUME ~Overlap PROVE Inv /\ [Next]_vars => Inv'
<1> SUFFICES ASSUME Inv, [Next]_vars PROVE Inv'
    OBVIOUS
<1>1. CASE UNCHANGED vars
  <2>1. UNCHANGED <<host, io, rep, up, ev, toRep, toHost, cold, count>>
      BY <1>1 DEF vars
  <2> USE DEF Inv
  <2>2. Shape' /\ Hellos' /\ AnswersItsHello'
      BY <2>1 DEF Shape, Hellos, AnswersItsHello
  <2>3. Answers'
      BY <2>1 DEF Answers, Knows
  <2>4. OneFile'
      BY <2>1 DEF OneFile, Mine
  <2>5. Numbered'
      BY <2>1, SameCount DEF Numbered, Shape
  <2>6. Pieces'
      BY <2>1 DEF Pieces, Untold, Mine
  <2> QED
      BY <2>2, <2>3, <2>4, <2>5, <2>6
<1>2. CASE Next
    BY <1>2, SendHelloInv, PairedInv, TimerInv, WatchInv, FlushInv, PingInv, TakeControlInv, ServeInv, TickInv,
       MirrorInv, ReplicaInv, ConnectInv, StartInv, StopInv, DropInv, Zenon DEF Next, HostStep, RepStep
<1> QED
    BY <1>1, <1>2

\* When a session waits for the lanes towards the replica to be empty, the invariant holds
\* throughout, whatever times out, is refused, lost, restarted or superseded.
THEOREM SpecInv == ASSUME ~Overlap PROVE Spec => []Inv
BY InitInv, NextInv, PTL DEF Spec

\* A host that takes itself to be paired with the replica's present process has told it its
\* epoch: no reply is taken for another hello's (poll_reply, cancel_request, _arm_handshake).
THEOREM RepliesMatch == ASSUME ~Overlap PROVE Spec => []AnswersItsHello
<1>1. Inv => AnswersItsHello
    BY DEF Inv
<1> QED
    BY <1>1, SpecInv, PTL

\* What the replica loads is one file, for every number of chunks, files and sessions: blob ids
\* come again with each session, but _handle_new_session drops the pieces of the earlier one before
\* Reassembler.feed sees a chunk of this one.
THEOREM OneFileLoaded == ASSUME ~Overlap PROVE Spec => []FileWhole
<1>1. ASSUME Inv PROVE FileWhole
  <2>1. ASSUME NEW S, \A x, y \in S : x = y PROVE Cardinality(S) <= 1
    <3>1. CASE S = {}
        BY <3>1, FS_EmptySet
    <3>2. CASE S # {}
      <4>1. PICK x \in S : S = {x}
          BY <2>1, <3>2
      <4> QED
          BY <4>1, FS_Singleton
    <3> QED
        BY <3>1, <3>2
  <2> QED
      BY <1>1, <2>1 DEF Inv, OneFile, FileWhole
<1> QED
    BY <1>1, SpecInv, PTL
=============================================================================
