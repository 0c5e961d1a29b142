-------------------------- MODULE PixelPath_proofs --------------------------
(* Proofs about the supervision of the encode helper, for any number of    *)
(* sessions, re-aims, files, pictures and faults, whenever the main thread *)
(* asks for them.                                                          *)
EXTENDS PixelPath, FiniteSetTheorems, TLAPS

Worker == [id : Nat, pc : {"kill", "join", "resolve", "start"}, aim : Nat, ring : Nat, joins : Nat]
Supervisor == [id : Nat, pc : {"top", "run", "dead"}, aim : Nat, ring : Nat, cap : {None, "run", "out"},
               mux : {None, "listen", "view", "out"}, told : BOOLEAN, after : Nat]

\* The types in full, and the two bounds they hang on: the main thread is re-aimed once per
\* counted event, and every ring named anywhere has been made.
Shape ==
    /\ TypeOK
    /\ count \in [DOMAIN Limit -> Nat] /\ main.aim = count["aim"] /\ main.ring <= main.rings
    /\ workers \subseteq Worker /\ \A w \in workers : w.ring <= main.rings
    /\ sups \subseteq Supervisor

\* Inside stop() the main thread has something left to do, and it is there for a session.
MainInside == (main.pc = "idle" <=> main.then = None) /\ (~main.on => main.pc = "idle")

\* Whoever joins has told the supervisor to stop, and nobody has taken that back: the one joined
\* is noted still, or forgotten.  A start() in between is what `crossed` records.
StopHeld ==
    pp.crossed \/ /\ main.pc = "join" => pp.stop
                  /\ \A w \in workers : w.pc = "join" => pp.stop /\ pp.thread \in {0, w.joins}

\* One start() at a time past its look at _thread, and what it saw is so still.
StartHeld ==
    pp.crossed \/ /\ \A w \in workers : w.pc = "start" => pp.thread = 0
                  /\ \A v, w \in workers : v.pc = "start" /\ w.pc = "start" => v = w

\* A supervisor that has not ended is the noted one.
TheNotedOne ==
    /\ \A s \in sups : s.pc # "dead" => s.id = pp.thread
    /\ \A s, t \in sups : s.id = t.id => s = t

\* With no session up, what has not ended was started after the last one.
OnlyLate == ~main.on => \A s \in sups : s.pc = "dead" \/ s.after = count["session"]

Inv == Shape /\ MainInside /\ StopHeld /\ StartHeld /\ TheNotedOne /\ OnlyLate

-----------------------------------------------------------------------------
MainT == [on : BOOLEAN, ended : BOOLEAN, aim : 0..MaxAims, resolving : BOOLEAN, note : BOOLEAN,
          pc : {"idle", "kill", "join"}, then : {None, "goodbye", "engine", "last"},
          ring : Nat, rings : Nat, big : BOOLEAN, shown : Pictures \cup {None},
          hash : Views \cup {NoView}, seen : BOOLEAN, missed : BOOLEAN]
Globals == [stop : BOOLEAN, thread : Nat, ring : Nat, owner : Nat, threads : Nat,
            crossed : BOOLEAN, older : SUBSET {"ring", "aim"}]

\* Children there are exactly in a round.
RoundOK(s) == (s.pc = "run" <=> s.cap # None /\ s.mux # None) /\ (s.pc # "run" <=> s.cap = None /\ s.mux = None)

\* The conjuncts of Shape, one record at a time.
MainShape == main \in MainT /\ main.aim = count["aim"] /\ main.ring <= main.rings
CountShape == count \in [DOMAIN Limit -> Nat]
GlobalShape == pp \in Globals /\ pp.ring <= main.rings
WorkerShape == workers \subseteq Worker /\ \A w \in workers : w.ring <= main.rings /\ w.id \in Ids
SupShape == sups \subseteq Supervisor /\ \A s \in sups : s.id \in 1..pp.threads /\ RoundOK(s)
AfterShape == \A s \in sups : s.after <= count["session"]

\* Shape, one record at a time.
LEMMA ShapeParts == Shape <=> MainShape /\ view \in Views /\ CountShape /\ GlobalShape /\ WorkerShape
                         /\ SupShape /\ AfterShape
<1>1. ASSUME Shape PROVE MainShape /\ view \in Views /\ CountShape
    BY <1>1 DEF Shape, TypeOK, MainShape, CountShape, MainT
<1>2. ASSUME Shape PROVE GlobalShape
    BY <1>2, <1>1 DEF Shape, TypeOK, MainShape, MainT, GlobalShape, Globals
<1>3. ASSUME Shape PROVE WorkerShape /\ SupShape /\ AfterShape
    BY <1>3 DEF Shape, TypeOK, WorkerShape, SupShape, RoundOK, AfterShape
<1>4. ASSUME MainShape, view \in Views, CountShape, GlobalShape, WorkerShape, SupShape, AfterShape PROVE Shape
  <2>1. pp \in [stop : BOOLEAN, thread : Nat, ring : 0..main.rings, owner : Nat, threads : Nat,
               crossed : BOOLEAN, older : SUBSET {"ring", "aim"}]
      BY <1>4 DEF MainShape, MainT, GlobalShape, Globals
  <2>2. \A w \in workers : w.id \in Ids /\ w.pc \in {"kill", "join", "resolve", "start"}
      BY <1>4 DEF WorkerShape, Worker
  <2>3. \A s \in sups :
       /\ s.pc \in {"top", "run", "dead"} /\ s.id \in 1..pp.threads /\ s.after \in 0..count["session"]
       /\ s.cap \in {None, "run", "out"} /\ s.mux \in {None, "listen", "view", "out"}
       /\ s.pc = "run" <=> s.cap # None /\ s.mux # None
       /\ s.pc # "run" <=> s.cap = None /\ s.mux = None
    <3>1. count["session"] \in Nat
        BY <1>4 DEF CountShape, Limit
    <3> QED
        BY <1>4, <3>1 DEF SupShape, Supervisor, RoundOK, AfterShape
  <2> QED
      BY <1>4, <2>1, <2>2, <2>3, Zenon DEF Shape, TypeOK, MainShape, MainT, CountShape, WorkerShape, SupShape
<1> QED
    BY <1>1, <1>2, <1>3, <1>4, Zenon

\* The same of the state a step leads to.
LEMMA InvNext ==
    ASSUME MainShape', (view \in Views)', CountShape', GlobalShape', WorkerShape', SupShape',
           AfterShape', MainInside', StopHeld', StartHeld', TheNotedOne', OnlyLate'
    PROVE  Inv'
<1>1. Shape'
    BY ShapeParts, PTL
<1> QED
    BY <1>1 DEF Inv

\* The first state.
LEMMA InitInv == Init => Inv
<1> SUFFICES ASSUME Init PROVE Inv
    OBVIOUS
<1> USE PixelAssumption DEF Init
<1>1. CountShape /\ view \in Views
    BY DEF CountShape, Views, Pictures
<1>2. count["aim"] = 0
    BY DEF Limit
<1>3. MainShape
    BY <1>2 DEF MainShape, MainT, MainOff
<1>4. GlobalShape /\ WorkerShape /\ SupShape
    BY DEF GlobalShape, Globals, WorkerShape, SupShape, MainOff, PathOff
<1>5. AfterShape /\ MainInside /\ StopHeld /\ StartHeld /\ TheNotedOne /\ OnlyLate
    BY DEF AfterShape, MainInside, StopHeld, StartHeld, TheNotedOne, OnlyLate, MainOff
<1> QED
    BY <1>1, <1>3, <1>4, <1>5, ShapeParts DEF Inv

\* What a counted event does to the counters.
LEMMA UseTypes ==
    ASSUME CountShape, NEW c \in DOMAIN Limit, Use(c)
    PROVE  /\ CountShape'
           /\ c # "aim" => count'["aim"] = count["aim"]
           /\ c = "aim" => count'["aim"] = count["aim"] + 1
           /\ count'["session"] >= count["session"] /\ (c # "session" => count'["session"] = count["session"])
           /\ Ids \subseteq Ids'
           /\ c \in {"view", "fault"} => Ids' = Ids
BY DEF CountShape, Use, Limit, Ids

\* Each supervisor after the step was there before it, and an ended one stays ended.
Aged == \A t \in sups' : \E s \in sups : t.after = s.after /\ (s.pc = "dead" => t.pc = "dead")

\* Where that is so, nobody's session changes.
LEMMA LateKept ==
    ASSUME Inv, count'["session"] = count["session"] \/ (main'.on /\ CountShape' /\ count'["session"] >= count["session"]),
           main'.on \/ ~main.on, Aged
    PROVE  AfterShape' /\ OnlyLate'
<1>1. CountShape /\ SupShape /\ AfterShape /\ OnlyLate /\ count["session"] \in Nat
    BY ShapeParts DEF Inv, CountShape, Limit
<1>2. count'["session"] \in Nat /\ count'["session"] >= count["session"]
    BY <1>1 DEF CountShape, Limit
<1>3. AfterShape'
    BY <1>1, <1>2 DEF AfterShape, SupShape, Supervisor, Aged
<1>4. OnlyLate'
    BY <1>1 DEF OnlyLate, Aged
<1> QED
    BY <1>3, <1>4

-----------------------------------------------------------------------------
(* The supervisors.                                                        *)

\* One supervisor moves on: it stays the noted one, or ends.  The globals keep what names it.
LEMMA BecomesInv ==
    ASSUME Inv, NEW s \in sups, NEW t \in Supervisor,
           t.id = s.id, s.pc # "dead" \/ t.pc = "dead", RoundOK(t), Becomes(s, t),
           t.after = s.after, pp' \in Globals, pp'.stop = pp.stop, pp'.thread = pp.thread, pp'.threads = pp.threads,
           pp'.ring = pp.ring, pp'.crossed = pp.crossed, CountShape', count'["aim"] = count["aim"],
           count'["session"] = count["session"], Ids' = Ids, UNCHANGED <<main, view, workers>>
    PROVE  Inv'
<1> USE ShapeParts DEF Inv
<1>1. MainShape' /\ (view \in Views)' /\ GlobalShape' /\ WorkerShape'
    BY Zenon DEF MainShape, GlobalShape, WorkerShape
<1>2. SupShape'
    BY DEF SupShape, Becomes
<1>3. MainInside' /\ StopHeld' /\ StartHeld'
    BY DEF MainInside, StopHeld, StartHeld
<1>4. TheNotedOne'
    BY DEF TheNotedOne, Becomes
<1>5. AfterShape' /\ OnlyLate'
  <2>1. Aged
      BY DEF Becomes, Aged
  <2> QED
      BY <2>1, LateKept
<1> QED
    BY <1>1, <1>2, <1>3, <1>4, <1>5, InvNext

\* Kill and restart_ring touch the children, never who is noted or who has ended.
LEMMA KillSups ==
    ASSUME Inv, Kill
    PROVE  /\ SupShape' /\ TheNotedOne' /\ Aged /\ pp' \in Globals /\ pp'.crossed = Starting
           /\ pp'.stop /\ pp'.thread = pp.thread /\ pp'.threads = pp.threads /\ pp'.ring = pp.ring
<1> USE ShapeParts DEF Inv
<1>1. /\ pp' \in Globals /\ pp'.crossed = Starting
      /\ pp'.stop /\ pp'.thread = pp.thread /\ pp'.threads = pp.threads /\ pp'.ring = pp.ring
    BY DEF Kill, GlobalShape, Globals, Starting
<1>2. \A t \in sups' : \E s \in sups : t = IF s.id = pp.owner THEN [s EXCEPT !.cap = IF @ = "run" THEN "out" ELSE @,
                                                  !.mux = IF @ \in {"listen", "view"} THEN "out" ELSE @]
                ELSE s
    BY DEF Kill
<1>3. \A t \in sups' : \E s \in sups : t \in Supervisor /\ t.id = s.id /\ t.pc = s.pc /\ t.after = s.after /\ RoundOK(t)
  <2> SUFFICES ASSUME NEW t \in sups'
               PROVE  \E s \in sups : t \in Supervisor /\ t.id = s.id /\ t.pc = s.pc /\ t.after = s.after /\ RoundOK(t)
      OBVIOUS
  <2>1. PICK s \in sups : t = IF s.id = pp.owner
                             THEN [s EXCEPT !.cap = IF @ = "run" THEN "out" ELSE @,
                                            !.mux = IF @ \in {"listen", "view"} THEN "out" ELSE @]
                             ELSE s
      BY <1>2
  <2>2. s \in Supervisor /\ RoundOK(s)
      BY DEF SupShape
  <2> DEFINE cap == IF s.cap = "run" THEN "out" ELSE s.cap
             mux == IF s.mux \in {"listen", "view"} THEN "out" ELSE s.mux
             k == [s EXCEPT !.cap = cap, !.mux = mux]
  <2>3. /\ cap \in {None, "run", "out"} /\ mux \in {None, "listen", "view", "out"}
        /\ (cap = None <=> s.cap = None) /\ (mux = None <=> s.mux = None)
      BY <2>2 DEF Supervisor, None
  <2>4. t = k \/ t = s
      BY <2>1
  <2> HIDE DEF cap, mux
  <2>5. k \in Supervisor /\ k.id = s.id /\ k.pc = s.pc /\ k.after = s.after /\ k.cap = cap /\ k.mux = mux
      BY <2>2, <2>3 DEF Supervisor
  <2>6. RoundOK(k)
      BY <2>2, <2>3, <2>5, Zenon DEF RoundOK
  <2> QED
      BY <2>2, <2>4, <2>5, <2>6, Zenon
<1>4. SupShape'
    BY <1>1, <1>3 DEF SupShape
<1>5. TheNotedOne'
  <2>1. \A t \in sups' : t.pc # "dead" => t.id = pp'.thread
      BY <1>1, <1>3 DEF TheNotedOne
  <2>2. ASSUME NEW t \in sups', NEW u \in sups', t.id = u.id PROVE t = u
    <3>1. PICK s \in sups : /\ t.id = s.id
                            /\ t = IF s.id = pp.owner THEN [s EXCEPT !.cap = IF @ = "run" THEN "out" ELSE @,
                                                  !.mux = IF @ \in {"listen", "view"} THEN "out" ELSE @]
                                   ELSE s
        BY <1>2 DEF SupShape, Supervisor
    <3>2. PICK r \in sups : /\ u.id = r.id
                            /\ u = IF r.id = pp.owner THEN [r EXCEPT !.cap = IF @ = "run" THEN "out" ELSE @,
                                                  !.mux = IF @ \in {"listen", "view"} THEN "out" ELSE @]
                                   ELSE r
        BY <1>2 DEF SupShape, Supervisor
    <3>3. s = r
        BY <2>2, <3>1, <3>2 DEF TheNotedOne
    <3> QED
        BY <3>1, <3>2, <3>3
  <2> QED
      BY <2>1, <2>2 DEF TheNotedOne
<1>6. Aged
    BY <1>3 DEF Aged
<1> QED
    BY <1>1, <1>4, <1>5, <1>6

\* A ring that is swapped makes the helper exit and nothing else.
LEMMA RestartSups ==
    ASSUME Inv, NEW name \in Nat, RestartRing(name)
    PROVE  /\ SupShape' /\ TheNotedOne' /\ Aged /\ pp' \in Globals /\ pp'.crossed = pp.crossed
           /\ pp'.stop = pp.stop /\ pp'.thread = pp.thread /\ pp'.threads = pp.threads /\ pp'.ring = name
<1> USE ShapeParts DEF Inv
<1>1. /\ pp' \in Globals /\ pp'.crossed = pp.crossed
      /\ pp'.stop = pp.stop /\ pp'.thread = pp.thread /\ pp'.threads = pp.threads /\ pp'.ring = name
    BY DEF RestartRing, GlobalShape, Globals
<1>2. \A t \in sups' : \E s \in sups : t = IF s.id = pp.owner /\ s.cap = "run" THEN [s EXCEPT !.told = TRUE] ELSE s
    BY DEF RestartRing
<1>3. \A t \in sups' : \E s \in sups : t \in Supervisor /\ t.id = s.id /\ t.pc = s.pc /\ t.after = s.after /\ RoundOK(t)
    BY <1>2 DEF SupShape, Supervisor, RoundOK, None
<1>4. SupShape'
    BY <1>1, <1>3 DEF SupShape
<1>5. TheNotedOne'
  <2>1. \A t \in sups' : t.pc # "dead" => t.id = pp'.thread
      BY <1>1, <1>3 DEF TheNotedOne
  <2>2. ASSUME NEW t \in sups', NEW u \in sups', t.id = u.id PROVE t = u
    <3>1. PICK s \in sups : /\ t.id = s.id
                            /\ t = IF s.id = pp.owner /\ s.cap = "run" THEN [s EXCEPT !.told = TRUE] ELSE s
        BY <1>2 DEF SupShape, Supervisor
    <3>2. PICK r \in sups : /\ u.id = r.id
                            /\ u = IF r.id = pp.owner /\ r.cap = "run" THEN [r EXCEPT !.told = TRUE] ELSE r
        BY <1>2 DEF SupShape, Supervisor
    <3>3. s = r
        BY <2>2, <3>1, <3>2 DEF TheNotedOne
    <3> QED
        BY <3>1, <3>2, <3>3
  <2> QED
      BY <2>1, <2>2 DEF TheNotedOne
<1>6. Aged
    BY <1>3 DEF Aged
<1> QED
    BY <1>1, <1>4, <1>5, <1>6

\* Everything a supervisor or one of its children does on its own.
LEMMA SupervisorSteps ==
    ASSUME Inv, Spawn \/ SpawnFails \/ Reap \/ HelperLeaves \/ HelperCrashes \/ ViewerJoins \/ ListenEnds \/ ViewerLeaves
    PROVE  Inv'
<1> USE ShapeParts DEF Inv
<1>0. CountShape /\ pp \in Globals /\ SupShape /\ MainShape
    BY DEF GlobalShape
<1>1. CASE Spawn
  <2>1. PICK s \in sups :
          /\ s.pc = "top" /\ pp.ring # 0
          /\ Becomes(s, [s EXCEPT !.pc = "run", !.ring = pp.ring, !.cap = "run", !.mux = "listen", !.told = FALSE])
          /\ pp' = [pp EXCEPT !.owner = s.id]
          /\ UNCHANGED <<main, view, workers, count>>
      BY <1>1 DEF Spawn
  <2> DEFINE t == [s EXCEPT !.pc = "run", !.ring = pp.ring, !.cap = "run", !.mux = "listen", !.told = FALSE]
  <2>2. t \in Supervisor /\ t.id = s.id /\ t.after = s.after /\ RoundOK(t)
      BY <1>0 DEF SupShape, Supervisor, Globals, RoundOK, None
  <2>3. pp' \in Globals /\ pp'.stop = pp.stop /\ pp'.thread = pp.thread /\ pp'.threads = pp.threads /\ pp'.ring = pp.ring
        /\ pp'.crossed = pp.crossed
      BY <1>0, <2>1 DEF SupShape, Supervisor, Globals
  <2>4. CountShape' /\ count'["aim"] = count["aim"] /\ count'["session"] = count["session"] /\ Ids' = Ids
      BY <1>0, <2>1 DEF CountShape, Ids
  <2> HIDE DEF t
  <2>5. Becomes(s, t)
      BY <2>1 DEF t
  <2> QED
      BY <2>1, <2>2, <2>3, <2>4, <2>5, BecomesInv
<1>2. ASSUME NEW s \in sups, NEW t \in Supervisor, Becomes(s, t), UNCHANGED <<main, view, pp, workers>>,
             t.id = s.id, t.after = s.after, s.pc # "dead" \/ t.pc = "dead", RoundOK(t), count' = count \/ Use("fault")
      PROVE  Inv'
  <2>1. pp' \in Globals /\ pp'.stop = pp.stop /\ pp'.thread = pp.thread /\ pp'.threads = pp.threads /\ pp'.ring = pp.ring
        /\ pp'.crossed = pp.crossed
      BY <1>0, <1>2
  <2>2. CountShape' /\ count'["aim"] = count["aim"] /\ count'["session"] = count["session"] /\ Ids' = Ids
    <3>1. CASE count' = count
        BY <1>0, <3>1 DEF CountShape, Ids
    <3>2. CASE Use("fault")
        BY <1>0, <3>2, UseTypes DEF Limit
    <3> QED
        BY <1>2, <3>1, <3>2
  <2> QED
      BY <1>2, <2>1, <2>2, BecomesInv
<1>3. CASE SpawnFails \/ Reap \/ HelperLeaves \/ HelperCrashes
  <2>1. PICK s \in sups :
          /\ \/ s.pc = "top" /\ Becomes(s, [s EXCEPT !.pc = "dead"])
             \/ s.pc = "run" /\ Becomes(s, [s EXCEPT !.pc = "top", !.cap = None, !.mux = None])
             \/ s.cap = "run" /\ Becomes(s, [s EXCEPT !.cap = "out"])
          /\ UNCHANGED <<main, view, pp, workers>> /\ (count' = count \/ Use("fault"))
      BY <1>3 DEF SpawnFails, Reap, HelperLeaves, HelperCrashes
  <2>2. s \in Supervisor /\ RoundOK(s)
      BY <1>0 DEF SupShape
  <2>3. CASE s.pc = "top" /\ Becomes(s, [s EXCEPT !.pc = "dead"])
    <3>1. [s EXCEPT !.pc = "dead"] \in Supervisor /\ RoundOK([s EXCEPT !.pc = "dead"])
          /\ [s EXCEPT !.pc = "dead"].id = s.id /\ [s EXCEPT !.pc = "dead"].pc = "dead"
          /\ [s EXCEPT !.pc = "dead"].after = s.after
        BY <2>2, <2>3 DEF Supervisor, RoundOK
    <3> QED
        BY <2>1, <2>3, <3>1, <1>2
  <2>4. CASE s.pc = "run" /\ Becomes(s, [s EXCEPT !.pc = "top", !.cap = None, !.mux = None])
    <3> DEFINE t == [s EXCEPT !.pc = "top", !.cap = None, !.mux = None]
    <3>1. t \in Supervisor /\ RoundOK(t) /\ t.id = s.id /\ t.after = s.after
        BY <2>2, <2>4 DEF Supervisor, RoundOK
    <3> HIDE DEF t
    <3>2. Becomes(s, t)
        BY <2>4 DEF t
    <3> QED
        BY <2>1, <2>4, <3>1, <3>2, <1>2
  <2>5. CASE s.cap = "run" /\ Becomes(s, [s EXCEPT !.cap = "out"])
    <3>1. [s EXCEPT !.cap = "out"] \in Supervisor /\ RoundOK([s EXCEPT !.cap = "out"])
          /\ [s EXCEPT !.cap = "out"].id = s.id /\ [s EXCEPT !.cap = "out"].after = s.after /\ s.pc = "run"
        BY <2>2, <2>5 DEF Supervisor, RoundOK, None
    <3> QED
        BY <2>1, <2>5, <3>1, <1>2
  <2> QED
      BY <2>1, <2>3, <2>4, <2>5
<1>4. CASE ViewerJoins \/ ListenEnds \/ ViewerLeaves
  <2>1. PICK s \in sups, m \in {"view", "out"} :
          /\ s.mux \in {"listen", "view"} /\ Becomes(s, [s EXCEPT !.mux = m])
          /\ UNCHANGED <<main, view, pp, workers>> /\ (count' = count \/ Use("fault"))
      BY <1>4 DEF ViewerJoins, ListenEnds, ViewerLeaves
  <2>2. [s EXCEPT !.mux = m] \in Supervisor /\ RoundOK([s EXCEPT !.mux = m])
        /\ [s EXCEPT !.mux = m].id = s.id /\ [s EXCEPT !.mux = m].after = s.after /\ s.pc = "run"
      BY <1>0, <2>1 DEF SupShape, Supervisor, RoundOK, None
  <2> QED
      BY <2>1, <2>2, <1>2
<1> QED
    BY <1>1, <1>3, <1>4

\* A told supervisor returns.
LEMMA SupEndsInv == ASSUME Inv, SupEnds PROVE Inv'
<1> USE ShapeParts DEF Inv
<1>1. sups' \subseteq sups /\ UNCHANGED <<main, view, pp, workers, count>>
    BY DEF SupEnds
<1>2. MainShape' /\ (view \in Views)' /\ CountShape' /\ GlobalShape'
    BY <1>1, Zenon DEF MainShape, GlobalShape, CountShape
<1>3. WorkerShape'
    BY <1>1 DEF WorkerShape, Ids
<1>4. SupShape' /\ TheNotedOne'
    BY <1>1 DEF SupShape, TheNotedOne
<1>5. MainInside' /\ StopHeld' /\ StartHeld'
    BY <1>1 DEF MainInside, StopHeld, StartHeld
<1>6. AfterShape' /\ OnlyLate'
    BY <1>1 DEF AfterShape, OnlyLate
<1> QED
    BY <1>2, <1>3, <1>4, <1>5, <1>6, InvNext

-----------------------------------------------------------------------------
(* Requests and pictures.                                                  *)

\* What the handlers do to the main thread's record.
LEMMA MainRecords ==
    ASSUME NEW m \in MainT
    PROVE  /\ LET n == Adopt(m) IN
              n \in MainT /\ n.on = m.on /\ n.pc = m.pc /\ n.then = m.then /\ n.aim = m.aim
              /\ n.ring = m.ring /\ n.rings = m.rings
           /\ \A b \in BOOLEAN : LET n == NewRing(m, b) IN
              n \in MainT /\ n.on = m.on /\ n.pc = m.pc /\ n.then = m.then /\ n.aim = m.aim
              /\ n.ring = m.rings + 1 /\ n.rings = m.rings + 1
<1> DEFINE a == Adopt(m)
<1>1. a \in MainT /\ a.on = m.on /\ a.pc = m.pc /\ a.then = m.then /\ a.aim = m.aim /\ a.ring = m.ring /\ a.rings = m.rings
    BY DEF MainT, Adopt
<1>2. ASSUME NEW b \in BOOLEAN
      PROVE  LET n == NewRing(m, b) IN
              n \in MainT /\ n.on = m.on /\ n.pc = m.pc /\ n.then = m.then /\ n.aim = m.aim
              /\ n.ring = m.rings + 1 /\ n.rings = m.rings + 1
  <2> DEFINE r == m.rings + 1
             n == [m EXCEPT !.ring = r, !.rings = r, !.big = b, !.shown = None]
  <2>1. r \in Nat /\ NewRing(m, b) = n
      BY DEF MainT, NewRing
  <2> HIDE DEF r
  <2>2. n \in MainT /\ n.on = m.on /\ n.pc = m.pc /\ n.then = m.then /\ n.aim = m.aim /\ n.ring = r /\ n.rings = r
      BY <2>1 DEF MainT
  <2> HIDE DEF n
  <2> QED
      BY <2>1, <2>2 DEF r
<1> QED
    BY <1>1, <1>2

\* Noting the picture changes nothing else of the main thread.
LEMMA NotedMain ==
    ASSUME main \in MainT, view \in Views
    PROVE  /\ Noted \in MainT /\ Noted.on = main.on /\ Noted.pc = main.pc /\ Noted.then = main.then /\ Noted.aim = main.aim
           /\ Noted.ring = main.ring /\ Noted.rings = main.rings
<1>1. CASE WarmUp
    BY <1>1 DEF Noted
<1>2. CASE ~WarmUp
  <2> DEFINE n == [main EXCEPT !.seen = TRUE, !.hash = view]
  <2>1. /\ n \in MainT /\ n.on = main.on /\ n.pc = main.pc /\ n.then = main.then /\ n.aim = main.aim
        /\ n.ring = main.ring /\ n.rings = main.rings
      BY DEF MainT
  <2>2. Noted = n
      BY <1>2 DEF Noted
  <2> HIDE DEF n
  <2> QED
      BY <2>1, <2>2
<1> QED
    BY <1>1, <1>2

\* A request, whoever resolves: one worker more, or none.  m is the main thread's state as the
\* handler leaves it before it calls _start_pixel_path.
LEMMA StartInv ==
    ASSUME Inv, Free, NEW m, NEW restart \in BOOLEAN, StartPixelPath(m, restart),
           m \in MainT, m.ring <= m.rings, m.rings >= main.rings, m.pc = "idle", m.then = None, m.on,
           m.aim = count'["aim"], CountShape', count'["session"] >= count["session"], Ids \subseteq Ids',
           UNCHANGED <<view, sups>>, pp' \in Globals, pp'.ring = pp.ring, pp'.stop = pp.stop, pp'.thread = pp.thread,
           pp'.threads = pp.threads, pp'.crossed = pp.crossed
    PROVE  Inv'
<1> USE ShapeParts DEF Inv
<1>0. /\ view \in Views /\ GlobalShape /\ WorkerShape /\ SupShape /\ TheNotedOne /\ MainShape /\ CountShape
      /\ count["session"] + count["aim"] + count["load"] \in Ids
  <2>1. CountShape
      OBVIOUS
  <2>2. count["session"] + count["aim"] + count["load"] \in Nat
      BY <2>1 DEF CountShape, Limit
  <2> QED
      BY <2>2 DEF Ids
<1>1. (view \in Views)' /\ SupShape' /\ TheNotedOne'
    BY <1>0 DEF SupShape, TheNotedOne
<1>2. /\ MainShape' /\ main'.rings = m.rings /\ main'.pc = "idle" /\ main'.then = None /\ main'.on
      /\ \A w \in workers' : \/ w \in workers
                             \/ /\ w \in Worker /\ w.pc \notin {"join", "start"} /\ w.ring = m.ring
                                /\ w.id = count["session"] + count["aim"] + count["load"]
  <2>1. CASE m.resolving
      BY <1>0, <2>1 DEF StartPixelPath, MainShape
  <2>2. CASE ~m.resolving
    <3>1. /\ main' = [m EXCEPT !.resolving = TRUE]
          /\ workers' = workers \cup {[id |-> count["session"] + count["aim"] + count["load"],
                                       pc |-> IF restart THEN "kill" ELSE "resolve",
                                       aim |-> m.aim, ring |-> m.ring, joins |-> 0]}
        BY <1>0, <2>2 DEF StartPixelPath
    <3>2. MainShape' /\ main'.rings = m.rings /\ main'.pc = "idle" /\ main'.then = None /\ main'.on
        BY <3>1 DEF MainShape, MainT
    <3>3. count["session"] + count["aim"] + count["load"] \in Nat /\ m.aim \in Nat /\ m.ring \in Nat
        BY <1>0, PixelAssumption DEF MainT, CountShape, Limit
    <3> QED
        BY <3>1, <3>2, <3>3 DEF Worker
  <2> QED
      BY <2>1, <2>2
<1>3. GlobalShape'
    BY <1>0, <1>2 DEF GlobalShape, Globals, MainShape, MainT
<1>4. WorkerShape'
  <2>1. m.rings \in Nat /\ main.rings \in Nat
      BY <1>0 DEF MainShape, MainT
  <2> QED
      BY <1>0, <1>2, <2>1 DEF WorkerShape, Worker
<1>5. MainInside' /\ StopHeld' /\ StartHeld'
    BY <1>0, <1>2 DEF MainInside, StopHeld, StartHeld
<1>6. AfterShape' /\ OnlyLate'
  <2>1. Aged
      BY DEF Aged
  <2> QED
      BY <1>2, <2>1, LateKept
<1> QED
    BY <1>1, <1>2, <1>3, <1>4, <1>5, <1>6, InvNext

\* A session starts, a project loads, the host is re-aimed: each starts a worker, or none.
LEMMA Requests == ASSUME Inv, StartSession \/ ProjectLoaded \/ ReAim PROVE Inv'
<1> USE ShapeParts DEF Inv
<1>0. MainShape /\ CountShape /\ {"session", "aim", "load"} \subseteq DOMAIN Limit /\ Limit["aim"] = MaxAims
      /\ pp \in Globals /\ count["session"] \in Nat
    BY DEF Limit, GlobalShape, CountShape
<1>1. CASE StartSession
  <2> DEFINE m == Adopt(NewRing([main EXCEPT !.on = TRUE, !.ended = FALSE], FALSE))
  <2>1. Free /\ StartPixelPath(m, FALSE) /\ CountShape' /\ count'["aim"] = count["aim"] /\ Ids \subseteq Ids'
        /\ count'["session"] >= count["session"] /\ UNCHANGED <<view, pp, sups>>
      BY <1>0, <1>1, UseTypes DEF StartSession
  <2>2. /\ m \in MainT /\ m.ring <= m.rings /\ m.rings >= main.rings /\ m.pc = main.pc /\ m.then = main.then /\ m.on
        /\ m.aim = main.aim
    <3> DEFINE a == [main EXCEPT !.on = TRUE, !.ended = FALSE]
               b == NewRing(a, FALSE)
    <3>1. a \in MainT /\ a.on /\ a.pc = main.pc /\ a.then = main.then /\ a.aim = main.aim /\ a.rings = main.rings
        BY <1>0 DEF MainShape, MainT
    <3> HIDE DEF a
    <3>2. /\ b \in MainT /\ b.on = a.on /\ b.pc = a.pc /\ b.then = a.then /\ b.aim = a.aim
          /\ b.ring = a.rings + 1 /\ b.rings = a.rings + 1
        BY <3>1, MainRecords
    <3> HIDE DEF b
    <3>3. /\ m \in MainT /\ m.on = b.on /\ m.pc = b.pc /\ m.then = b.then /\ m.aim = b.aim
          /\ m.ring = b.ring /\ m.rings = b.rings
        BY <3>2, MainRecords DEF a, b
    <3>4. main.rings \in Nat
        BY <1>0 DEF MainShape, MainT
    <3> HIDE DEF m
    <3> QED
        BY <3>1, <3>2, <3>3, <3>4
  <2> HIDE DEF m
  <2>3. m.pc = "idle" /\ m.then = None
      BY <2>1, <2>2 DEF Free, MainInside
  <2>4. /\ pp' \in Globals /\ pp'.ring = pp.ring /\ pp'.stop = pp.stop /\ pp'.thread = pp.thread
        /\ pp'.threads = pp.threads /\ pp'.crossed = pp.crossed
      BY <1>0, <2>1
  <2>5. m.aim = count'["aim"] /\ m.ring <= m.rings /\ m.rings >= main.rings /\ UNCHANGED <<view, sups>>
      BY <1>0, <2>1, <2>2 DEF MainShape
  <2> QED
      BY <2>1, <2>2, <2>3, <2>4, <2>5, StartInv
<1>2. CASE ProjectLoaded
  <2> DEFINE m == [Adopt(main) EXCEPT !.ended = FALSE]
  <2>1. Free /\ StartPixelPath(m, FALSE) /\ CountShape' /\ count'["aim"] = count["aim"] /\ Ids \subseteq Ids'
        /\ count'["session"] >= count["session"] /\ main.on /\ UNCHANGED <<view, pp, sups>>
      BY <1>0, <1>2, UseTypes DEF ProjectLoaded
  <2>2. /\ m \in MainT /\ m.ring <= m.rings /\ m.rings >= main.rings /\ m.pc = main.pc /\ m.then = main.then
        /\ m.on = main.on /\ m.aim = main.aim
    <3> DEFINE n == Adopt(main)
    <3>1. /\ n \in MainT /\ n.ring <= n.rings /\ n.rings = main.rings /\ n.pc = main.pc /\ n.then = main.then
          /\ n.on = main.on /\ n.aim = main.aim
        BY <1>0, MainRecords DEF MainShape
    <3> HIDE DEF n
    <3>2. main.rings \in Nat
        BY <1>0 DEF MainShape, MainT
    <3>3. /\ [n EXCEPT !.ended = FALSE] \in MainT /\ [n EXCEPT !.ended = FALSE].on = n.on
          /\ [n EXCEPT !.ended = FALSE].pc = n.pc /\ [n EXCEPT !.ended = FALSE].then = n.then
          /\ [n EXCEPT !.ended = FALSE].aim = n.aim
          /\ [n EXCEPT !.ended = FALSE].ring = n.ring /\ [n EXCEPT !.ended = FALSE].rings = n.rings
        BY <3>1 DEF MainT
    <3> QED
        BY <3>1, <3>2, <3>3 DEF n
  <2> HIDE DEF m
  <2>3. m.pc = "idle" /\ m.then = None
      BY <2>1, <2>2 DEF Free, MainInside
  <2>4. /\ pp' \in Globals /\ pp'.ring = pp.ring /\ pp'.stop = pp.stop /\ pp'.thread = pp.thread
        /\ pp'.threads = pp.threads /\ pp'.crossed = pp.crossed
      BY <1>0, <2>1
  <2>5. m.aim = count'["aim"] /\ m.ring <= m.rings /\ m.rings >= main.rings /\ UNCHANGED <<view, sups>>
      BY <1>0, <2>1, <2>2 DEF MainShape
  <2> QED
      BY <2>1, <2>2, <2>3, <2>4, <2>5, StartInv
<1>3. CASE ReAim
  <2> DEFINE m == [main EXCEPT !.aim = @ + 1]
  <2>1. Free /\ StartPixelPath(m, TRUE) /\ CountShape' /\ count'["aim"] = count["aim"] + 1 /\ Ids \subseteq Ids'
        /\ count'["session"] >= count["session"] /\ main.on /\ count["aim"] < MaxAims /\ UNCHANGED <<view, sups>>
      BY <1>0, <1>3, UseTypes DEF ReAim, May
  <2>4. /\ pp' \in Globals /\ pp'.ring = pp.ring /\ pp'.stop = pp.stop /\ pp'.thread = pp.thread
        /\ pp'.threads = pp.threads /\ pp'.crossed = pp.crossed
    <3>1. CASE main.resolving
      <4>1. pp' = [pp EXCEPT !.older = @ \cup {"aim"}]
          BY <1>3, <3>1 DEF ReAim
      <4> QED
          BY <1>0, <4>1 DEF Globals
    <3>2. CASE ~main.resolving
        BY <1>0, <1>3, <3>2 DEF ReAim
    <3> QED
        BY <3>1, <3>2
  <2>2. /\ m \in MainT /\ m.ring <= m.rings /\ m.rings >= main.rings /\ m.pc = main.pc /\ m.then = main.then
        /\ m.on = main.on /\ m.aim = main.aim + 1
    <3> DEFINE a == main.aim + 1
    <3>1. a \in 0..MaxAims /\ main \in MainT /\ main.rings \in Nat /\ main.ring <= main.rings
        BY <1>0, <2>1, PixelAssumption DEF MainShape, MainT
    <3> HIDE DEF a
    <3>2. m = [main EXCEPT !.aim = a]
        BY DEF a
    <3>3. /\ m \in MainT /\ m.ring = main.ring /\ m.rings = main.rings /\ m.pc = main.pc /\ m.then = main.then
          /\ m.on = main.on /\ m.aim = a
        BY <3>1, <3>2 DEF MainT
    <3> QED
        BY <3>1, <3>3 DEF a
  <2> HIDE DEF m
  <2>3. m.pc = "idle" /\ m.then = None
      BY <2>1, <2>2 DEF Free, MainInside
  <2>5. m.aim = count'["aim"] /\ m.ring <= m.rings /\ m.rings >= main.rings /\ UNCHANGED <<view, sups>>
      BY <1>0, <2>1, <2>2 DEF MainShape
  <2> QED
      BY <2>1, <2>2, <2>3, <2>4, <2>5, StartInv
<1> QED
    BY <1>1, <1>2, <1>3

\* The main thread changes nothing that others look at but the rings it has made.
LEMMA MainOnly ==
    ASSUME Inv, main' \in MainT, main'.pc = main.pc, main'.then = main.then, main'.on = main.on,
           main'.aim = main.aim, main'.rings = main.rings, main'.ring = main.ring,
           CountShape', count'["aim"] = count["aim"], count'["session"] = count["session"], Ids' = Ids, view' \in Views,
           UNCHANGED <<pp, workers, sups>>
    PROVE  Inv'
<1> USE ShapeParts DEF Inv
<1>1. MainShape' /\ GlobalShape'
    BY DEF MainShape, GlobalShape
<1>2. WorkerShape'
    BY DEF WorkerShape
<1>3. (view \in Views)'
    BY DEF Views, Pictures
<1>4. SupShape' /\ TheNotedOne'
    BY DEF SupShape, TheNotedOne
<1>5. MainInside' /\ StopHeld' /\ StartHeld'
    BY DEF MainInside, StopHeld, StartHeld
<1>6. AfterShape' /\ OnlyLate'
    BY DEF AfterShape, OnlyLate
<1> QED
    BY <1>1, <1>2, <1>3, <1>4, <1>5, <1>6, InvNext

\* Pictures that change nothing of the threads.
LEMMA Pictured == ASSUME Inv, ViewChanges \/ Draw \/ DrawNoRing PROVE Inv'
<1> USE ShapeParts DEF Inv
<1>0. /\ MainShape /\ CountShape /\ {"view", "fault"} \subseteq DOMAIN Limit /\ main \in MainT
      /\ view \in Views /\ view.pic \in Pictures
    BY DEF Limit, MainShape, Views
<1>1. CASE ViewChanges
  <2>1. /\ CountShape' /\ count'["aim"] = count["aim"] /\ count'["session"] = count["session"] /\ Ids' = Ids
        /\ view' \in Views
        /\ main' = [main EXCEPT !.missed = FALSE] /\ UNCHANGED <<pp, workers, sups>>
      BY <1>0, <1>1, UseTypes DEF ViewChanges, Views, Pictures
  <2> QED
      BY <1>0, <2>1, MainOnly DEF MainT
<1>2. CASE Draw
  <2>1. CountShape' /\ count'["aim"] = count["aim"] /\ count'["session"] = count["session"] /\ Ids' = Ids
        /\ view' \in Views /\ UNCHANGED <<pp, workers, sups>>
      BY <1>0, <1>2 DEF Draw, CountShape, Ids
  <2>2. /\ main' \in MainT /\ main'.pc = main.pc /\ main'.then = main.then /\ main'.on = main.on
        /\ main'.aim = main.aim /\ main'.rings = main.rings /\ main'.ring = main.ring
      BY <1>0, <1>2 DEF Draw, Noted, MainT
  <2> QED
      BY <2>1, <2>2, MainOnly
<1>3. CASE DrawNoRing
  <2>1. CountShape' /\ count'["aim"] = count["aim"] /\ count'["session"] = count["session"] /\ Ids' = Ids
        /\ view' \in Views /\ UNCHANGED <<pp, workers, sups>>
      BY <1>0, <1>3, UseTypes DEF DrawNoRing
  <2>2. /\ main' \in MainT /\ main'.pc = main.pc /\ main'.then = main.then /\ main'.on = main.on
        /\ main'.aim = main.aim /\ main'.rings = main.rings /\ main'.ring = main.ring
      BY <1>0, <1>3 DEF DrawNoRing, Noted, MainT
  <2> QED
      BY <2>1, <2>2, MainOnly
<1> QED
    BY <1>1, <1>2, <1>3

\* A larger picture: a new ring, to which the supervisor is pointed.
LEMMA DrawRegrowInv == ASSUME Inv, DrawRegrow PROVE Inv'
<1> USE ShapeParts DEF Inv
<1>0. MainShape /\ view \in Views /\ CountShape /\ GlobalShape /\ WorkerShape /\ view.pic \in Pictures
    BY DEF Views
<1>1. UNCHANGED <<view, workers, count>>
    BY DEF DrawRegrow
<1>8. main' = [NewRing(Noted, TRUE) EXCEPT !.shown = view.pic] /\ RestartRing(main.rings + 1)
    BY DEF DrawRegrow
<1>2. /\ main' \in MainT /\ main'.pc = main.pc /\ main'.then = main.then /\ main'.on = main.on
      /\ main'.aim = main.aim /\ main'.rings = main.rings + 1 /\ main'.ring = main.rings + 1
  <2> DEFINE n == NewRing(Noted, TRUE)
  <2>1. /\ n \in MainT /\ n.pc = main.pc /\ n.then = main.then /\ n.on = main.on
        /\ n.aim = main.aim /\ n.rings = main.rings + 1 /\ n.ring = main.rings + 1
    <3>1. /\ Noted \in MainT /\ Noted.on = main.on /\ Noted.pc = main.pc /\ Noted.then = main.then /\ Noted.aim = main.aim
          /\ Noted.rings = main.rings
        BY <1>0, NotedMain DEF MainShape
    <3>2. /\ n \in MainT /\ n.on = Noted.on /\ n.pc = Noted.pc /\ n.then = Noted.then /\ n.aim = Noted.aim
          /\ n.ring = Noted.rings + 1 /\ n.rings = Noted.rings + 1
        BY <3>1, MainRecords
    <3> QED
        BY <3>1, <3>2, Zenon
  <2> HIDE DEF n
  <2>2. main' = [n EXCEPT !.shown = view.pic]
      BY <1>8 DEF n
  <2> QED
      BY <1>0, <2>1, <2>2 DEF MainT
<1>3. /\ SupShape' /\ TheNotedOne' /\ Aged /\ pp' \in Globals /\ pp'.crossed = pp.crossed
      /\ pp'.stop = pp.stop /\ pp'.thread = pp.thread /\ pp'.threads = pp.threads /\ pp'.ring = main.rings + 1
    BY <1>0, <1>8, RestartSups DEF MainShape, MainT
<1>4. main.rings \in Nat
    BY <1>0 DEF MainShape, MainT
<1>5. MainShape' /\ GlobalShape' /\ CountShape' /\ (view \in Views)'
  <2>1. (view \in Views)' /\ CountShape'
      BY <1>0, <1>1 DEF Views, Pictures, CountShape
  <2>2. MainShape'
      BY <1>0, <1>1, <1>2, <1>4 DEF MainShape
  <2>3. GlobalShape'
      BY <1>2, <1>3, <1>4 DEF GlobalShape
  <2> QED
      BY <2>1, <2>2, <2>3
<1>7. WorkerShape'
  <2>1. Ids' = Ids
      BY <1>1 DEF Ids
  <2> QED
      BY <1>0, <1>1, <1>2, <1>4, <2>1 DEF WorkerShape, Worker
<1>6. MainInside' /\ StopHeld' /\ StartHeld'
    BY <1>1, <1>2, <1>3 DEF MainInside, StopHeld, StartHeld
<1>9. AfterShape' /\ OnlyLate'
    BY <1>1, <1>2, <1>3, LateKept
<1> QED
    BY <1>3, <1>5, <1>6, <1>7, <1>9, InvNext

-----------------------------------------------------------------------------
(* stop(), by the main thread or by a worker.                              *)

\* session.stop and the goodbye go into stop(), whoever is in there.
LEMMA StopRequests == ASSUME Inv, StopSession \/ Goodbye PROVE Inv'
<1> USE ShapeParts DEF Inv
<1>0. MainShape /\ CountShape /\ main \in MainT /\ "load" \in DOMAIN Limit /\ GlobalShape /\ WorkerShape
    BY DEF Limit, MainShape
<1>1. Free /\ main.on /\ UNCHANGED <<view, pp, workers, sups>>
    BY DEF StopSession, Goodbye
<1>2. CountShape' /\ count'["aim"] = count["aim"] /\ count'["session"] = count["session"] /\ Ids \subseteq Ids'
  <2>1. CASE StopSession
      BY <1>0, <2>1 DEF StopSession, CountShape, Ids
  <2>2. CASE Goodbye
      BY <1>0, <2>2, UseTypes DEF Goodbye
  <2> QED
      BY <2>1, <2>2
<1>3. /\ main' \in MainT /\ main'.pc = "kill" /\ main'.then # None /\ main'.on /\ main'.aim = main.aim
      /\ main'.ring = main.ring /\ main'.rings = main.rings
  <2>1. CASE StopSession
      BY <1>0, <1>1, <2>1 DEF StopSession, MainT, None
  <2>2. CASE Goodbye
    <3> DEFINE n == Adopt(main)
    <3>1. n \in MainT /\ n.on /\ n.aim = main.aim /\ n.ring = main.ring /\ n.rings = main.rings
        BY <1>0, <1>1, MainRecords
    <3>2. main' = [n EXCEPT !.pc = "kill", !.then = "goodbye"]
        BY <2>2 DEF Goodbye
    <3> HIDE DEF n
    <3> QED
        BY <3>1, <3>2 DEF MainT, None
  <2> QED
      BY <2>1, <2>2
<1>5. MainShape' /\ GlobalShape' /\ (view \in Views)'
  <2>1. MainShape'
      BY <1>0, <1>2, <1>3 DEF MainShape
  <2>2. GlobalShape'
      BY <1>0, <1>1, <1>3 DEF GlobalShape
  <2> QED
      BY <1>1, <2>1, <2>2 DEF Views, Pictures
<1>6. WorkerShape' /\ SupShape'
    BY <1>0, <1>1, <1>2, <1>3 DEF WorkerShape, SupShape
<1>7. MainInside' /\ StopHeld' /\ StartHeld' /\ TheNotedOne'
    BY <1>1, <1>3 DEF MainInside, StopHeld, StartHeld, TheNotedOne
<1>8. AfterShape' /\ OnlyLate'
    BY <1>1, <1>2, <1>3 DEF AfterShape, OnlyLate
<1> QED
    BY <1>2, <1>5, <1>6, <1>7, <1>8, InvNext

\* The main thread inside stop() tells the supervisor.
LEMMA MainKillInv == ASSUME Inv, ~pp.crossed, MainKill PROVE Inv'
<1> USE ShapeParts DEF Inv
<1>0. MainShape /\ CountShape /\ main \in MainT /\ GlobalShape /\ WorkerShape /\ view \in Views
    BY DEF MainShape
<1>1. Kill /\ main.pc = "kill" /\ UNCHANGED <<view, workers, count>>
    BY DEF MainKill
<1>2. /\ main' \in MainT /\ main'.pc = "join" /\ main'.then = main.then /\ main'.on = main.on /\ main'.aim = main.aim
      /\ main'.ring = main.ring /\ main'.rings = main.rings
    BY <1>0 DEF MainKill, MainT
<1>3. /\ SupShape' /\ TheNotedOne' /\ Aged /\ pp' \in Globals /\ pp'.crossed = Starting
      /\ pp'.stop /\ pp'.thread = pp.thread /\ pp'.threads = pp.threads /\ pp'.ring = pp.ring
    BY <1>1, KillSups
<1>4. workers' = workers /\ Ids' = Ids
    BY <1>1 DEF Ids
<1>5. MainShape' /\ GlobalShape' /\ (view \in Views)' /\ CountShape'
  <2>1. MainShape'
      BY <1>0, <1>1, <1>2 DEF MainShape
  <2>2. GlobalShape'
      BY <1>0, <1>2, <1>3 DEF GlobalShape
  <2>3. CountShape' /\ (view \in Views)'
      BY <1>0, <1>1 DEF CountShape, Views, Pictures
  <2> QED
      BY <2>1, <2>2, <2>3
<1>6. WorkerShape'
    BY <1>0, <1>2, <1>4 DEF WorkerShape
<1>7. MainInside' /\ StopHeld' /\ StartHeld'
    BY <1>1, <1>2, <1>3, <1>4 DEF Inv, MainInside, StopHeld, StartHeld, Starting, None
<1>8. AfterShape' /\ OnlyLate'
    BY <1>1, <1>2, <1>3, LateKept
<1> QED
    BY <1>3, <1>5, <1>6, <1>7, <1>8, InvNext

\* The join: the supervisor that was noted has ended, so none is left.
LEMMA JoinedSups ==
    ASSUME Inv, pp.stop, NEW id, pp.thread \in {0, id}, Joined(id), Forget
    PROVE  /\ SupShape' /\ TheNotedOne' /\ Aged /\ (\A s \in sups' : s.pc = "dead")
           /\ pp' \in Globals /\ pp'.crossed = pp.crossed
           /\ pp'.stop /\ pp'.thread = 0 /\ pp'.threads = pp.threads /\ pp'.ring = pp.ring
<1> USE ShapeParts DEF Inv
<1>1. /\ pp' \in Globals /\ pp'.stop /\ pp'.thread = 0 /\ pp'.threads = pp.threads /\ pp'.ring = pp.ring
      /\ pp'.crossed = pp.crossed
    BY DEF Forget, GlobalShape, Globals
<1>2. sups' \subseteq sups
    BY DEF Forget
<1>3. \A s \in sups : s.pc = "dead"
    BY DEF Joined, TheNotedOne, SupShape
<1>4. SupShape'
    BY <1>1, <1>2 DEF SupShape
<1>5. TheNotedOne'
    BY <1>2, <1>3 DEF TheNotedOne
<1>6. Aged
    BY <1>2 DEF Aged
<1> QED
    BY <1>1, <1>2, <1>3, <1>4, <1>5, <1>6

\* It has joined the supervisor and forgets it.
LEMMA MainJoinInv == ASSUME Inv, ~pp.crossed, MainJoin PROVE Inv'
<1> USE ShapeParts DEF Inv
<1>0. MainShape /\ CountShape /\ main \in MainT /\ GlobalShape /\ WorkerShape /\ view \in Views
    BY DEF MainShape
<1>1. pp.stop /\ Joined(pp.thread) /\ Forget /\ main.pc = "join" /\ UNCHANGED <<view, workers, count>>
    BY DEF MainJoin, StopHeld
<1>2. /\ main' \in MainT /\ main'.pc # "join" /\ (main'.pc = "idle" <=> main'.then = None)
      /\ (~main'.on => main'.pc = "idle")
      /\ main'.aim = main.aim /\ main'.ring \in {0, main.ring} /\ main'.rings = main.rings
  <2>0. main.on /\ main.then \in {"goodbye", "engine", "last"}
      BY <1>0, <1>1 DEF MainInside, MainT
  <2>1. CASE main.then = "goodbye"
    <3>1. main' = [main EXCEPT !.pc = "idle", !.then = None, !.ended = TRUE]
        BY <2>1 DEF MainJoin
    <3> QED
        BY <1>0, <2>0, <3>1 DEF MainT
  <2>2. CASE main.then = "engine"
    <3>1. main' = [main EXCEPT !.pc = "kill", !.then = "last", !.ring = 0, !.shown = None]
        BY <2>2 DEF MainJoin
    <3> QED
        BY <1>0, <2>0, <3>1 DEF MainT, None
  <2>3. CASE main.then = "last"
    <3>1. main' = [main EXCEPT !.pc = "idle", !.then = None, !.on = FALSE, !.resolving = FALSE,
                              !.note = FALSE]
        BY <2>3 DEF MainJoin
    <3> QED
        BY <1>0, <2>0, <3>1 DEF MainT
  <2> QED
      BY <2>0, <2>1, <2>2, <2>3
<1>3. /\ SupShape' /\ TheNotedOne' /\ Aged /\ (\A s \in sups' : s.pc = "dead")
      /\ pp' \in Globals /\ pp'.crossed = pp.crossed
      /\ pp'.stop /\ pp'.thread = 0 /\ pp'.threads = pp.threads /\ pp'.ring = pp.ring
    BY <1>0, <1>1, JoinedSups DEF GlobalShape, Globals
<1>4. workers' = workers /\ Ids' = Ids
    BY <1>1 DEF Ids
<1>5. MainShape' /\ GlobalShape' /\ (view \in Views)' /\ CountShape'
  <2>1. main.rings \in Nat
      BY <1>0 DEF MainT
  <2>2. MainShape'
      BY <1>0, <1>1, <1>2, <2>1 DEF MainShape
  <2>3. GlobalShape'
      BY <1>0, <1>2, <1>3 DEF GlobalShape
  <2>4. CountShape' /\ (view \in Views)'
      BY <1>0, <1>1 DEF CountShape, Views, Pictures
  <2> QED
      BY <2>2, <2>3, <2>4
<1>6. WorkerShape'
    BY <1>0, <1>2, <1>4 DEF WorkerShape
<1>7. MainInside' /\ StopHeld' /\ StartHeld'
    BY <1>1, <1>2, <1>3, <1>4 DEF MainInside, StopHeld, StartHeld
<1>8. AfterShape' /\ OnlyLate'
  <2>1. AfterShape'
      BY <1>1, <1>3, ShapeParts DEF Inv, AfterShape, Aged
  <2>2. OnlyLate'
      BY <1>3 DEF OnlyLate
  <2> QED
      BY <2>1, <2>2
<1> QED
    BY <1>3, <1>5, <1>6, <1>7, <1>8, InvNext

\* What is known of a worker that goes on, and of the others.
LEMMA WorkerKnown ==
    ASSUME Inv, NEW w \in workers
    PROVE  /\ w \in Worker /\ w.ring <= main.rings /\ w.id \in Ids
           /\ MainShape /\ view \in Views /\ CountShape /\ GlobalShape /\ WorkerShape
BY ShapeParts DEF Inv, WorkerShape

\* A worker inside stop() tells the supervisor.
LEMMA WorkerKillInv == ASSUME Inv, ~pp.crossed, WorkerKill PROVE Inv'
<1>1. PICK w \in workers : /\ w.pc = "kill" /\ Kill
                           /\ workers' = (workers \ {w}) \cup {[w EXCEPT !.pc = "join", !.joins = pp.thread]}
                           /\ UNCHANGED <<main, view, count>>
    BY DEF WorkerKill
<1> DEFINE v == [w EXCEPT !.pc = "join", !.joins = pp.thread]
<1>2. /\ w \in Worker /\ w.ring <= main.rings /\ w.id \in Ids
      /\ MainShape /\ view \in Views /\ CountShape /\ GlobalShape /\ WorkerShape
    BY WorkerKnown
<1>3. v \in Worker /\ v.pc = "join" /\ v.joins = pp.thread /\ v.ring = w.ring /\ v.id = w.id
    BY <1>2 DEF Worker, GlobalShape, Globals
<1>4. workers' = (workers \ {w}) \cup {v}
    BY <1>1
<1> HIDE DEF v
<1>5. /\ SupShape' /\ TheNotedOne' /\ Aged /\ pp' \in Globals /\ pp'.crossed = Starting
      /\ pp'.stop /\ pp'.thread = pp.thread /\ pp'.threads = pp.threads /\ pp'.ring = pp.ring
    BY <1>1, KillSups
<1>6. main' = main /\ view' = view /\ count' = count /\ Ids' = Ids
    BY <1>1 DEF Ids
<1>7. MainShape' /\ GlobalShape' /\ (view \in Views)' /\ CountShape'
    BY <1>2, <1>5, <1>6 DEF MainShape, GlobalShape, CountShape, Views, Pictures
<1>8. WorkerShape'
    BY <1>2, <1>3, <1>4, <1>6 DEF WorkerShape
<1>9. MainInside' /\ StopHeld' /\ StartHeld'
    BY <1>2, <1>3, <1>4, <1>5, <1>6 DEF Inv, MainInside, StopHeld, StartHeld, Starting
<1>10. AfterShape' /\ OnlyLate'
    BY <1>5, <1>6, LateKept
<1> QED
    BY <1>5, <1>7, <1>8, <1>9, <1>10, InvNext

\* It has joined the supervisor it stopped.
LEMMA WorkerJoinInv == ASSUME Inv, ~pp.crossed, WorkerJoin PROVE Inv'
<1>1. PICK w \in workers : /\ w.pc = "join" /\ Joined(w.joins) /\ Forget
                           /\ workers' = (workers \ {w}) \cup {[w EXCEPT !.pc = "resolve"]}
                           /\ UNCHANGED <<main, view, count>>
    BY DEF WorkerJoin
<1> DEFINE v == [w EXCEPT !.pc = "resolve"]
<1>2. /\ w \in Worker /\ w.ring <= main.rings /\ w.id \in Ids
      /\ MainShape /\ view \in Views /\ CountShape /\ GlobalShape /\ WorkerShape
    BY WorkerKnown
<1>3. v \in Worker /\ v.pc = "resolve" /\ v.ring = w.ring /\ v.id = w.id
    BY <1>2 DEF Worker
<1>4. workers' = (workers \ {w}) \cup {v}
    BY <1>1
<1> HIDE DEF v
<1>5. /\ SupShape' /\ TheNotedOne' /\ Aged /\ pp' \in Globals /\ pp'.crossed = pp.crossed
      /\ pp'.stop /\ pp'.thread = 0 /\ pp'.threads = pp.threads /\ pp'.ring = pp.ring
  <2>1. pp.stop /\ pp.thread \in {0, w.joins}
      BY <1>1 DEF Inv, StopHeld
  <2> QED
      BY <1>1, <2>1, JoinedSups
<1>6. main' = main /\ view' = view /\ count' = count /\ Ids' = Ids
    BY <1>1 DEF Ids
<1>7. MainShape' /\ GlobalShape' /\ (view \in Views)' /\ CountShape'
    BY <1>2, <1>5, <1>6 DEF MainShape, GlobalShape, CountShape, Views, Pictures
<1>8. WorkerShape'
    BY <1>2, <1>3, <1>4, <1>6 DEF WorkerShape
<1>9. MainInside' /\ StopHeld' /\ StartHeld'
    BY <1>2, <1>3, <1>4, <1>5, <1>6 DEF Inv, MainInside, StopHeld, StartHeld
<1>10. AfterShape' /\ OnlyLate'
    BY <1>5, <1>6, LateKept
<1> QED
    BY <1>5, <1>7, <1>8, <1>9, <1>10, InvNext

\* start() looks: it is done when a thread is noted, and the only one in there when none is.
LEMMA WorkerLooksInv == ASSUME Inv, ~pp.crossed, WorkerLooks PROVE Inv'
<1>1. PICK w \in workers :
         /\ w.pc = "resolve"
         /\ \/ ~NoThread /\ Done(w) /\ UNCHANGED pp
            \/ /\ NoThread /\ pp' = [pp EXCEPT !.crossed = Starting]
               /\ workers' = (workers \ {w}) \cup {[w EXCEPT !.pc = "start"]} /\ UNCHANGED main
         /\ UNCHANGED <<view, sups, count>>
    BY DEF WorkerLooks
<1>2. /\ w \in Worker /\ w.ring <= main.rings /\ w.id \in Ids
      /\ MainShape /\ view \in Views /\ CountShape /\ GlobalShape /\ WorkerShape
    BY WorkerKnown
<1>3. SupShape /\ TheNotedOne /\ MainInside /\ StopHeld /\ StartHeld /\ pp \in Globals
    BY ShapeParts DEF Inv, GlobalShape
<1>4. Ids' = Ids /\ view' = view /\ sups' = sups /\ count' = count
    BY <1>1 DEF Ids
<1>5. (main'.on = main.on) => AfterShape' /\ OnlyLate'
    BY <1>4, ShapeParts DEF Inv, AfterShape, OnlyLate
<1>6. CASE ~NoThread /\ Done(w) /\ UNCHANGED pp
  <2>1. main' = [main EXCEPT !.resolving = FALSE, !.note = FALSE] /\ workers' = workers \ {w} /\ pp' = pp
      BY <1>6 DEF Done
  <2>2. /\ main' \in MainT /\ main'.pc = main.pc /\ main'.then = main.then /\ main'.on = main.on
        /\ main'.aim = main.aim /\ main'.ring = main.ring /\ main'.rings = main.rings
      BY <1>2, <2>1 DEF MainShape, MainT
  <2>3. MainShape' /\ GlobalShape' /\ (view \in Views)' /\ CountShape'
      BY <1>2, <1>4, <2>1, <2>2 DEF MainShape, GlobalShape, CountShape, Views, Pictures
  <2>4. WorkerShape' /\ SupShape' /\ TheNotedOne'
      BY <1>2, <1>3, <1>4, <2>1, <2>2 DEF WorkerShape, SupShape, TheNotedOne
  <2>5. MainInside' /\ StopHeld' /\ StartHeld'
      BY <1>3, <2>1, <2>2 DEF MainInside, StopHeld, StartHeld
  <2> QED
      BY <1>5, <2>2, <2>3, <2>4, <2>5, InvNext
<1>7. CASE /\ NoThread /\ pp' = [pp EXCEPT !.crossed = Starting]
           /\ workers' = (workers \ {w}) \cup {[w EXCEPT !.pc = "start"]} /\ UNCHANGED main
  <2> DEFINE v == [w EXCEPT !.pc = "start"]
  <2>1. v \in Worker /\ v.pc = "start" /\ v.ring = w.ring /\ v.id = w.id
      BY <1>2 DEF Worker
  <2>2. workers' = (workers \ {w}) \cup {v} /\ main' = main
      BY <1>7
  <2> HIDE DEF v
  <2>3. /\ pp' \in Globals /\ pp'.stop = pp.stop /\ pp'.thread = 0 /\ pp.thread = 0 /\ pp'.threads = pp.threads
        /\ pp'.ring = pp.ring /\ pp'.crossed = Starting
      BY <1>3, <1>7 DEF Globals, Starting, NoThread
  <2>4. MainShape' /\ GlobalShape' /\ (view \in Views)' /\ CountShape'
      BY <1>2, <1>4, <2>2, <2>3 DEF MainShape, GlobalShape, CountShape, Views, Pictures
  <2>5. WorkerShape' /\ SupShape' /\ TheNotedOne'
      BY <1>2, <1>3, <1>4, <2>1, <2>2, <2>3 DEF WorkerShape, SupShape, TheNotedOne
  <2>6. MainInside' /\ StopHeld' /\ StartHeld'
      BY <1>3, <2>1, <2>2, <2>3 DEF MainInside, StopHeld, StartHeld, Starting
  <2> QED
      BY <1>5, <2>2, <2>4, <2>5, <2>6, InvNext
<1> QED
    BY <1>1, <1>6, <1>7

\* A new supervisor: none is noted, so every other one has ended.
LEMMA StartSups ==
    ASSUME Inv, ~pp.crossed, NEW w \in workers, w.pc = "start", UNCHANGED count, main'.on = main.on, main'.pc = main.pc,
           workers' = workers \ {w}, sups' = sups \cup {Supervising(w)},
           pp' = [pp EXCEPT !.stop = FALSE, !.ring = w.ring, !.thread = pp.threads + 1, !.threads = @ + 1,
                            !.crossed = main.pc = "join" \/ \E v \in workers : v.pc = "join",
                            !.older = {x \in {"ring", "aim"} : w[x] # main[x]}]
    PROVE  /\ SupShape' /\ TheNotedOne' /\ pp' \in Globals /\ pp'.ring <= main.rings
           /\ AfterShape' /\ OnlyLate' /\ StopHeld' /\ StartHeld'
<1> USE ShapeParts DEF Inv
<1>0. /\ pp \in Globals /\ w \in Worker /\ w.ring <= main.rings /\ pp.ring <= main.rings /\ SupShape /\ TheNotedOne
      /\ AfterShape /\ OnlyLate /\ StopHeld /\ count["session"] \in Nat
    BY WorkerKnown DEF GlobalShape, CountShape, Limit
<1> DEFINE n == pp.threads + 1
           crossed == main.pc = "join" \/ \E v \in workers : v.pc = "join"
           older == {x \in {"ring", "aim"} : w[x] # main[x]}
           after == IF main.on THEN 0 ELSE count["session"]
           new == [id |-> n, pc |-> "top", aim |-> w.aim, ring |-> 0, cap |-> None, mux |-> None, told |-> FALSE,
                   after |-> after]
<1>1. /\ pp' = [pp EXCEPT !.stop = FALSE, !.ring = w.ring, !.thread = n, !.threads = n,
                         !.crossed = crossed, !.older = older]
      /\ sups' = sups \cup {new}
    BY DEF Supervising
<1>2. /\ n \in Nat \ {0} /\ n > pp.threads /\ pp.threads \in Nat /\ w.ring \in Nat /\ w.aim \in Nat
      /\ crossed \in BOOLEAN /\ older \subseteq {"ring", "aim"} /\ after \in Nat /\ after <= count["session"]
      /\ (~main.on => after = count["session"])
    BY <1>0 DEF Globals, Worker
<1>3. ~crossed => main.pc # "join" /\ \A v \in workers' : v.pc # "join"
    OBVIOUS
<1> HIDE DEF n, crossed, older, after
<1>4. pp' \in Globals /\ pp'.thread = n /\ pp'.threads = n /\ pp'.ring = w.ring /\ pp'.crossed = crossed
    BY <1>0, <1>1, <1>2 DEF Globals
<1>5. new \in Supervisor /\ new.id = n /\ RoundOK(new) /\ new.after = after
    BY <1>2 DEF Supervisor, RoundOK
<1> HIDE DEF new
<1>6. pp.thread = 0 /\ \A v \in workers' : v.pc # "start"
    BY DEF StartHeld
<1>7. \A s \in sups : s.id \in 1..pp.threads /\ s.id # n /\ s.pc = "dead"
    BY <1>0, <1>2, <1>6 DEF SupShape, TheNotedOne
<1>8. SupShape'
    BY <1>0, <1>1, <1>2, <1>4, <1>5, <1>7 DEF SupShape
<1>9. TheNotedOne'
    BY <1>0, <1>1, <1>4, <1>5, <1>7 DEF TheNotedOne
<1>10. AfterShape' /\ OnlyLate'
    BY <1>0, <1>1, <1>2, <1>5, <1>7 DEF AfterShape, OnlyLate
<1>11. StopHeld' /\ StartHeld'
    BY <1>3, <1>4, <1>6 DEF StopHeld, StartHeld
<1> QED
    BY <1>0, <1>4, <1>8, <1>9, <1>10, <1>11

\* A worker starts the new supervisor, or gives up.
LEMMA WorkerEndsInv == ASSUME Inv, ~pp.crossed, WorkerStart \/ WorkerGivesUp PROVE Inv'
<1> DEFINE Starts(w) ==
      /\ w.pc = "start" /\ UNCHANGED count /\ sups' = sups \cup {Supervising(w)}
      /\ pp' = [pp EXCEPT !.stop = FALSE, !.ring = w.ring, !.thread = pp.threads + 1, !.threads = @ + 1,
                          !.crossed = main.pc = "join" \/ \E v \in workers : v.pc = "join",
                          !.older = {x \in {"ring", "aim"} : w[x] # main[x]}]
<1>1. PICK w \in workers, n \in BOOLEAN :
         /\ Starts(w) \/ (Use("fault") /\ UNCHANGED <<pp, sups>>)
         /\ main' = [main EXCEPT !.resolving = FALSE, !.note = n]
         /\ workers' = workers \ {w}
         /\ UNCHANGED view
  <2>1. CASE WorkerStart
    <3>1. PICK w \in workers : /\ Starts(w) /\ UNCHANGED view
                               /\ main' = [main EXCEPT !.resolving = FALSE, !.note = FALSE]
                               /\ workers' = workers \ {w}
        BY <2>1 DEF WorkerStart, Done
    <3> HIDE DEF Starts
    <3> QED
        BY <3>1, Zenon
  <2>2. CASE WorkerGivesUp
    <3>1. PICK w \in workers : /\ Use("fault") /\ UNCHANGED <<view, pp, sups>>
                               /\ main' = [main EXCEPT !.resolving = FALSE, !.note = TRUE]
                               /\ workers' = workers \ {w}
        BY <2>2 DEF WorkerGivesUp
    <3> QED
        BY <3>1, Zenon
  <2> QED
      BY <2>1, <2>2
<1>2. /\ MainShape /\ view \in Views /\ CountShape /\ GlobalShape /\ WorkerShape /\ SupShape /\ TheNotedOne
      /\ AfterShape /\ MainInside /\ StopHeld /\ StartHeld /\ OnlyLate
    BY ShapeParts DEF Inv
<1>3. CountShape' /\ count'["aim"] = count["aim"] /\ count'["session"] = count["session"] /\ Ids' = Ids
  <2>1. CASE UNCHANGED count
      BY <1>2, <2>1 DEF CountShape, Ids
  <2>2. CASE Use("fault")
      BY <1>2, <2>2, UseTypes DEF Limit
  <2> QED
      BY <1>1, <2>1, <2>2
<1>4. /\ main' \in MainT /\ main'.pc = main.pc /\ main'.then = main.then /\ main'.on = main.on /\ main'.aim = main.aim
      /\ main'.ring = main.ring /\ main'.rings = main.rings
    BY <1>1, <1>2 DEF MainShape, MainT
<1>5. workers' = workers \ {w}
    BY <1>1
<1>6. /\ SupShape' /\ TheNotedOne' /\ pp' \in Globals /\ pp'.ring <= main.rings
      /\ AfterShape' /\ OnlyLate' /\ StopHeld' /\ StartHeld'
  <2>1. CASE Starts(w)
      BY <1>4, <1>5, <2>1, StartSups
  <2>2. CASE UNCHANGED <<pp, sups>>
      BY <1>2, <1>3, <1>4, <1>5, <2>2
      DEF SupShape, TheNotedOne, GlobalShape, AfterShape, OnlyLate, StopHeld, StartHeld
  <2> QED
      BY <1>1, <2>1, <2>2
<1>7. MainShape' /\ GlobalShape' /\ (view \in Views)'
    BY <1>1, <1>2, <1>3, <1>4, <1>6 DEF MainShape, GlobalShape, Views, Pictures
<1>8. WorkerShape' /\ MainInside'
    BY <1>2, <1>3, <1>4, <1>5 DEF WorkerShape, MainInside
<1> QED
    BY <1>3, <1>6, <1>7, <1>8, InvNext

-----------------------------------------------------------------------------
\* Every step keeps the invariant.
LEMMA NextInv == Inv /\ [Next]_vars => Inv'
<1> SUFFICES ASSUME Inv, [Next]_vars PROVE Inv'
    OBVIOUS
<1>1. CASE UNCHANGED vars
  <2>1. UNCHANGED <<main, view, pp, workers, sups, count>>
      BY <1>1 DEF vars
  <2>2. /\ MainShape /\ view \in Views /\ CountShape /\ GlobalShape /\ WorkerShape /\ SupShape
        /\ AfterShape /\ MainInside /\ StopHeld /\ StartHeld /\ TheNotedOne /\ OnlyLate
      BY ShapeParts DEF Inv
  <2>3. MainShape' /\ (view \in Views)' /\ CountShape' /\ GlobalShape' /\ WorkerShape' /\ SupShape'
      BY <2>1, <2>2 DEF MainShape, CountShape, GlobalShape, WorkerShape, SupShape, Ids, Views, Pictures
  <2>4. AfterShape' /\ MainInside' /\ StopHeld' /\ StartHeld' /\ TheNotedOne' /\ OnlyLate'
      BY <2>1, <2>2 DEF AfterShape, MainInside, StopHeld, StartHeld, TheNotedOne, OnlyLate
  <2> QED
      BY <2>3, <2>4, InvNext
<1>2. CASE Next
    BY <1>2, Requests, StopRequests, Pictured, DrawRegrowInv, MainKillInv, MainJoinInv, WorkerKillInv, WorkerJoinInv,
       WorkerLooksInv, WorkerEndsInv, SupervisorSteps, SupEndsInv, Zenon DEF Next, Step
<1> QED
    BY <1>1, <1>2

\* The invariant holds throughout.
THEOREM SpecInv == Spec => []Inv
BY InitInv, NextInv, PTL DEF Spec

\* A set whose members are equal has one at most.
LEMMA AtMostOne ==
    ASSUME NEW S, \A x, y \in S : x = y
    PROVE  Cardinality(S) <= 1
<1>1. CASE S = {}
    BY <1>1, FS_EmptySet
<1>2. CASE S # {}
  <2>1. PICK x \in S : S = {x}
      BY <1>2
  <2> QED
      BY <2>1, FS_Singleton
<1> QED
    BY <1>1, <1>2

\* The threads' and the globals' types, rounds with both children or none, for every bound.
THEOREM PixelTypes == Spec => []TypeOK
<1>1. Inv => TypeOK
    BY DEF Inv, Shape
<1> QED
    BY <1>1, SpecInv, PTL

\* Never two supervisors and never two helpers on the ring (pixel_path.start, stop).
THEOREM EncoderAlone == Spec => []OneEncoder
<1>1. ASSUME Inv PROVE OneEncoder
  <2>1. SupShape /\ TheNotedOne
      BY <1>1, ShapeParts DEF Inv
  <2>2. \A s, t \in {s \in sups : s.pc # "dead"} : s = t
      BY <2>1 DEF TheNotedOne
  <2>3. \A s, t \in Running : s = t
      BY <2>1 DEF TheNotedOne, Running, SupShape, RoundOK, None
  <2> QED
      BY <2>2, <2>3, AtMostOne DEF OneEncoder
<1> QED
    BY <1>1, SpecInv, PTL

\* Once the session is stopped nothing that ran in it goes on (session.stop goes through
\* pixel_path.stop twice): what runs, a worker that outlived it has started.
THEOREM StopLeavesNone == Spec => []NoneAfterStop
<1>1. ASSUME Inv PROVE NoneAfterStop
    BY <1>1 DEF Inv, OnlyLate, NoneAfterStop
<1> QED
    BY <1>1, SpecInv, PTL
=============================================================================
