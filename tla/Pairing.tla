------------------------------- MODULE Pairing -------------------------------
(***************************************************************************)
(* How a host session pairs with a replica and stays paired: the handshake *)
(* and the watcher of ring0/session.py, the liveness of the transport's    *)
(* IO loop (ring1/transport_agent.py), and what a hello, a goodbye and a   *)
(* file do on the replica (ring0/replica_apply.py).                        *)
(*                                                                         *)
(* Each end runs two threads.  The IO threads take events and control      *)
(* messages as they come; the main threads act on timers, on what the IO   *)
(* threads have left for them.  The agents in between outlive both         *)
(* Blenders: they keep what was sent while nobody was attached, and lose   *)
(* what was crossing when the connection drops.                            *)
(*                                                                         *)
(* Of the lanes only the cold one is here, and of what it carries only the *)
(* whole file, in Chunks pieces.  Hello fields that pairing does not       *)
(* depend on (paths, colour, viewer) are left out.                         *)
(***************************************************************************)
EXTENDS Integers, Sequences, FiniteSets, FiniteSetsExt, SequencesExt

CONSTANTS
    Chunks,       \* chunks of a project file
    MaxSessions,  \* bound: host sessions started
    MaxArms,      \* bound: handshakes armed by _watch, over all sessions
    MaxBoots,     \* bound: files the policy asks for, over all sessions
    MaxFaults,    \* bound: connections lost, replica Blenders that end, hellos given up
                  \* too early and pongs that come late, all together
    LaneCap,      \* bound: control messages in one direction
    Overlap,      \* may a host session start while messages of an earlier one
                  \* are still under way?
    Timely        \* does _io_loop, which turns every 50 ms, keep ahead of the timers of the
                  \* main thread (250 ms) and of the next connection (250 ms and more,
                  \* unless the agent's target has changed)?

ASSUME PairingAssumption ==
    /\ Chunks \in Nat \ {0} /\ LaneCap \in Nat \ {0} /\ {Overlap, Timely} \subseteq BOOLEAN
    /\ {MaxSessions, MaxArms, MaxBoots, MaxFaults} \subseteq Nat

VARIABLES
    host,   \* session.state, the closures of _start_host and HostSync: main thread
    io,     \* HostTransportAgent: reader thread and _io_loop
    rep,    \* the replica: session.state and replica_apply
    up,     \* is there a connection between the agents?
    ev,     \* peer events on their way to the host addon
    toRep,  \* the control lane towards the replica, agents' queues included
    toHost, \* the control lane towards the host
    cold,   \* file chunks between the host's send_cold and the replica's tick
    count   \* the bounds used up so far

vars == <<host, io, rep, up, ev, toRep, toHost, cold, count>>

NoSeq == 0 - 1     \* SeqTracker.last_seen = None
NoStatus == [epoch |-> 0, want |-> FALSE, boots |-> 0]

Limit == [session |-> MaxSessions, arm |-> MaxArms, boot |-> MaxBoots, fault |-> MaxFaults]
May(c) == count[c] < Limit[c]
Use(c) == count' = [count EXCEPT ![c] = @ + 1]

-----------------------------------------------------------------------------
(* The host before its first session, and as start() and _start_host leave it. *)
HostOff == [on |-> FALSE, session |-> 0, epoch |-> 0, armed |-> FALSE, req |-> 0,
            peer |-> 0, lost |-> FALSE, reconnect |-> FALSE, served |-> NoSeq,
            boot |-> 0, at |-> 0, out |-> 0, grace |-> FALSE, seq |-> 0,
            unseen |-> "no"]

\* The transport as __init__ and, with the agent's state, the attached event leave it.
IoFresh(linkUp) == [up |-> linkUp, pong |-> FALSE, alive |-> FALSE, born |-> FALSE, status |-> NoStatus, slot |-> <<>>]

\* A replica Blender that has just started: session._start_replica, replica_apply.start.
RepFresh(e) == [here |-> TRUE, mirrored |-> FALSE, epoch |-> e, peer |-> 0, new |-> FALSE, base |-> 0,
                last |-> NoSeq, parts |-> {}, pending |-> {}, holds |-> {}, boots |-> 0,
                want |-> FALSE, bye |-> FALSE, ended |-> FALSE, told |-> {}]

Init ==
    /\ host = HostOff
    /\ up = FALSE /\ ev = <<>>
    /\ io = IoFresh(FALSE)
    /\ rep = RepFresh(1)
    /\ toRep = <<>> /\ toHost = <<>> /\ cold = <<>>
    /\ count = [c \in DOMAIN Limit |-> 0]

-----------------------------------------------------------------------------
(* The host's main thread.                                                 *)

\* The host's IO threads have seen, and _io_loop reported, what has happened so far.
Turned == Timely => io.alive = (io.up /\ io.pong)
Seen == Timely /\ host.on => ev = <<>> /\ Turned

\* A control message reaches the agent's queue; without a session the next one drains it.
SendControl(m) ==
    IF up THEN Len(toRep) < LaneCap /\ toRep' = Append(toRep, m) ELSE toRep' = toRep

\* _arm_handshake: nothing while one is armed.
Arm(h, newEpoch) ==
    IF h.armed THEN h
    ELSE [h EXCEPT !.armed = TRUE, !.req = 0, !.unseen = "no", !.epoch = IF newEpoch THEN count["session"] + count["arm"] + 1 ELSE @]

\* HostSync.send_bootstrap: a newer file supersedes the chunks still queued.
SendBootstrap(h) == [h EXCEPT !.boot = @ + 1, !.at = h.seq + 1, !.out = Chunks]

\* blob_id = f"boot.{sent_boot}.{seq + 1}": both counters start again with each session.
BlobId(h) == <<h.boot, h.at>>

\* Nothing a session that has ended left is still under way towards the replica: what the replica
\* has taken, half a file included, it may still have.
Quiet == toRep = <<>> /\ cold = <<>>

\* What waited in the agent for an addon comes before the first hello: a reply then is nobody's,
\* and of pongs there is one at most under way (Ping).
Waiting ==
    LET pongs == {m \in ToSet(toHost) : m.kind = "pong"} IN
    IF pongs = {} THEN <<>> ELSE <<CHOOSE m \in pongs : TRUE>>

Start ==
    /\ ~host.on /\ May("session")
    /\ Overlap \/ Quiet
    /\ host' = Arm([HostOff EXCEPT !.on = TRUE, !.session = host.session + 1,
                                   !.epoch = count["session"] + count["arm"] + 1], FALSE)
    /\ io' = IoFresh(up)
    /\ toHost' = Waiting
    /\ Use("session")
    /\ UNCHANGED <<rep, up, ev, toRep, cold>>

\* stop(): the goodbye is sent and not waited for.
Stop ==
    /\ host.on
    /\ SendControl([kind |-> "goodbye", s |-> host.session, req |-> 0, epoch |-> 0, seq |-> 0])
    /\ host' = [HostOff EXCEPT !.session = host.session]
    /\ io' = IoFresh(FALSE) /\ ev' = <<>>
    /\ UNCHANGED <<rep, up, toHost, cold, count>>

\* request_nowait: ids count from 1 in every transport.  An id that no message of this session
\* carries any more is taken again, which keeps them few.
NewReq ==
    LET inFlight == {m.req : m \in {x \in ToSet(toRep) \cup ToSet(toHost) : x.s = host.session}} IN
    CHOOSE n \in 1..Cardinality(inFlight) + 1 : n \notin inFlight

\* make_hello: the epoch, and where the lane's counter stands.
MakeHello(epoch) ==
    [kind |-> "hello", s |-> host.session, req |-> NewReq, epoch |-> epoch, seq |-> host.seq]

\* Mutant.  The hello is built once, when the session starts, and repeated.
SendHelloBuiltOnce ==
    /\ host.on /\ host.armed /\ host.req = 0 /\ Seen
    /\ SendControl(MakeHello(host.session))
    /\ host' = [host EXCEPT !.req = NewReq]
    /\ io' = [io EXCEPT !.slot = <<>>]
    /\ UNCHANGED <<rep, up, ev, toHost, cold, count>>

\* _handshake, nothing asked yet: the hello carries the lane's seq.
SendHello ==
    /\ host.on /\ host.armed /\ host.req = 0 /\ Seen
    /\ SendControl(MakeHello(host.epoch))
    /\ host' = [host EXCEPT !.req = NewReq]
    /\ io' = [io EXCEPT !.slot = <<>>]
    /\ UNCHANGED <<rep, up, ev, toHost, cold, count>>

\* _handshake, the reply is there.
Paired ==
    /\ host.on /\ host.armed /\ host.req # 0 /\ Seen /\ io.slot # <<>> /\ io.slot[1].ok
    /\ host' = [SendBootstrap(host) EXCEPT
                    !.peer = io.slot[1].epoch, !.armed = FALSE, !.req = 0,
                    !.served = IF io.status = NoStatus THEN NoSeq ELSE io.status.boots]
    /\ io' = [io EXCEPT !.slot = <<>>]
    /\ UNCHANGED <<rep, up, ev, toRep, toHost, cold, count>>

Denied ==
    /\ host.on /\ host.armed /\ host.req # 0 /\ Seen /\ io.slot # <<>> /\ ~io.slot[1].ok
    /\ host' = [host EXCEPT !.req = 0]
    /\ io' = [io EXCEPT !.slot = <<>>]
    /\ UNCHANGED <<rep, up, ev, toRep, toHost, cold, count>>

\* _handshake, _HANDSHAKE_TIMEOUT over: cancel_request, ask again.  A timeout may come while
\* the answer is under way; how often is bounded.
Awaited == \E m \in ToSet(toRep) \cup ToSet(toHost) : m.s = host.session /\ m.req = host.req

Unanswered ==
    /\ host.on /\ host.armed /\ host.req # 0 /\ Seen /\ io.slot = <<>>
    /\ host' = [host EXCEPT !.req = 0]
    /\ UNCHANGED <<io, rep, up, ev, toRep, toHost, cold>>

Timeout == Unanswered /\ ~Awaited /\ UNCHANGED count
EarlyTimeout == Unanswered /\ Awaited /\ May("fault") /\ Use("fault")

\* _watch: a reconnect the IO thread has flagged.
WatchReconnect ==
    /\ host.on /\ Seen /\ host.reconnect
    /\ IF host.armed THEN UNCHANGED count ELSE May("arm") /\ Use("arm")
    /\ host' = Arm([host EXCEPT !.lost = FALSE, !.reconnect = FALSE], TRUE)
    /\ UNCHANGED <<io, rep, up, ev, toRep, toHost, cold>>

\* Mutant.  A replica that comes back quickly is not noticed.
NeverRestarted == FALSE

\* liveness.replica_restarted
ReplicaRestarted == io.status.epoch # 0 /\ host.peer # 0 /\ io.status.epoch # host.peer

WatchRestarted ==
    /\ host.on /\ Seen /\ ~host.reconnect /\ ~host.armed /\ ReplicaRestarted
    /\ May("arm") /\ Use("arm")
    /\ host' = Arm(host, TRUE)
    /\ UNCHANGED <<io, rep, up, ev, toRep, toHost, cold>>

\* _watch and ResyncPolicy.decide: one answer per state of the replica.
WatchResync ==
    /\ host.on /\ Seen /\ ~host.reconnect /\ ~host.armed /\ ~ReplicaRestarted
    /\ io.status.want /\ io.status.boots # host.served
    /\ May("boot") /\ Use("boot")
    /\ host' = [SendBootstrap(host) EXCEPT !.served = io.status.boots]
    /\ UNCHANGED <<io, rep, up, ev, toRep, toHost, cold>>

\* _flush_tick_inner, one chunk: seqs are taken at send time.
FlushChunk ==
    /\ host.on /\ host.out > 0 /\ io.up
    /\ cold' = IF up THEN Append(cold, [file |-> <<host.session, host.boot>>, id |-> BlobId(host),
                                        i |-> Chunks - host.out, seq |-> host.seq + 1])
                     ELSE cold
    /\ host' = [host EXCEPT !.seq = @ + 1, !.out = @ - 1, !.grace = @ \/ host.out = 1]
    /\ UNCHANGED <<io, rep, up, ev, toRep, toHost, count>>

\* boot_in_flight: chunks queued, or the last one left less than 30 s ago.
BootInFlight(h) == h.out > 0 \/ h.grace

GraceEnds ==
    /\ host.on /\ host.grace /\ Seen
    /\ host' = [host EXCEPT !.grace = FALSE]
    /\ UNCHANGED <<io, rep, up, ev, toRep, toHost, cold, count>>

-----------------------------------------------------------------------------
(* The host's IO threads.                                                  *)

\* Mutant.  A reconnect after a loss is not flagged.
OnPeerForgets(h, alive, linkUp) ==
    IF ~alive /\ ~(linkUp /\ BootInFlight(h)) THEN [h EXCEPT !.lost = TRUE] ELSE h

\* session._on_peer: pongs that come late behind a file are waited out.
OnPeer(h, alive, linkUp) ==
    IF alive THEN [h EXCEPT !.reconnect = @ \/ h.lost]
    ELSE IF linkUp /\ BootInFlight(h) THEN h
    ELSE [h EXCEPT !.lost = TRUE]

\* _io_loop: alive is recomputed on each turn, and only a change is reported.
IoTurn ==
    LET alive == io.up /\ io.pong IN
    /\ host.on /\ alive # io.alive
    /\ io' = [io EXCEPT !.alive = alive, !.born = @ \/ alive]
    /\ host' = OnPeer(host, alive, io.up)
    /\ UNCHANGED <<rep, up, ev, toRep, toHost, cold, count>>

\* _io_loop, a second has passed; one ping under way at a time.
Ping ==
    /\ host.on /\ io.up /\ up
    /\ \A m \in ToSet(toRep) \cup ToSet(toHost) : m.kind \notin {"ping", "pong"}
    /\ SendControl([kind |-> "ping", s |-> host.session, req |-> 0, epoch |-> 0, seq |-> 0])
    /\ UNCHANGED <<host, io, rep, up, ev, toHost, cold, count>>

\* heartbeat_misses intervals without a pong.
PongsLate ==
    /\ host.on /\ io.pong /\ Turned
    /\ IF rep.here /\ up THEN May("fault") /\ Use("fault") ELSE UNCHANGED count
    /\ io' = [io EXCEPT !.pong = FALSE]
    /\ UNCHANGED <<host, rep, up, ev, toRep, toHost, cold>>

\* _handle_event: a peer event; a lost connection forgets the last pong, not the last status.
\* unseen records, for the properties, a loss that changes nothing _io_loop could report.
TakeEvent ==
    /\ host.on /\ ev # <<>> /\ ev' = Tail(ev)
    /\ io' = IF Head(ev) THEN [io EXCEPT !.up = TRUE]
                            ELSE [io EXCEPT !.up = FALSE, !.pong = FALSE]
    /\ host' = [host EXCEPT !.unseen = IF @ # "no" \/ Head(ev) \/ io.alive \/ host.lost THEN @
                                       ELSE IF io.born THEN "waited" ELSE "unborn"]
    /\ UNCHANGED <<rep, up, toRep, toHost, cold, count>>

\* _handle_reply: a pong, the answer to a request still pending, or one nobody waits for.
\* Request ids start at 1 with every transport.
TakeControl ==
    /\ host.on /\ ev = <<>> /\ toHost # <<>> /\ toHost' = Tail(toHost)
    /\ LET m == Head(toHost) IN
       io' = CASE m.kind = "pong" -> [io EXCEPT !.pong = TRUE, !.status = m.status]
               [] m.kind = "reply" /\ m.req = host.req /\ host.req # 0 -> [io EXCEPT !.slot = <<[ok |-> m.ok, epoch |-> m.epoch]>>]
               [] OTHER -> io
    /\ UNCHANGED <<host, rep, up, ev, toRep, cold, count>>

-----------------------------------------------------------------------------
(* The replica's IO thread.                                                *)

Reply(m) == IF up THEN Len(toHost) < LaneCap /\ toHost' = Append(toHost, m) ELSE toHost' = toHost

\* _handler, hello: a new host epoch resets the trackers on the next tick.
TakeHello(m) ==
    /\ rep' = IF ~rep.mirrored THEN rep
              ELSE [rep EXCEPT !.peer = m.epoch, !.told = @ \cup {m.epoch},
                               !.new = @ \/ rep.peer # m.epoch,
                               !.base = IF rep.peer # m.epoch THEN m.seq ELSE @]
    /\ Reply([kind |-> "reply", s |-> m.s, req |-> m.req, ok |-> rep.mirrored, epoch |-> rep.epoch,
              status |-> NoStatus])

\* set_status_provider and _serve_control.
TakePing(m) ==
    /\ Reply([kind |-> "pong", s |-> m.s, req |-> 0, ok |-> TRUE, epoch |-> 0,
              status |-> [epoch |-> rep.epoch, want |-> rep.want, boots |-> rep.boots]])
    /\ UNCHANGED rep

TakeGoodbye(m) == rep' = [rep EXCEPT !.bye = TRUE] /\ UNCHANGED toHost

Serve ==
    /\ rep.here /\ toRep # <<>> /\ toRep' = Tail(toRep)
    /\ LET m == Head(toRep) IN
       \/ m.kind = "hello" /\ TakeHello(m)
       \/ m.kind = "ping" /\ TakePing(m)
       \/ m.kind = "goodbye" /\ TakeGoodbye(m)
    /\ UNCHANGED <<host, io, up, ev, cold, count>>

-----------------------------------------------------------------------------
(* The replica's main thread: one tick, in the order of _tick_inner.       *)

HandleGoodbye(r) == IF r.bye THEN [r EXCEPT !.bye = FALSE, !.ended = TRUE] ELSE r

\* Mutant.  A new host session keeps the partial blobs of the earlier one.
HandleNewSessionKeeps(r) ==
    IF r.new THEN [r EXCEPT !.new = FALSE, !.last = r.base, !.want = FALSE] ELSE r

\* The trackers are primed from the hello; what is already received stays queued.
HandleNewSession(r) ==
    IF r.new THEN [r EXCEPT !.new = FALSE, !.last = r.base, !.parts = {}, !.want = FALSE] ELSE r

\* _apply_pending_batch, a file.
ApplyFile(r) ==
    IF r.pending # {} THEN [r EXCEPT !.pending = {}, !.holds = r.pending, !.boots = @ + 1,
                                     !.want = FALSE, !.ended = FALSE]
    ELSE r

\* SeqTracker.observe
Observe(r, seq) ==
    [r EXCEPT !.want = @ \/ (r.last # NoSeq /\ seq # r.last + 1),
              !.last = IF r.last = NoSeq \/ seq > r.last THEN seq ELSE @]

\* _dispatch, a chunk: another blob of the same datablock drops the partial one, and
\* Reassembler.feed goes by the blob's id alone.
Feed(r, f) ==
    LET parts == {p \in r.parts : p.id = f.id /\ p.i # f.i} \cup {f} IN
    IF Cardinality(parts) < Chunks THEN [r EXCEPT !.parts = parts]
    ELSE [r EXCEPT !.parts = {}, !.pending = {p.file : p \in parts}]

Tick ==
    LET r == ApplyFile(HandleNewSession(HandleGoodbye(rep))) IN
    /\ rep.here
    /\ \/ /\ cold # <<>> /\ cold' = Tail(cold)
          /\ rep' = Feed(Observe(r, Head(cold).seq), Head(cold))
       \/ r # rep /\ rep' = r /\ UNCHANGED cold
    /\ UNCHANGED <<host, io, up, ev, toRep, toHost, count>>

\* The agent's settings reach the addon: until then every hello is refused.
Mirror ==
    /\ rep.here /\ ~rep.mirrored
    /\ rep' = [rep EXCEPT !.mirrored = TRUE]
    /\ UNCHANGED <<host, io, up, ev, toRep, toHost, cold, count>>

-----------------------------------------------------------------------------
(* Faults, and what ends them.                                             *)

PrefixesOf(s) == {SubSeq(s, 1, n) : n \in 0..Len(s)}
SuffixesOf(s) == {SubSeq(s, n, Len(s)) : n \in 1..Len(s) + 1}

\* host_loop: the connection ends, in flight what has not reached the other agent.
Drop ==
    /\ up /\ Seen /\ May("fault") /\ Use("fault")
    /\ up' = FALSE
    /\ ev' = IF host.on THEN Append(ev, FALSE) ELSE ev
    /\ toRep' \in PrefixesOf(toRep) /\ toHost' = <<>> /\ cold' \in PrefixesOf(cold)
    /\ UNCHANGED <<host, io, rep>>

Connect ==
    /\ ~up /\ Seen /\ up' = TRUE
    /\ ev' = IF host.on THEN Append(ev, TRUE) ELSE ev
    /\ UNCHANGED <<host, io, rep, toRep, toHost, cold, count>>

\* The replica's Blender ends; what had reached it is gone, what its agent holds is not.
ReplicaEnds ==
    /\ rep.here /\ May("fault") /\ Use("fault")
    /\ rep' = [RepFresh(rep.epoch) EXCEPT !.here = FALSE]
    /\ toRep' \in SuffixesOf(toRep) /\ cold' \in SuffixesOf(cold)
    /\ UNCHANGED <<host, io, up, ev, toHost>>

ReplicaStarts ==
    /\ ~rep.here
    /\ rep' = RepFresh(rep.epoch + 1)
    /\ UNCHANGED <<host, io, up, ev, toRep, toHost, cold, count>>

HostStep ==
    \/ SendHello \/ Paired \/ Denied \/ Timeout \/ WatchReconnect \/ WatchRestarted \/ WatchResync
    \/ FlushChunk \/ GraceEnds \/ IoTurn \/ Ping \/ TakeEvent \/ TakeControl
RepStep == Serve \/ Tick \/ Mirror \/ ReplicaStarts
Next == HostStep \/ RepStep \/ Connect \/ Start \/ Stop \/ EarlyTimeout \/ PongsLate \/ Drop \/ ReplicaEnds

Spec == Init /\ [][Next]_vars

Fairness ==
    /\ WF_vars(SendHello) /\ WF_vars(Paired) /\ WF_vars(Denied) /\ WF_vars(Timeout)
    /\ WF_vars(WatchReconnect) /\ WF_vars(WatchRestarted) /\ WF_vars(WatchResync)
    /\ WF_vars(FlushChunk) /\ WF_vars(IoTurn) /\ SF_vars(Ping)
    /\ WF_vars(TakeEvent) /\ WF_vars(TakeControl)
    /\ WF_vars(Serve) /\ WF_vars(Tick) /\ WF_vars(Mirror) /\ WF_vars(ReplicaStarts)
    /\ WF_vars(Connect)
FairSpec == Spec /\ Fairness

-----------------------------------------------------------------------------
Epochs == 0..MaxSessions + MaxArms
RepEpochs == 0..MaxFaults + 1
Files == (1..MaxSessions) \X (1..MaxSessions + MaxArms + MaxBoots)
Statuses == [epoch : RepEpochs, want : BOOLEAN, boots : Nat]
ToRepMsgs == [kind : {"hello", "ping", "goodbye"}, s : 1..MaxSessions, req : Nat, epoch : Epochs, seq : Nat]
ToHostMsgs == [kind : {"reply", "pong"}, s : 1..MaxSessions, req : Nat, ok : BOOLEAN,
               epoch : RepEpochs, status : Statuses]
FileChunks == [file : Files, id : Nat \X Nat, i : 0..Chunks - 1, seq : Nat \ {0}]

\* Types, and: no queue holds more than its bound, a request pending belongs to an armed
\* handshake.
TypeOK ==
    /\ host \in [on : BOOLEAN, session : 0..MaxSessions, epoch : Epochs, armed : BOOLEAN, req : Nat,
                 peer : RepEpochs, lost : BOOLEAN, reconnect : BOOLEAN, served : Nat \cup {NoSeq},
                 boot : Nat, at : Nat, out : 0..Chunks, grace : BOOLEAN, seq : Nat, unseen : {"no", "unborn", "waited"}]
    /\ io.slot \in {<<>>} \cup {<<[ok |-> b, epoch |-> e]>> : b \in BOOLEAN, e \in RepEpochs}
    /\ io.status \in Statuses /\ {io.up, io.pong, io.alive, io.born} \subseteq BOOLEAN
    /\ rep.epoch \in RepEpochs /\ rep.peer \in Epochs /\ rep.last \in Nat \cup {NoSeq}
    /\ rep.parts \subseteq FileChunks /\ rep.holds \subseteq Files /\ rep.told \subseteq Epochs
    /\ ToSet(toRep) \subseteq ToRepMsgs /\ ToSet(toHost) \subseteq ToHostMsgs
    /\ ToSet(cold) \subseteq FileChunks
    /\ Len(toRep) <= LaneCap /\ Len(toHost) <= LaneCap
    /\ host.req # 0 => host.on /\ host.armed

\* A host that believes itself paired with the replica's present process has told it the epoch
\* it now numbers under: replies answer the hello they are taken for (poll_reply,
\* cancel_request), whatever timed out, was refused or was armed again in between.
AnswersItsHello ==
    host.on /\ ~host.armed /\ rep.here /\ host.peer = rep.epoch => host.epoch \in rep.told

\* What Reassembler hands over, and what the replica then loads, is one file and not pieces of
\* two: files supersede each other halfway, and a session that starts while the replica holds half
\* a file of the one before numbers its blobs as that one did.  The first hello has the partial
\* blobs dropped before a chunk of the new session is taken.  Chunks of the earlier session still
\* in the agents when the later one starts are excepted (Overlap).
FileWhole == Cardinality(rep.pending) <= 1 /\ Cardinality(rep.holds) <= 1

\* A handshake or a file is due that the bounds forbid: nothing is claimed.
Spent ==
    /\ ~host.armed
    /\ \/ (host.reconnect \/ ReplicaRestarted) /\ ~May("arm")
       \/ io.status.want /\ io.status.boots # host.served /\ ~May("boot")

\* After connections and replica processes lost, hellos given up and late pongs, a session that
\* goes on ends up paired with the replica process there is.
PairsAgain == <>[](~host.on \/ Spent \/ (~host.armed /\ host.peer = rep.epoch))

\* The file last sent is what the replica ends up with, unless a connection ended without
\* _io_loop having anything to report (host.unseen): it had not yet been alive, or late pongs
\* were being waited out.
FileArrives == <>[](~host.on \/ Spent \/ host.unseen # "no" \/ rep.holds = {<<host.session, host.boot>>})

-----------------------------------------------------------------------------
(* What the code says of itself and does not keep (README, section 3).     *)

\* "Transport blips re-handshake too ... because frames sent into the outage are gone"
\* (_handshake): the file arrives whatever connection is lost, once pongs have come in at all.
BlipsResend == <>[](~host.on \/ Spent \/ host.unseen = "unborn" \/ rep.holds = {<<host.session, host.boot>>})
=============================================================================
