----------------------------- MODULE OrderedLane -----------------------------
(***************************************************************************)
(* What a lane promises to the two addons, whatever happens to sessions,   *)
(* agents' queues and addons in between: a frame may be lost, but those    *)
(* that arrive do so in the order they were sent, each at most once.  The  *)
(* trackers of ring1/merge.py rest on this: a higher seq means that every  *)
(* lower one has arrived or is lost, never that it is still to come.       *)
(***************************************************************************)
EXTENDS Naturals

CONSTANTS
    Chan,   \* one channel for each lane and sending addon
    MaxNum  \* bound: the highest number a frame can have

VARIABLES
    pend,   \* numbers of the frames under way
    seen    \* the number delivered last

vars == <<pend, seen>>

Num == 1..MaxNum

Init ==
    /\ pend = [c \in Chan |-> {}]
    /\ seen = [c \in Chan |-> 0]

Send(c) ==
    \E n \in Num :
       /\ n > seen[c] /\ \A m \in pend[c] : n > m
       /\ pend' = [pend EXCEPT ![c] = @ \cup {n}]
       /\ UNCHANGED seen

\* Several frames may go at once, on several channels: a session ends.
Lose ==
    /\ pend' \in {p \in [Chan -> SUBSET Num] : \A c \in Chan : p[c] \subseteq pend[c]}
    /\ UNCHANGED seen

\* The oldest frame under way is the next to arrive.
Deliver(c) ==
    \E n \in pend[c] :
       /\ \A m \in pend[c] : n <= m
       /\ seen' = [seen EXCEPT ![c] = n]
       /\ pend' = [pend EXCEPT ![c] = @ \ {n}]

Next == Lose \/ \E c \in Chan : Send(c) \/ Deliver(c)

Spec == Init /\ [][Next]_vars

\* Nothing older than what has arrived is still to come.
Behind == \A c \in Chan : \A n \in pend[c] : seen[c] < n

\* What arrives is always newer than all that arrived before.
Forward == [][\A c \in Chan : seen'[c] # seen[c] => seen'[c] > seen[c]]_vars
=============================================================================
