------------------------------- MODULE MCLink -------------------------------
(* Instance of AgentLink: the first and third frame fit the window together, *)
(* the second exceeds it alone.                                            *)
EXTENDS AgentLink
FrameCost == SubSeq(<<1, 3, 1>>, 1, MaxFrames)
=============================================================================
