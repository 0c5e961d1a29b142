------------------------------- MODULE MCSync -------------------------------
(* SyncSession with small sets of datablocks; the .cfg files choose the    *)
(* bounds.                                                                 *)
EXTENDS SyncSession
=============================================================================
