---------------------------- MODULE MCSplayTree -----------------------------
(* An instance of SplayTree for TLC: every tree over a few keys. *)
EXTENDS SplayTree

MCKeys == 1 .. 5
=============================================================================
