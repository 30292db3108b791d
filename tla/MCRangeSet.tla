----------------------------- MODULE MCRangeSet -----------------------------
(* An instance of RangeSet for TLC: addresses in units of four bytes, one *)
(* misaligned and two outside the heap among them.                         *)
EXTENDS RangeSet

MCAddrs == {2, 4, 8, 12, 16, 20, 24}
=============================================================================
