------------------------------- MODULE MCFcyc -------------------------------
(* An instance of Fcyc for TLC: the code's K = 3 and one less, with fewer  *)
(* samples and a coarser epsilon so that small times can agree and not;    *)
(* caches of two sizes, and one block that is smaller than a word.         *)
EXTENDS Fcyc

MCDefaults ==
  [kbest |-> 3, maxsamples |-> 4, min_reps |-> 2, min_ticks |-> 7,
   clear_cache |-> FALSE, cache_bytes |-> 64, cache_block |-> 32]

MCSettings ==
  {<<"kbest", 2>>, <<"kbest", 3>>, <<"min_ticks", 3>>,
   <<"clear_cache", TRUE>>, <<"cache_bytes", 128>>, <<"cache_block", 4>>}
=============================================================================
