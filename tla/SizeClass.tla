------------------------------ MODULE SizeClass ------------------------------
(***************************************************************************)
(* The size arithmetic of the allocator in mm.c: how a request becomes a   *)
(* block size (align), and which of the segregated free lists holds blocks *)
(* of a given size (get_list_index).  All sizes are C size_t values, so    *)
(* sums and products are taken modulo WORD.                                *)
(***************************************************************************)
EXTENDS Integers, FiniteSets

CONSTANTS
  NumLists,       (* length of segregated_free_lists; 14 in the code         *)
  SearchedLists,  (* malloc's loop visits lists index .. SearchedLists - 1;  *)
                  (* 12 in the code                                          *)
  ClassLimit,     (* ClassLimit[i]: the largest block size kept in list i;   *)
                  (* the last list has no limit                              *)
  WORD            (* number of values of a size_t; 2^64 in the code          *)

ASSUME SizeClassAssumption ==
  /\ NumLists \in Nat \ {0}
  /\ SearchedLists \in 1 .. NumLists - 1
  /\ ClassLimit \in [0 .. NumLists - 2 -> Nat]
  /\ \A i, j \in 0 .. NumLists - 2 : i < j => ClassLimit[i] < ClassLimit[j]
  /\ WORD \in Nat \ {0}

ALIGNMENT == 16   (* payload alignment and the granularity of block sizes *)
WSIZE     == 8    (* bytes of a block header                              *)
SPLIT_MIN == 32   (* the smallest remainder split() makes a block of      *)

Lists == 0 .. NumLists - 1

-----------------------------------------------------------------------------
(* The limits of the code's chain of comparisons: 32, 64, 128, ... 131072. *)
CodeLimit(i) == 32 * 2^i

(***************************************************************************)
(* Every comparison of the chain that fails moves on by one list, so the   *)
(* index is the number of limits the size exceeds.  get_list_index_Strict  *)
(* is a mutant: it compares with < where the code compares with <=.        *)
(***************************************************************************)
get_list_index_Strict(size) ==
  Cardinality({i \in 0 .. NumLists - 2 : size >= ClassLimit[i]})

get_list_index(size) ==
  Cardinality({i \in 0 .. NumLists - 2 : size > ClassLimit[i]})

(* Rounds up to a multiple of ALIGNMENT, in size_t arithmetic.  align_Down *)
(* is a mutant that forgets to add ALIGNMENT - 1.                          *)
align_Down(x) == ALIGNMENT * (x \div ALIGNMENT)

align(x) == ALIGNMENT * (((x + ALIGNMENT - 1) % WORD) \div ALIGNMENT)

(* The block size malloc looks for: the request plus its header, rounded   *)
(* up.  asize_NoHeader is a mutant that forgets the header.                *)
asize_NoHeader(size) == align(size)

asize(size) == align((size + WSIZE) % WORD)

(* The byte count calloc asks malloc for. *)
calloc_size(nmemb, size) == (nmemb * size) % WORD

(* A request whose block size does not wrap around. *)
Representable(size) == size + WSIZE + ALIGNMENT - 1 < WORD
=============================================================================
