----------------------------- MODULE LibcReplay -----------------------------
(***************************************************************************)
(* A trace file under option -l: besides this repository's allocator (the  *)
(* steps of Replay) mdriver replays each trace with the malloc package of  *)
(* the C library, eval_libc_valid once and eval_libc_speed as often as     *)
(* fcyc wants.  Of that package only the blocks in use are modelled, each  *)
(* an address that no other block in use has; a call may also fail.        *)
(***************************************************************************)
EXTENDS Replay

CONSTANTS
  MaxRounds,   (* speed replays, at most                                    *)
  Places(_)    (* where the C library may put a block besides those in use  *)

ASSUME LibcAssumption ==
  /\ MaxRounds \in Nat \ {0}
  /\ \A inuse \in SUBSET Words : Places(inuse) \subseteq Words \ (inuse \cup {NULL})

VARIABLES
  package,   (* "mm" or "libc"                                              *)
  live,      (* the C library's blocks in use                               *)
  leaked,    (* those that earlier replays of the trace never gave back     *)
  rounds     (* speed replays begun                                         *)

libc == <<live, leaked, rounds>>

LibcInit ==
  /\ Init
  /\ package \in {"mm", "libc"}
  /\ package = "libc" => debug_mode = "cheap"   (* no difference with libc *)
  /\ live = {} /\ leaked = {} /\ rounds = 0

-----------------------------------------------------------------------------
(* The C library *)

(* What malloc(size), realloc(p, size) and free(p) may return and leave in *)
(* use.  A realloc that fails leaves the old block alone; one to no bytes  *)
(* gives it back, and need not return another.                             *)
LibcMalloc ==
  {[ptr |-> NULL, live |-> live]} \cup {[ptr |-> b, live |-> live \cup {b}] : b \in Places(live)}

LibcRealloc(p, size) ==
  {[ptr |-> NULL, live |-> IF size = 0 THEN live \ {p} ELSE live]}
  \cup {[ptr |-> b, live |-> (live \ {p}) \cup {b}] : b \in Places(live)}
  \cup (IF p = NULL \/ size = 0 THEN {} ELSE {[ptr |-> p, live |-> live]})

LibcFree(p) == {[ptr |-> p, live |-> live \ {p}]}

-----------------------------------------------------------------------------
(* eval_libc_valid and eval_libc_speed *)

(* reinit_trace forgets the blocks that the last replay left in use. *)
LibcBegin ==
  /\ package = "libc" /\ phase \in {"valid1", "libc_speed"} /\ i = 0
  /\ phase' = IF phase = "valid1" THEN "libc_valid" ELSE phase
  /\ rounds' = IF phase = "valid1" THEN rounds ELSE rounds + 1
  /\ i' = 1
  /\ blocks' = [id \in Ids |-> NULL]
  /\ block_sizes' = [id \in Ids |-> 0]
  /\ leaked' = live
  /\ UNCHANGED <<debug_mode, file, ops, mm, ranges, rand_base, complaint, sizes, first,
                 package, live>>

(* fcyc repeats eval_libc_speed. *)
LibcEnd ==
  /\ package = "libc" /\ phase \in {"libc_valid", "libc_speed"} /\ Finished
  /\ i' = 0
  /\ \/ rounds < MaxRounds /\ phase' = "libc_speed"
     \/ rounds > 0 /\ phase' = "done"
  /\ UNCHANGED <<debug_mode, file, ops, mm, ranges, trace, complaint, sizes, first,
                 package, libc>>

Libc(type) == package = "libc" /\ At({"libc_valid", "libc_speed"}, type)

(* A call that fails ends the driver (unix_error). *)
LibcStores(id, r, failed) ==
  /\ live' = r.live
  /\ IF failed
       THEN /\ complaint' = "failed" /\ phase' = "exit"
            /\ UNCHANGED <<i, blocks>>
       ELSE /\ blocks' = IF id = -1 THEN blocks ELSE [blocks EXCEPT ![id] = r.ptr]
            /\ i' = i + 1
            /\ UNCHANGED <<complaint, phase>>
  /\ UNCHANGED <<debug_mode, file, ops, mm, ranges, block_sizes, rand_base, sizes, first,
                 package, leaked, rounds>>

LibcAlloc ==
  /\ Libc("a")
  /\ \E r \in LibcMalloc : LibcStores(ops[i].index, r, r.ptr = NULL)

(* LibcReallocs_KeepsOld is a mutant that does not store the new address. *)
LibcReallocs_KeepsOld ==
  /\ Libc("r")
  /\ \E r \in LibcRealloc(blocks[ops[i].index], ops[i].size) :
       LibcStores(-1, r, r.ptr = NULL /\ ops[i].size # 0)

LibcReallocs ==
  /\ Libc("r")
  /\ \E r \in LibcRealloc(blocks[ops[i].index], ops[i].size) :
       LibcStores(ops[i].index, r, r.ptr = NULL /\ ops[i].size # 0)

(* The entry of a block that was given back keeps its address. *)
LibcFrees ==
  /\ Libc("f")
  /\ LET p == IF ops[i].index = -1 THEN NULL ELSE blocks[ops[i].index]
     IN  \E r \in LibcFree(p) : LibcStores(-1, r, FALSE)

LibcNext ==
  \/ package = "mm" /\ Next /\ UNCHANGED <<package, libc>>
  \/ package = "libc" /\ ReadTrace /\ UNCHANGED <<package, libc>>
  \/ LibcBegin \/ LibcEnd \/ LibcAlloc \/ LibcReallocs \/ LibcFrees

LibcSpec == LibcInit /\ [][LibcNext]_<<vars, package, libc>>

-----------------------------------------------------------------------------
(* Property *)

(* The addresses of the ids in use. *)
Held == {blocks[id] : id \in {j \in Ids : InUse(j)}} \ {NULL}

(***************************************************************************)
(* The C library's blocks in use are those the trace has in use now, one   *)
(* for each id, and those an earlier replay of the trace never gave back:  *)
(* within a replay nothing is lost and nothing is given back that the      *)
(* trace still uses, although freed entries keep their old addresses and   *)
(* the library hands the same addresses out again.                         *)
(***************************************************************************)
LibcBlocksKept ==
  (phase \in {"libc_valid", "libc_speed"} /\ i > 0) =>
    /\ live = leaked \cup Held /\ leaked \cap Held = {}
    /\ \A a, b \in Ids : (a # b /\ InUse(a) /\ InUse(b) /\ blocks[a] = blocks[b]) => blocks[a] = NULL
=============================================================================
