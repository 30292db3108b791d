------------------------------- MODULE Replay -------------------------------
(***************************************************************************)
(* One trace file on its way through mdriver: read_trace, eval_mm_valid    *)
(* (twice), eval_mm_util and eval_mm_speed, over the word-level allocator  *)
(* of MmWords and the range set of RangeList.  All replays use one heap    *)
(* whose words nobody clears in between.                                   *)
(*                                                                         *)
(* Payload data is looked at in words: sizes and maxfill are whole words,  *)
(* and no two entries of random_data are alike, but random() may give any  *)
(* two blocks the same place in it.                                        *)
(***************************************************************************)
EXTENDS MmWords

CONSTANTS
  Files,            (* trace files: [weight, num_ids, num_ops, lines], each *)
                    (* line [type, index, size]                             *)
  maxfill,          (* words filled at either end of a payload              *)
  RANDOM_DATA_LEN,  (* words of random_data                                 *)
  Bases             (* what random() returns                                *)

R == INSTANCE RangeList WITH HeapLo <- 0

(* The last of the first n lines about an id is not a free. *)
InUseAfter(lines, n, id) ==
  \E j \in 1 .. n :
    /\ lines[j].index = id /\ lines[j].type # "f"
    /\ \A k \in j + 1 .. n : lines[k].index # id

(* The traces use their ids as a program does its pointers: none is        *)
(* allocated again while it is in use, none moved or freed while it is not.*)
AsAProgram(lines) ==
  \A k \in DOMAIN lines :
    LET used == InUseAfter(lines, k - 1, lines[k].index)
    IN  /\ lines[k].type = "a" => ~ used
        /\ lines[k].type = "r" => used
        /\ lines[k].type = "f" => used \/ lines[k].index = -1

IsLine(l) ==
  /\ l.size % WSIZE = 0 /\ Representable(l.size)
  /\ l.index \in Nat \/ (l.index = -1 /\ l.type = "f")

ASSUME ReplayAssumption ==
  /\ maxfill \in Nat \ {0} /\ RANDOM_DATA_LEN \in Nat \ {0} /\ Bases \subseteq Nat
  /\ \A f \in Files :
       /\ f.num_ids \in Nat \ {0} /\ f.num_ops \in Nat \ {0}
       /\ f.lines \in Seq([type : STRING, index : Int, size : Nat])
       /\ \A k \in DOMAIN f.lines : IsLine(f.lines[k])
       /\ AsAProgram(f.lines)

VARIABLES
  debug_mode,   (* "none", "cheap" or "expensive"                            *)
  file,         (* the trace file                                            *)
  phase,        (* what run_tests is at: "read", "valid1", "valid2", "util", *)
                (* "speed", or how it ended: "exit", "invalid", "app_error", *)
                (* "done"; two more in LibcReplay                            *)
  ops,          (* trace->ops                                                *)
  i,            (* the next operation of the replay, 0 before it begins      *)
  mm, ranges,
  blocks,       (* trace->blocks[id]                                         *)
  block_sizes,  (* trace->block_sizes[id]                                    *)
  rand_base,    (* trace->block_rand_base[id]                                *)
  complaint,    (* the driver's error message, or "none"                     *)
  sizes,        (* [total, max_total, max_heap] of eval_mm_util              *)
  first         (* where the first replay left the break and the blocks      *)

trace == <<blocks, block_sizes, rand_base>>
vars == <<debug_mode, file, phase, ops, i, mm, ranges, trace, complaint, sizes, first>>

Valid == {"valid1", "valid2"}
Ids == 0 .. file.num_ids - 1

-----------------------------------------------------------------------------
(* Filling payloads and checking them *)

Pattern(base, k) == -(2 + ((base + k) % RANDOM_DATA_LEN))

(* The words of a payload of n words that are filled, and which element of *)
(* the pattern each gets; the end is left out if both is false.            *)
FilledWords(n, both) ==
  LET front == MinOf(n, maxfill)
      back == IF ~ both \/ n <= maxfill THEN 0 ELSE MinOf(n - maxfill, maxfill)
  IN  [k \in (0 .. front - 1) \cup (n - back .. n - 1) |->
         IF k < front THEN k ELSE k - (n - back)]

randomize_block(m, p, size, base) ==
  LET filled == FilledWords(size \div WSIZE, TRUE)
  IN  [m EXCEPT !.mem = [w \in Words |->
         LET k == w - p \div WSIZE
         IN  IF k \in DOMAIN filled THEN Pattern(base, filled[k]) ELSE m.mem[w]]]

(* check_index_BothEnds is a mutant that looks at the end of a payload     *)
(* even after realloc.                                                     *)
check_index_BothEnds(m, p, size, base, realloced) ==
  LET filled == FilledWords(size \div WSIZE, TRUE)
  IN  \A k \in DOMAIN filled : GET(m, p + WSIZE * k) = Pattern(base, filled[k])

check_index(m, p, size, base, realloced) ==
  LET filled == FilledWords(size \div WSIZE, ~ realloced)
  IN  \A k \in DOMAIN filled : GET(m, p + WSIZE * k) = Pattern(base, filled[k])

(* With DBG_NONE nothing is filled or checked, and no range is recorded. *)
Intact(m, p, size, base, realloced) ==
  debug_mode = "none" \/ check_index(m, p, size, base, realloced)

Judged(records, lo, hi, heap_hi) ==
  IF debug_mode = "none" THEN R!JudgeExtent(lo, hi, heap_hi)
  ELSE R!Judge(records, lo, hi, heap_hi)

Recorded(records, lo, hi, heap_hi) ==
  IF debug_mode = "none" THEN records ELSE R!add_range(records, lo, hi, heap_hi)

InUse(id) == InUseAfter(ops, i - 1, id)

(* The records met on the list from its head on. *)
ListedIn(n, r) ==
  LET Met[k \in 0 .. n] ==
        IF k = 0 THEN {r.list} \ {NULL}
        ELSE Met[k - 1] \cup ({r.node[lo].next : lo \in Met[k - 1]} \ {NULL})
  IN  Met[n]

(* DBG_EXPENSIVE: every block on the list is checked before an operation   *)
(* (mm_checkheap always says yes).                                         *)
WalkOK ==
  debug_mode = "expensive" =>
    \A id \in Ids :
      (InUse(id) /\ blocks[id] \in ListedIn(file.num_ids, ranges))
      => check_index(mm, blocks[id], block_sizes[id], rand_base[id], FALSE)

-----------------------------------------------------------------------------
(* read_trace *)

Read == SubSeq(file.lines, 1, MinOf(file.num_ops, Len(file.lines)))

max_index == Max({0} \cup {Read[k].index : k \in {j \in DOMAIN Read : Read[j].type # "f"}})

(* ReadError_AnyIndex is a mutant without the assertion on max_index. *)
ReadError_AnyIndex ==
  IF file.weight \notin 0 .. 3 THEN "weight"
  ELSE IF \E k \in DOMAIN Read : Read[k].type \notin {"a", "r", "f"} THEN "bogus"
  ELSE IF file.num_ops # Len(Read) THEN "assert"
  ELSE "none"

ReadError ==
  IF file.weight \notin 0 .. 3 THEN "weight"
  ELSE IF \E k \in DOMAIN Read : Read[k].type \notin {"a", "r", "f"} THEN "bogus"
  ELSE IF max_index # file.num_ids - 1 \/ file.num_ops # Len(Read) THEN "assert"
  ELSE "none"

(* mem_init's fresh mapping reads as zeros. *)
Init ==
  /\ debug_mode \in {"none", "cheap", "expensive"}
  /\ file \in Files
  /\ phase = "read" /\ ops = << >> /\ i = 0
  /\ mm = mm_init([mem |-> [w \in Words |-> 0], brk |-> 0, lists |-> << >>])
  /\ ranges = R!new_range_set
  /\ blocks = [id \in Ids |-> NULL]
  /\ block_sizes = [id \in Ids |-> 0]
  /\ rand_base = [id \in Ids |-> 0]
  /\ complaint = "none"
  /\ sizes = [total |-> 0, max_total |-> 0, max_heap |-> 0]
  /\ first = << >>

ReadTrace ==
  /\ phase = "read"
  /\ complaint' = ReadError
  /\ phase' = IF complaint' = "none" THEN "valid1" ELSE "exit"
  /\ ops' = IF complaint' = "none" THEN Read ELSE ops
  /\ UNCHANGED <<debug_mode, file, i, mm, ranges, trace, sizes, first>>

-----------------------------------------------------------------------------
(* The frame of a replay *)

(* What every replay starts with: mem_reset_brk and mm_init, reinit_trace, *)
(* and in eval_mm_valid reset_range_set.  mm_init fails only in a heap of   *)
(* less than a word.  BeginReplay_KeepsBreak is a mutant in which only     *)
(* eval_mm_valid resets the break.                                         *)
BeginReplay_KeepsBreak ==
  /\ phase \in Valid \cup {"util", "speed"} /\ i = 0
  /\ i' = 1
  /\ mm' = IF phase \in Valid THEN mm_init(mm)
           ELSE [mm_init(mm) EXCEPT !.brk = MinOf(mm.brk + WSIZE, MaxHeap)]
  /\ ranges' = IF phase \in Valid THEN R!new_range_set ELSE ranges
  /\ blocks' = [id \in Ids |-> NULL]
  /\ block_sizes' = [id \in Ids |-> 0]
  /\ sizes' = [total |-> 0, max_total |-> 0, max_heap |-> 0]
  /\ UNCHANGED <<debug_mode, file, phase, ops, rand_base, complaint, first>>

BeginReplay ==
  /\ phase \in Valid \cup {"util", "speed"} /\ i = 0
  /\ i' = 1
  /\ mm' = mm_init(mm)
  /\ ranges' = IF phase \in Valid THEN R!new_range_set ELSE ranges
  /\ blocks' = [id \in Ids |-> NULL]
  /\ block_sizes' = [id \in Ids |-> 0]
  /\ sizes' = [total |-> 0, max_total |-> 0, max_heap |-> 0]
  /\ UNCHANGED <<debug_mode, file, phase, ops, rand_base, complaint, first>>

Finished == i = Len(ops) + 1

(* run_tests goes on to the next evaluation; fsec repeats eval_mm_speed as *)
(* often as it needs.                                                      *)
EndReplay ==
  /\ Finished
  /\ i' = 0
  /\ \/ phase = "valid1" /\ phase' = "valid2"
     \/ phase = "valid2" /\ phase' = "util"
     \/ phase = "util"   /\ phase' = "speed"
     \/ phase = "speed"  /\ phase' \in {"speed", "done"}
  /\ first' = IF phase = "valid1" THEN [brk |-> mm.brk, blocks |-> blocks] ELSE first
  /\ UNCHANGED <<debug_mode, file, ops, mm, ranges, trace, complaint, sizes>>

(* The operation at hand, in one of these evaluations. *)
At(phases, type) == phase \in phases /\ i \in DOMAIN ops /\ ops[i].type = type

-----------------------------------------------------------------------------
(* eval_mm_valid *)

(* malloc_error and return false: nothing of the replay is used any more.  *)
Reject(why) ==
  /\ complaint' = why /\ phase' = "invalid"
  /\ UNCHANGED <<debug_mode, file, ops, i, mm, ranges, trace, sizes, first>>

(* The new payload p of size bytes is remembered and filled. *)
Accept(id, r, size, records) ==
  /\ IF debug_mode = "none"
       THEN mm' = r.mm /\ UNCHANGED rand_base
       ELSE \E base \in Bases :
              /\ rand_base' = [rand_base EXCEPT ![id] = base]
              /\ mm' = randomize_block(r.mm, r.ptr, size, base)
  /\ ranges' = records
  /\ blocks' = [blocks EXCEPT ![id] = r.ptr]
  /\ block_sizes' = [block_sizes EXCEPT ![id] = size]
  /\ i' = i + 1
  /\ UNCHANGED <<debug_mode, file, phase, ops, complaint, sizes, first>>

ValidAlloc ==
  LET id == ops[i].index
      size == ops[i].size
      Hi(r) == r.ptr + size - 1
      Error(r) == IF ~ WalkOK THEN "garbled"
                  ELSE IF r.ptr = NULL THEN "failed"
                  ELSE Judged(ranges, r.ptr, Hi(r), r.mm.brk - 1)
  IN  /\ At(Valid, "a")
      /\ \E r \in {malloc(mm, size)} :
           IF Error(r) # "ok" THEN Reject(Error(r))
           ELSE Accept(id, r, size, Recorded(ranges, r.ptr, Hi(r), r.mm.brk - 1))

(* The data that must have been carried over is checked against the old    *)
(* pattern, from the front only.                                           *)
ValidRealloc ==
  LET id == ops[i].index
      size == ops[i].size
      oldsize == block_sizes[id]
      rest == R!remove_range(ranges, blocks[id])
      Hi(r) == r.ptr + size - 1
      Copied(r) == Intact(r.mm, r.ptr, MinOf(size, oldsize), rand_base[id], TRUE)
      Judgement(r) == IF size = 0 THEN "ok" ELSE Judged(rest, r.ptr, Hi(r), r.mm.brk - 1)
      Error(r) == IF ~ WalkOK \/ ~ Intact(mm, blocks[id], oldsize, rand_base[id], FALSE)
                  THEN "garbled"
                  ELSE IF r.ptr = NULL /\ size # 0 THEN "failed"
                  ELSE IF r.ptr # NULL /\ size = 0 THEN "not_null"
                  ELSE IF Judgement(r) = "ok" /\ ~ Copied(r) THEN "garbled"
                  ELSE Judgement(r)
  IN  /\ At(Valid, "r")
      /\ \E r \in {realloc(mm, blocks[id], size)} :
           IF Error(r) # "ok" THEN Reject(Error(r))
           ELSE Accept(id, r, size,
                       IF size = 0 THEN rest ELSE Recorded(rest, r.ptr, Hi(r), r.mm.brk - 1))

(* Index -1 stands for free(NULL). *)
ValidFree ==
  LET id == ops[i].index
      p == IF id = -1 THEN NULL ELSE blocks[id]
      intact == id = -1 \/ Intact(mm, p, block_sizes[id], rand_base[id], FALSE)
  IN  /\ At(Valid, "f")
      /\ IF ~ WalkOK \/ ~ intact THEN Reject("garbled")
         ELSE /\ ranges' = IF id = -1 THEN ranges ELSE R!remove_range(ranges, p)
              /\ mm' = free(mm, p)
              /\ i' = i + 1
              /\ UNCHANGED <<debug_mode, file, phase, ops, trace, complaint, sizes, first>>

-----------------------------------------------------------------------------
(* eval_mm_util and eval_mm_speed: the same calls without the checks *)

AppError ==
  /\ phase' = "app_error"
  /\ UNCHANGED <<debug_mode, file, ops, i, mm, ranges, trace, complaint, sizes, first>>

MaxOf(a, b) == IF a > b THEN a ELSE b

(* total_size += change, and the high-water marks. *)
Account(change) ==
  LET total == (sizes.total + change) % WORD
  IN  sizes' = [total     |-> total,
                max_total |-> MaxOf(total, sizes.max_total),
                max_heap  |-> MaxOf(mm'.brk, sizes.max_heap)]

UtilStores(id, r, size) ==
  /\ mm' = r.mm
  /\ blocks' = [blocks EXCEPT ![id] = r.ptr]
  /\ block_sizes' = [block_sizes EXCEPT ![id] = size]
  /\ i' = i + 1
  /\ UNCHANGED <<debug_mode, file, phase, ops, ranges, rand_base, complaint, first>>

UtilAlloc ==
  /\ At({"util"}, "a")
  /\ \E r \in {malloc(mm, ops[i].size)} :
       IF r.ptr = NULL THEN AppError
       ELSE UtilStores(ops[i].index, r, ops[i].size) /\ Account(ops[i].size)

(* UtilRealloc_AddsNew is a mutant that does not take the old size off. *)
UtilRealloc_AddsNew ==
  LET id == ops[i].index
  IN  /\ At({"util"}, "r")
      /\ \E r \in {realloc(mm, blocks[id], ops[i].size)} :
           IF r.ptr = NULL /\ ops[i].size # 0 THEN AppError
           ELSE UtilStores(id, r, ops[i].size) /\ Account(ops[i].size)

UtilRealloc ==
  LET id == ops[i].index
  IN  /\ At({"util"}, "r")
      /\ \E r \in {realloc(mm, blocks[id], ops[i].size)} :
           IF r.ptr = NULL /\ ops[i].size # 0 THEN AppError
           ELSE UtilStores(id, r, ops[i].size) /\ Account(ops[i].size - block_sizes[id])

UtilFree ==
  LET id == ops[i].index
  IN  /\ At({"util"}, "f")
      /\ mm' = free(mm, IF id = -1 THEN NULL ELSE blocks[id])
      /\ Account(IF id = -1 THEN 0 ELSE - block_sizes[id])
      /\ i' = i + 1
      /\ UNCHANGED <<debug_mode, file, phase, ops, ranges, trace, complaint, first>>

SpeedStep ==
  LET id == ops[i].index
      size == ops[i].size
      p == IF id = -1 THEN NULL ELSE blocks[id]
      called == CASE ops[i].type = "a" -> malloc(mm, size)
                  [] ops[i].type = "r" -> realloc(mm, p, size)
                  [] ops[i].type = "f" -> [mm |-> free(mm, p), ptr |-> p]
      mayfail == ops[i].type = "a" \/ (ops[i].type = "r" /\ size # 0)
  IN  /\ phase = "speed" /\ i \in DOMAIN ops
      /\ \E r \in {called} :
           IF r.ptr = NULL /\ mayfail THEN AppError
           ELSE /\ mm' = r.mm
                /\ blocks' = IF id = -1 THEN blocks ELSE [blocks EXCEPT ![id] = r.ptr]
                /\ i' = i + 1
                /\ UNCHANGED <<debug_mode, file, phase, ops, ranges, block_sizes, rand_base,
                               complaint, sizes, first>>

Next ==
  \/ ReadTrace \/ BeginReplay \/ EndReplay
  \/ ValidAlloc \/ ValidRealloc \/ ValidFree
  \/ UtilAlloc \/ UtilRealloc \/ UtilFree \/ SpeedStep

Spec == Init /\ [][Next]_vars

-----------------------------------------------------------------------------
(* Properties *)

(* The operations that are replayed fit the arrays made for them. *)
TypeOK ==
  /\ phase \in Valid \cup {"read", "util", "speed", "libc_valid", "libc_speed",
                         "exit", "invalid", "app_error", "done"}
  /\ i \in 0 .. Len(ops) + 1
  /\ phase \notin {"read", "exit"} => Len(ops) = file.num_ops
  /\ \A k \in DOMAIN ops : ops[k].index \in Ids \cup {-1}
  /\ mm.brk \in WSIZE .. MaxHeap
  /\ blocks \in [Ids -> 0 .. MaxHeap]
  /\ block_sizes \in [Ids -> 0 .. MaxHeap]
  /\ rand_base \in [Ids -> Bases \cup {0}]
  /\ sizes \in [total : 0 .. WORD - 1, max_total : 0 .. WORD - 1, max_heap : 0 .. MaxHeap]

(***************************************************************************)
(* The driver finds nothing wrong with this allocator: the only complaint  *)
(* of a replay is about a request of no bytes, for which malloc returns    *)
(* the null pointer, or about one for which the heap has no room left.     *)
(***************************************************************************)
OnlyExhaustion ==
  phase = "invalid" =>
    /\ complaint = "failed"
    /\ ops[i].size = 0 \/ mm.brk + asize(ops[i].size) > MaxHeap

(***************************************************************************)
(* Driver and allocator agree on what is in use: the payloads on record    *)
(* are those of the allocated blocks, one for one, none longer than its    *)
(* block.  A block the allocator forgot to give back, or gave back twice,  *)
(* would show here.  With DBG_NONE there are no records.                   *)
(***************************************************************************)
RecordsMatchHeap ==
  (phase \in Valid /\ i > 0) =>
    LET records == ranges.node
    IN  /\ DOMAIN records =
             IF debug_mode = "none" THEN {}
             ELSE {b + WSIZE : b \in {c \in BlocksOf(mm) : GET_ALLOC(mm, c) = 1}}
        /\ \A p \in DOMAIN records :
             records[p].hi - p + 1 <= GET_SIZE(mm, HDRP(p)) - WSIZE

(***************************************************************************)
(* A trace that was found valid can be measured: eval_mm_util and          *)
(* eval_mm_speed never meet a failure, which would end the driver.         *)
(***************************************************************************)
MeasuredIfValid == phase # "app_error"

(***************************************************************************)
(* Each replay of a trace gives the blocks the same places and the heap    *)
(* the same size, whatever words the earlier replays left in the heap.     *)
(***************************************************************************)
ReplaysAlike ==
  (phase \in {"valid2", "util", "speed"} /\ Finished) =>
    first = [brk |-> mm.brk, blocks |-> blocks]

(* The payload bytes in use after the first j operations. *)
PayloadAfter(j) ==
  LET LastOf(id) == {k \in 1 .. j : ops[k].index = id /\ \A l \in k + 1 .. j : ops[l].index # id}
      used == UNION {LastOf(id) : id \in Ids}
  IN  MapThenSumSet(LAMBDA k : IF ops[k].type = "f" THEN 0 ELSE ops[k].size, used)

(***************************************************************************)
(* What eval_mm_util divides: the largest number of payload bytes the      *)
(* trace had in use at any time, although total_size is only ever changed  *)
(* by unsigned differences; and the heap it was served from is not less.   *)
(***************************************************************************)
UtilIsPeak ==
  (phase = "util" /\ i > 0) =>
    /\ sizes.total = PayloadAfter(i - 1)
    /\ sizes.max_total = Max({PayloadAfter(j) : j \in 0 .. i - 1})
    /\ sizes.max_total <= sizes.max_heap
=============================================================================
