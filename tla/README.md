# A verification development of Malloc-From-Scratch

The repository is a C implementation of `malloc`, `free`, `realloc` and `calloc`
over a simulated heap (`mm.c`, `memlib.c`), and the driver that tests and times
it by replaying traces of calls (`mdriver.c`, with a splay tree, a sampler and
a cycle counter to support it). This directory holds TLA+ models of both, the
TLC configurations that check them on small instances, and theorems about them
that TLAPS checks for every value of the constants.

## Inventory

| Component | State | Operations | Interacts with |
|---|---|---|---|
| allocator, `mm.c` | the 14 heads `segregated_free_lists`, an 8-byte header per block, a next pointer in the payload of every free block | `mm_init`, `malloc`, `free`, `realloc`, `calloc` | asks `mm_sbrk` for memory, reads and writes it with `mem_read`/`mem_write`/`mm_memcpy`/`mm_memset` |
| heap, `memlib.c` | `heap`, `mem_brk`, `mem_max_addr`, the bytes between; `mmap_length`, `show_stats` | `mem_init`, `mem_deinit`, `mem_reset_brk`, `mm_sbrk`, `mem_heap_lo/hi/size`, reads, writes and copies | called by the allocator and the driver |
| range set, `mdriver.c` | a doubly-linked list of live payload ranges, sorted by address, and the splay tree that indexes it | `new_range_set`, `add_range`, `remove_range`, `reset_range_set`, `free_range_set` | kept by `eval_mm_valid`; tests every pointer the allocator returns |
| splay tree, `stree.c` | nodes with left, right and parent pointers, a root, a comparison count | `tree_new`, `tree_insert`, `tree_find`, `tree_find_nearest`, `tree_remove`, `tree_free` | used by the range set only |
| payload checks, `mdriver.c` | random data, a per-block offset into it | `init_random_data`, `randomize_block`, `check_index` | `eval_mm_valid` fills every payload and looks at it later |
| trace replay and libc comparison, `mdriver.c` | the trace (ops, block pointers, block sizes) | `read_trace`, `reinit_trace`, `free_trace`, `eval_mm_valid`, `eval_mm_util`, `eval_mm_speed` and the libc versions | calls the allocator and the range set |
| test control, `mdriver.c` | `errors`, the statistics of each trace, a `sigjmp_buf`, the pending alarm | `run_tests`, `timeout_handler`, `malloc_error` | a SIGALRM can interrupt any part of a replay |
| options and scoring, `mdriver.c`, `config.h` | the global options; sums over traces, the benchmark throughput | `main`, `add_tracefile`, `score_component`, `printresults`, `lookup_ref_throughput`, `measure_ref_throughput`, `cparse` | reads the statistics and two configuration files |
| sampler, `fcyc.c` | the k smallest measurements, a sample count, the buffer that clears the cache, eight parameters | `init_sampler`, `add_sample`, `has_converged`, `clear`, `fcyc`, `fsec`, the setters | calls `eval_mm_speed` repeatedly and reads the timer |
| clocks, `clock.c` | the time read last, `cpu_mhz` | `start_timer`, `get_timer`, `start_counter`, `get_counter`, `mhz` | `clock_gettime` and `/proc/cpuinfo` |

### What is hard about it

* **Memory that describes itself.** Headers, next pointers and client data share
  the words of the heap. A wrong size or a write one word too far shows only
  many calls later, as two payloads that overlap or a list that runs through data.
* **Long sequences of legal calls.** Blocks are cut, freed, reused whole and cut
  again; the range set is cut into pieces by insertions in descending order of
  addresses; the splay tree is rotated by every insertion and removal.
* **Stale contents.** The heap is used for four and more replays of a trace and
  never cleared; `block_rand_base` keeps its values; the sampler's array and
  count outlive a measurement that was abandoned.
* **The alarm.** With `-s` a signal may arrive at every statement of `run_tests`
  and jumps back to `sigsetjmp`; it is never cancelled. It leaves trees between
  two stores, arrays freed and not yet forgotten, and local variables with old values.
* **Boundaries.** The limits of the size classes, a remainder of exactly 32
  bytes, the last bytes of the heap, a payload of less than `maxfill` bytes, a
  key below all others, unsigned differences.

### What makes each part correct

* Allocator: the blocks tile the heap; the lists hold exactly the free blocks,
  each in the list of its size; allocated blocks are those the client holds;
  payloads are aligned and apart; data survives; the heap grows only when the
  search has nothing to offer.
* Simulated heap: the break stays between the first word and the end.
* Range set: its records are the payloads in use; no false alarm; what begins
  inside a payload in use is never accepted.
* Splay tree: one tree, in order, that answers as a map would.
* Replay: no complaint about this allocator unless the heap is exhausted; driver
  and allocator agree on what is in use; replays of a trace are alike; the
  utilization is the true peak.
* Test control: every trace gets a verdict, a failure is an error, a valid trace
  was replayed, a timeout ends a hang, what an iteration took it gives back.
* Scoring: points beyond those for correct traces are earned without an error;
  the averages printed are those the points come from.
* Sampler: the K best are the K smallest of this measurement, the measurement
  ends for a reason, and its static buffers survive being abandoned.
* Libc comparison: a replay loses no block of the C library and gives none back twice.

## The modules

| Module | Models | State and actions |
|---|---|---|
| `SizeClass` | the size arithmetic of `mm.c`: `align`, `get_list_index`, the product of `calloc`, modulo 2^w | none; the limits of the classes and the number of lists searched are constants |
| `BlockHeap` | the live functions of `mm.c` over the break of `memlib.c`, with a record per header and a sequence per list | `heap = [brk, hdr, lists]`, the client's `ptr` and `req`; `Malloc`, `Calloc`, `Free`, `Realloc`, `Reset` |
| `MallocContract` | what the four functions promise a C program | `Grant`, `Move`, `Release`, `Restart` over ranges |
| `MmWords` | the same functions word by word: `GET`, `PUT`, `PACK`, `mm_memcpy`, `mm_memset`, the loops over the lists | a memory `[mem, brk, lists]`; each call is a function of it |
| `WordHeap` | clients of `MmWords` that fill their payloads and remember what should be there | `mm`, `ptr`, `req`, `data` |
| `RangeList` | the range set as a value: `add_range`, `remove_range` | a range set `[list, node]` |
| `RangeSet` | the driver's use of it with an allocator that returns any address | `ranges`, the payloads `live`, the `verdict` |
| `OrderedMap`, `SplayTree` | what `stree.h` promises; the nodes, rotations and splaying of `stree.c`, store by store | the nodes' links, the last call and its result; `halfway`, the tree a call left when the alarm stopped it |
| `Replay` | a trace file from `read_trace` through `eval_mm_valid` (twice), `eval_mm_util` and `eval_mm_speed`, composed of `MmWords` and `RangeList`, in the three debug modes | `phase`, the operation `i`, the memory, the range set, the trace's arrays, the sizes of `eval_mm_util` |
| `LibcReplay` | the same file under `-l`: `eval_libc_valid` and `eval_libc_speed` over the C library's malloc | the blocks in use, those that earlier replays left; `LibcBegin`, `LibcAlloc`, `LibcReallocs`, `LibcFrees`, `LibcEnd` |
| `TestRun` | `run_tests` statement by statement, with the alarm, and what `fsec` leaves to the next trace's `fsec` | `pc`, `jmpbuf`, trace records, range sets, heaps and the sampler's array `values` with what became of them, the verdicts, `errors` |
| `Options` | main's loop over the command line | none; `ReadOptions` is a fold over the options |
| `Scoring` | `config.h`'s thresholds, `score_component`, the averages and points of `main`, the sums of `printresults` | none |
| `Driver` | `main` around `run_tests`, composed of `TestRun`, `Options` and `Scoring` | the benchmark throughput, the statistics, the printed sums, the score; `MeasureRefThroughput`, `PrintResults`, `Score` |
| `Fcyc` | `fsec`, its sampler, the cache clearing and the setters | `reps`, the parameters, the sorted array and whether it is freed, the count, the buffer, the samples of this call |
| `BlockHeapProofs`, `WordHeapProofs`, `RangeSetProofs`, `SplayTreeProofs`, `DriverProofs`, `FcycProofs`, `ReplayProofs` | theorems about the module they are named after; `DriverProofs` covers `TestRun` and `Scoring` too, `ReplayProofs` covers `LibcReplay` | |
| `ReplayLineProofs` | what the proofs of `ReplayProofs` use of a single line of a trace | |
| `MC*` | instances for TLC | |

How they fit together: `WordHeap` implements `BlockHeap`, whose lists are what
following the next pointers meets and whose headers are what walking the heap
meets; `BlockHeap` implements `MallocContract`. `SplayTree` implements
`OrderedMap`, which is what `RangeList` takes the tree to be. `Replay` puts the
word-level allocator and the range set together as `mdriver` does, and
`LibcReplay` adds the C library's turn. `TestRun` takes a replay as something
that succeeds, fails or hangs, and a tree as live, torn or freed: that a tree
interrupted inside a call can still be freed is what `SplayTree` shows
(`HalfwayFreesOnce`). Of `fsec`, `TestRun` has the static array `values` and the four
steps that free, make and forget it, since an alarm in the measurement of one trace
shows in that of the next; what `fsec` computes and its other static state is in
`Fcyc`. `Driver` is the program around `TestRun`.

Names follow the source. An operator with an underscore and a capitalised word at
the end (`split_LosesRest`) is a mutant: the way a plausible bug would read. No
specification uses them; they show that a property can fail.

### Choices worth knowing

* Addresses are offsets into the heap. The first word is `mm_init`'s padding, so
  offset 0 is free to be the null pointer.
* The client of `BlockHeap` and `WordHeap` follows the discipline of the trace
  files: an id is allocated only when it holds nothing, and `free` and `realloc`
  get what it holds.
* Requests are such that their block size can be represented in a `size_t`
  (`Representable`). Beyond it `size + 8` wraps around and `malloc` returns a
  small block; the comment "rounds up to the nearest multiple of ALIGNMENT"
  (`mm.c:78`) is not true there.
* In `MmWords` a header is the number `size + alloc`, client data is a negative
  number, and a word only partly written is `PARTIAL`. `mem_read` always reads
  eight bytes; that is not modelled.
* The mode `DBG_NONE` of the driver, in which `add_range` looks at alignment and
  extent only and keeps no records, is in `Replay` (`Judged`, `Recorded`).
* In `SplayTree` a call is the sequence of its stores in source order, and the
  alarm may come between any two of them; a compiler may order them otherwise.
  A loop of `stree.c` is `Loop`, a recursive function of the number of turns, of
  which there are never more than nodes; `NoNode` is in the place of a node that
  is not allocated.
* `Replay` looks at payload data in words, takes all entries of `random_data`
  to differ and lets `random()` give any two blocks the same place in it.
* In `TestRun` the program stops at the first undefined step (a record or the
  sampler's array freed twice, a tree used that was freed, a jump to a place never
  saved or into a function that returned). The `fsec` of `-l`, after `run_tests`,
  is not part of `Driver`: it would free the array of an interrupted last trace. A local variable that is not volatile has either
  value after the jump.
* `Scoring` counts in whole thousandths, rounded down, where the code has
  doubles; the throughputs that a checkpoint requires are hundredths of the
  benchmark and are compared as such, without rounding. `Driver` chooses what a trace measured when the report first reads it:
  nothing before depends on it, and the state space stays small.
* `LibcReplay` knows of the C library only the addresses in use. It may put a block
  wherever none is (`Places`; TLC takes the lowest place). Every call may fail; `realloc` to no bytes gives the block back and may return another.
* In `Fcyc` a call of the measured function costs time. `fcyc` is not modelled
  beside `fsec`: it is the same loop with a cycle counter. The driver calls none
  of the setters; a client of `fcyc.h` may, between two measurements.

## The runs

| Run | Instance | Shows |
|---|---|---|
| `heap_small` | 3 ids, sizes 0, 1, 40, 100, `calloc` counts 0 and 2, 4 size classes of which 3 are searched, 152 bytes | tiling, lists, ownership, payloads, growth, the contract |
| `heap_classes` | the code's 14 classes and 12 searched lists, sizes around 65536 and 131072, 200100 bytes | growth at the real limits |
| `heap_coalesce` | as `heap_small` | violated: two freed neighbours stay two blocks, although the header of `mm.c` says that `free` coalesces |
| `heap_growth` | as `heap_classes` | violated: a free block of more than 65536 bytes is not found and the heap grows |
| `word_heap` | 2 ids, sizes 0, 8, 12, 40, 72 bytes, classes up to 32, 48 and beyond | data intact, words spell the block-level heap |
| `range_set` | 7 addresses of which one is misaligned and two are outside the heap, 3 sizes | records match payloads, the pieces of the list are sound, no false alarm |
| `range_overlap` | the same | violated: a payload below all others is accepted although it reaches into the next |
| `splay_tree` | keys 1 to 5, 2 records | shape, order, map; an interrupted call leaves what `tree_free` frees once |
| `replay` | every trace of 4 operations on 2 ids with sizes 0, 8, 24, 40, and broken files; 104 bytes; `maxfill` of 2 words; two values of `random()`; the three debug modes; any number of speed replays; the C library with two speed replays | the driver's verdicts, its agreement with the allocator, the peak, the C library's blocks |
| `test_run` | up to 3 traces and seven command lines, with and without `-s`, `-c`, `-v 0`, `-h`; six sets of measurements; configuration files that are there or not | verdicts, errors, what is given back, the windows in which the alarm harms and how, the score, termination |
| `test_freed` | the same | violated: the alarm rings after `free_trace` and the trace is freed again |
| `fcyc` | K = 3 or 2, at most 4 samples, epsilon 1/4, 3 times and none, repeated and abandoned calls with other settings | buffers, the K best, the reason to stop, termination |

The largest is `replay` with 1.18 million states in about a minute; `test_run`
has 198 thousand, `splay_tree` 106 thousand and `fcyc` 64 thousand.

Why the bounds are enough:

* `heap_small`: the block sizes 16, 48 and 112 fall into three classes, 48 is cut
  to 16 with a remainder of exactly 32, 112 leaves remainders that are cut again,
  112 is in the list that is never searched, and 152 bytes let the heap run full
  in the middle of a `realloc`. `heap_classes` uses the real table with block
  sizes 1008, 65536, 65552 and 131120.
* `word_heap`: 16, 32 and 48 bytes, of which 16 and 32 share a list, so that the
  search passes over a block and unlinks one from the middle; 12 bytes leave a
  word half written; `calloc` asks for 40 bytes of memory that was used before.
* `range_set`: with payloads of one unit, of exactly the distance to the next
  address and one more, neighbours touch, overlap by one and leave gaps.
* `splay_tree`: five keys give every zig, zig-zig and zig-zag and removals of
  nodes with two children whose successor is and is not the right child.
* `replay`: the payloads have less than, up to and more than twice `maxfill`
  words; four operations allocate, move, free and reuse; the heap runs full;
  a request of no bytes fails. All files go through both validity replays. With
  two speed replays the C library's blocks of one are still there in the next.
* `test_run`: with three traces the alarm of one rings in the next one and
  after the last, and an array that one measurement left is met by a later one, with
  a trace between that is measured or not. The measurements lie below every threshold of `config.h`,
  between them, exactly on one and above all, with every weight and with no time.
* `fcyc`: four samples are one more than K; a third sample replaces the larger of
  two, a fourth may be dropped. The settings change each parameter that another
  variable depends on, one of them to a cache block smaller than a word.

`CHECK_DEADLOCK FALSE` is said for `Driver`, `Replay` and `Fcyc`: the first two
end, and after a fault nothing more is modelled.

### Fairness

`Driver` assumes that a program that does not hang goes on (`WF(MainStep)`) and
that the kernel delivers a pending alarm (`WF(Ring)`); nothing makes a hung
allocator return. With these, `-s` ends every run. `Fcyc` assumes that the
measurement goes on (`WF(Run)`) and that again and again there is a sample in
which the timer moved (`SF`): the loop does not count the others, so without it
the measurement need not end, and the code has nothing else that ends it.
`MeasurementEnds` also asks that the cache is cleared by whole words
(`LoopEnds`): with a block smaller than a word the loop of `clear` is endless. The
other specifications are about safety and state no fairness.

## The proofs

Each `*Proofs` module proves, for every value of the constants that satisfies the
assumptions its model declares, what the runs check on a small instance.

| Theorem | Property | In words |
|---|---|---|
| `BlockHeapProofs.TypeCorrect` | `TypeOK` | |
| `.BlocksTileTheHeap` | `HeapTiled` | no gap, no overlap |
| `.ListsHoldFreeBlocks`, `.NoFreeBlockIsLost` | `ListsSound`, `ListsComplete` | the lists hold exactly the free blocks, each in the list of its size |
| `.NoLeakNoDoubleUse` | `ClientOwnsAllocated` | the allocated blocks are those the client holds |
| `.PayloadsNeverCollide` | `PayloadsSafe` | |
| `.GrowsOnlyWhenNeeded` | `NoAvoidableGrowth` | the break moves only if no searched list has a block that fits |
| `.ImplementsContract` | `KeepsContract` | refinement of `MallocContract!Spec` |
| `.ServedInFullOrWrapped` | (none) | a rounded request holds request and header exactly if `size + 23` does not wrap around; beyond it is at most 16 bytes |
| `WordHeapProofs.ClientDataIsIntact` | `DataIntact` | no header, link, copy or zeroing touches a payload in use |
| `.WordsImplementBlocks` | `ImplementsBlocks` | refinement of `BlockHeap!Spec`, the words mapped to the blocks they spell |
| `.WordsKeepContract` | (none) | so the words implement `MallocContract` as well |
| `RangeSetProofs.LinksNeverDangle` | `PiecesSound` | every link leads to the next higher record, and back |
| `.TreeIsExact` | `TreeHoldsLive` | the records are the payloads in use |
| `.AlarmsAreTrue`, `.NothingStartsInside` | `NoFalseAlarm`, `NoStartInsideLive` | what is reported is true; what begins in a payload in use is reported |
| `DriverProofs.TypeCorrect` | `TypeOK` | |
| `.NoFalseVerdict` | `ValidMeansReplayed` | valid only after two replays, wherever the alarm rings |
| `.EveryTraceJudged`, `.NothingKept` | `AllJudged`, `GivenBack` | at the end every trace has a verdict and everything was given back |
| `.TimelyAlarmsAreSafe` | `OnlyIllTimedAlarmsHarm` | each kind of fault goes back to an alarm in its own windows; anywhere else the alarm does no harm |
| `.PointsBounded` | (none) | no checkpoint gives more than its points; with an error there are the base points only |
| `.TestsKeepTheirPromises` | (none) | what is proved of `run_tests` alone holds inside `main` |
| `.PointsAreEarned`, `.ReportIsScored` | `ScoreEarned`, `ReportMatchesScore` | points beyond the base come from clean runs; the averages printed are those scored |
| `FcycProofs.BuffersStayOwned` | `BuffersOwned` | the static pointers stay sound from call to call |
| `.ArrayHoldsTheSmallest` | `BestAreSmallest` | the array holds the K smallest samples of the call |
| `.ResultsAreJustified` | `ResultJustified` | the measurement ended for a reason |
| `ReplayProofs.LibcLosesNothing` | `LibcBlocksKept` | the C library's blocks are those the trace holds and those left by earlier replays |
| `.ReplayIsTyped` | `TypeOK` | what is replayed fits the arrays made for it |
| `.DriverFindsNothingWrong` | `OnlyExhaustion` | a complaint is about a request of nothing or a heap without room |
| `.DriverAndHeapAgree` | `RecordsMatchHeap` | the records of the driver are the allocated blocks |
| `.ValidIsMeasurable` | `MeasuredIfValid` | what was found valid never fails when it is measured |
| `.ReplaysEndAlike` | `ReplaysAlike` | all replays end with the blocks and the break of the first |
| `.UtilMeasuresPeak` | `UtilIsPeak` | the peak is that of the payload bytes in use, and no more than the heap |
| `SplayTreeProofs.TreeIsTyped` | `TypeOK` | no link to a node that was freed |
| `.LinksMatch`, `.TreeIsOrdered`, `.NewNodeIsRoot` | `ParentsMatch`, `Ordered`, `InsertedIsRoot` | one search tree after every call, with the new node at its root |
| `.TreeIsMap` | `IsOrderedMap` | refinement of `OrderedMap` |
| `.HalfwayIsFreed` | `HalfwayFreesOnce` | an interrupted call leaves what `tree_free` frees once |

### Assumptions

They are the named ASSUMEs of the modules, which TLC evaluates on every run.
`SizeClassAssumption`: the table of limits ascends, and malloc searches at least one
list and not all. `BlockHeapAssumption`: the heap holds a word and less than half
the values of a `size_t`, and requests are representable. `MmWordsAssumption` and
`WordHeapAssumption`: the same of the word-level heap, which is whole words and at
least one, and of its clients, whose ids, sizes and counts are numbers. `RangeSetAssumption`:
addresses are not NULL, and a payload has a byte. `TestRunAssumption`: there is room
for a trace. `DriverAssumption` and `ThroughputAssumption`: command lines name at
most that many traces, measurements are numbers and weights as the trace files
give them, and what the two configuration files lead to is a number.
`ReplayAssumption`: the lines of a trace file use its ids as a program does its
pointers (`AsAProgram`), and requests are whole words and representable.
`LibcAssumption`: the C library puts a block where none is. `FcycAssumption`: the defaults are of their types, what a setter gets is too, and a
call of the measured function takes time.

### Arguments

**`BlockHeapProofs`.** `IInv == HeapOK(heap) /\ Owned(heap, ptr, req)`.
`HeapTiled` alone is not inductive: cutting a block keeps the tiling only if the
block found on a list is a free block of at least the size its list promises.
`ListsSound` alone is not either: pushing a block twice is excluded because only
allocated blocks are freed, which is what the client holds. So `HeapOK` says that
the blocks tile the heap and that the lists hold exactly the free blocks, each in
the list of its size; `Owned` says that the allocated blocks are exactly those
the client holds. The argument then goes through the code's own helpers:
what `PutHeader`, `Push` and `Unlink` do (`PutHeaderEffect`, `PushEffect`,
`UnlinkEffect`), that they keep the lists sound apart from the block they are
about (`PutHeaderKeepsLists`, `UnlinkKeepsLists`, `PushCompletesLists`), that a
cut and an extension keep the tiling (`TiledAfterSplit`, `TiledAfterGrowth`), and
so that `malloc` and `free` take well-formed heaps to well-formed heaps and
change the set of allocated blocks by exactly one (`MallocPreserves`,
`FreePreserves`). `realloc` and `calloc` are made of these. `GrowsOnlyWhenNeeded`
adds that the search finds a block if one fits (`SearchFindsFit`).

**`WordHeapProofs`.** The module instantiates `BlockHeapProofs` with the heap that
the words spell (`B`), so that every lemma about blocks is one about words. Its
`IInv` has three parts: the invariant of `BlockHeapProofs` for `HeapOf(mm)`;
`Represents(mm, HeapOf(mm))`, that the word at each block is its header and that
the next pointers chain the blocks of each list, ending in NULL; and `Relied`,
that each payload starts with the words its client relies on and has room for them.
Refinement needs the first two together: that a push or an unlink leaves all other
headers and links alone follows from where they lie, headers 8 past a multiple of
16 and links on one, each inside a block of its own because the blocks tile the
heap (`SpotWords`, `TiledIsSpaced`). The argument follows the code. `PUT` of a
header, a push and an unlink do to the words what they do to the blocks
(`HeaderPutRepresented`, `PushRepresented`, `UnlinkRepresented`); a walk along the
next pointers meets the list (`WalkMeetsList`, for which the list has to be no
longer than the heap has room for: `ListFits`), and so the loop over it stops at the
block that `BlockHeap` picks (`FirstFitUnique`, `SearchFinds`). From these,
`MallocRepresented` and `FreeRepresented`: the call on words represents the call on
blocks and changes no word of a payload in use (`Kept`). `WriteRepresented` says that
writing inside a payload disturbs no header and no link. Since a heap that is
represented is the one the walks find (`BlocksMet`, `ListMet`,
`HeapOfRepresented`), the refinement mapping follows. `GrantData`, `ReleaseData` and
`MoveData` are what the calls do to the data; `CopyData` is the case of `realloc`
that is hardest to test, where the old payload is copied, given back and a next
pointer written over it.

**`RangeSetProofs`.** `RangesOK` says that the links lead from a record to the next
higher address of the tree, or nowhere, and back. `PiecesSound` is not inductive by
itself: that no record is empty is needed too, since it makes a payload at an
address already on record an overlap, so that an insertion never replaces a
record. `InsertOK` and `RemoveRangeOK` show that the two functions keep this and
change the records by one.

**`DriverProofs`, of `run_tests`.** The verdicts are about the past, so `IInv` says for every
statement of `run_tests` what the current iteration holds there (`Current`), that
the iterations before it have given everything back (`Finished`) and that those
after it have taken nothing (`Untouched`). An alarm leaves `trace` and `ranges`
with the values of an earlier iteration; no harm comes of it because freeing
anything but the current record is a fault, after which the program stops. What the alarm leaves depends on where it rang: the current record and range set are
named by the variables unless it rang late (`NoLateAlarm`), the range set has its tree
unless it rang late or while the trees were exchanged (`NoTreeLost`), and `values`
points to a freed array only in the sampler's two windows or after an alarm in one.
There is one lemma for each statement, and one for the jump (`TimeoutStep`).

**`DriverProofs`, of `main`.** `DriverIInv` adds that a run in which no error was counted is a
clean one so far (`CleanSoFar`) and what `main` holds between the benchmark and the
score (`MainState`). The bound of the points is `PointsBounded`, which needs that the
average utilization is a number whatever was measured: the sum is a fold over a
set, `SumIsFold` gives its recursion and `SumOfNaturals` follows by the smallest set
for which it would fail.

**`FcycProofs`.** `BestAreSmallest` is stated with an injection of the array into
the samples, such that what it does not reach is no smaller (`AreSmallest`).
`add_sample` is a recursive function over the positions; `InsertIsMove` gives its
closed form, an element moved down to its place and those between moved up.
That the closed form satisfies the recursion shows that there is such a function;
that there is only one follows by the highest position where another one differs.
`PlacedAmongSmallest` makes a new injection of the old one, and
`AddSampleKeepsSmallest` distinguishes the filling array from the full one. With
`Flags` (when the static pointer may dangle) and `Progress` (why the loop goes on)
this is inductive.

**`ReplayProofs`.** For the C library, `LibcInv` says that the blocks in use are
accounted for (`Accounted`): each id in use has one of its own, or none, and the
rest was left by earlier replays. An entry that was freed keeps its address, which the
library may hand out again, so the statement has to be about the ids in use, and
that an id in use is never allocated again is what `AsAProgram` says of the file.
`InUseStep` says what a line does to the ids in use, `AcceptedLinesFit` that what
read_trace accepts is such a trace and that its ids fit the arrays: max_index is
the largest of finitely many numbers (`Bounded`, `MaxIsLargest`).

For this repository's allocator, none of the properties is inductive. That the
driver finds nothing wrong needs that the words of the heap serve the ids, that
the records are of what is held, and that the patterns are where they were
written; that later replays cannot fail needs a relation to the first one, over
words that are not the same ones. So `MmInv` says that there is one run `S` of the
functions of `BlockHeap` that every replay of the trace follows: `S[k]` is the heap
of blocks, and what the arrays of the trace hold, after `k` lines (`IsRun`). The
first replay prolongs it line by line (`Prolonged`); the others find it complete.
While a replay is at line `i`,

* the words serve the ids what `S[i - 1]` says (`ServedAt`): they represent its heap,
  and the ids in use own its allocated blocks. The words themselves are not
  determined by `S`, since no replay clears what the earlier ones left;
* the range set records what is held, and nothing else (`RecordsAt`), unless the debug
  mode keeps no records;
* the payloads in use hold their patterns, at either end (`Checked`).

`ReplayLineProofs` takes each of these from one line to the next. It instantiates
`WordHeapProofs` with a client that may use any number as an id, so that a line is a
call of that client (`LineAnswered`): the answer is that of `BlockHeap`, a failure is
due to exhaustion or a request of nothing, the other payloads keep their words,
and a new one is clear of them and has what `realloc` carried over. From that,
a new range is accepted and recorded (`AllocRecorded`, `ReallocRecorded`,
`FreeRecorded`, with the lemmas of `RangeSetProofs` for its functions), writing the
new pattern disturbs no other (`FilledLine`), and after a move the front of the old
pattern is in place (`CarriedOver`). `ReplayProofs` has one lemma for each action.

`UtilIsPeak` speaks of sums over the operations. `PayloadIsSum` brings the fold down
to a function `g` that adds up the sizes of the lines, of which any may be added
last (`SumOne`); so a line changes the sum by the difference that `eval_mm_util`
computes (`PayloadStep`). Payloads in use are disjoint and below the break, and
disjoint spans below a bound add up to no more than the bound (`SumOfSpans`): the
sum is less than the values of a `size_t`, and the unsigned differences, some of
them negative, never wrap around. `PeakInv` is that with the maximum so far.

**`SplayTreeProofs`.** The properties follow paths in the tree, which the proofs
avoid: `Shape` says what makes pointers a tree with the set `sub[z]` of the nodes
below each node `z` (a node, and the disjoint sets of its two children; `Nested`,
`Agreed`), and `InOrder` with these sets what makes it a search tree. The first
part is about such pointers alone: a rotation (`RotateShape`, `RotateInOrder`,
`RotateAbove`), a new leaf (`GraftShape`), a node with one child taken out
(`DropShape`), the successor in the place of its root (`PlaceShape`) keep both. The second is about
memory: each store of `stree.c` (`SetLeftEnds` and so on) and so each rotation and
`replace` ends in those pointers. Loops are recursive functions, of which one that
satisfies the recursion has to be given (`RunExists`) and a set of states shown to
be kept (`RunHolds`): a turn of `splay` takes a node from above `x`
(`TurnCert`, with the four cases in `LeftLeft` and so on), and the subtree below a
descent shrinks (`SmallerSub`), so that the number of nodes bounds both.
`DescentEnds` says where a descent ends, with the parent of the new node and the
nearest of the smaller nodes. `InsertHolds`, `RemoveHolds` and `FindHolds` sum up
the calls, and the inductive invariant is `IsTree`: the tree between two calls is a
search tree with finitely many nodes. `StepCarries` gives the refinement of
`OrderedMap`, and `BelowIsSub` that the nodes the links lead to are those of `sub`.

In the middle of a call the links are no search tree, but what `tree_free` needs
survives. `Once` says it of a set of nodes: each is reached by one link, and their
links lead to nodes of the set. A tree with a `Shape` has it (`ShapeFrees`), and a
store moves a link past nodes that nothing leads to any more (`BypassFrees`). So every
tree in the history of a call is `Freeable` from its root (`AllFree`); `Cert` carries
that through the rotations of a splay and the calls (`RotateFrees`, `PlaceFrees`,
`CallFrees`), and `EnteredOnce` derives `HalfwayFreesOnce` from it. Its inductive
invariant is `Freeable(halfway)` beside `IsTree`.

Induction over data is always in the form of `LeastNatural`, which the modules that
use it prove: of the cases in which a claim fails there is a least one.

### Model-checked only

The liveness properties `TimeoutEndsRun` and `MeasurementEnds`, which rest on fairness,
are out of the prover's reach. Every invariant and every other property of the runs
that pass is a theorem.

## What the runs found

The four runs that end in a violation each show a place where a comment says
something else than what the code does; `PROJECT.json` quotes both. Other
divergences met on the way, without a run of their own:

* `mdriver.c:72-75` says that the list represents the set of ranges; a payload
  below all others becomes the whole list (`mdriver.c:754-761`), so that the
  expensive mode no longer looks at the blocks above it, although
  `mdriver.c:139` says "we check every block every operation".
* `mdriver.c:260` says that a trace that timed out is read again; it is not.
* `mdriver.c:159` calls `errors` a number of errors; the handler sets it to 1.
* `mdriver.c:244-247` says that `run_tests` returns the number of tests run; it
  returns nothing.
* `mdriver.c:799` says that `free_range_set` frees all of the range records; a
  record that `add_range` has allocated and not yet inserted when the alarm rings
  is lost.
* With `-c` a trace that timed out does not return from `run_tests`: the loop goes
  on to the next trace.
* `-f A -c B` runs `A` and prints the verdict of the last name, `B`
  (`mdriver.c:510-518` and `280-283`); of two `-c` only the first is run too.
* `-t` is to be ignored when `-f` was met; it is only if exactly one name was
  given (`mdriver.c:377`).
* `-v 0 -l` compares sums that were never computed (`mdriver.c:527-531`).
* `gen_file_name` gives up after 99 names and returns NULL, which its caller
  prints as a name (`mdriver.c:1777-1801`).
* More than 33 correct traces give the first checkpoint more than its 100 points.
* `fcyc.c:207` gives the default of `min_ticks` as 100 and `fcyc.h:20` as 1000;
  `set_fcyc_min_ticks` has no effect after the first measurement, which takes the
  threshold once. `fcyc.h:44` declares `set_fcyc_compensate`, which does not exist.
* `clock.h:11` says that `get_timer` returns 1e20 if it detects an anomaly; it
  detects none.
* `clock.c:52` declares a second `cpu_mhz` inside the loop, so the frequency that
  was read is lost and 1000 MHz is used (only `fcyc`, which the driver does not
  call, depends on it).

## Not modelled

* The layout of the result tables, the autoresult line, the usage text, the name
  of the temporary file, the quotient that `-l` prints and the rounding of
  doubles: text and formatting. Throughputs of 0 from the reference driver, for
  which `score_component` divides 0 by 0.
* The clocks: system calls. The perl and shell scripts and the Makefile.
* Trace files whose frees name an id beyond the arrays or whose headers promise no
  operations: `read_trace` reads or writes out of bounds, and what follows is
  not defined.
* The functions of `mm.c` without a live caller (`place`, `coalesce`,
  `validate_heap`, `extend_heap`, `find_fit`, `merge_blocks`, `in_heap`,
  `aligned`) and `mm_checkheap`, which always returns true.
* The state of the C library when the alarm interrupts it.

## The plan

Done, in this order: the block-level allocator with its contract and proofs; the
range set; the splay tree; the word-level allocator and its refinement; test
control; the sampler; the composition in `Replay`; the driver around it with
options and score; interruptions inside the tree and the sampler; the debug mode
without records; the C library.

Theorems, in this order: the block-level heap and its contract; the range set;
the tests, the scoring and the driver around them; the sampler; the words of the
heap, their refinement of the blocks and the data of the clients; the C library;
the replays of a trace with this repository's allocator; the splay tree.

One extension is left: bytes instead of words in `Replay`, for the over-long `mem_read`
and payloads that end in the middle of a word.
