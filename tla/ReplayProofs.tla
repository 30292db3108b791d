---------------------------- MODULE ReplayProofs ----------------------------
(***************************************************************************)
(* Proofs about the replays of a trace file of any length, in modules      *)
(* Replay and LibcReplay: first with the C library, then with this         *)
(* repository's allocator.                                                 *)
(*                                                                         *)
(* With this repository's allocator, every replay of the trace is one and  *)
(* the same run S of the functions of BlockHeap: S[k] is the heap, and     *)
(* what the arrays of the trace hold, after k lines (IsRun).  The words of *)
(* the memory serve the ids what S says they hold (ServedAt), what is held *)
(* is on record (RecordsAt), and every payload in use holds its pattern    *)
(* (Checked): the lemmas about a line, in ReplayLineProofs, take each of   *)
(* these from one line to the next.                                        *)
(***************************************************************************)
EXTENDS LibcReplay, ReplayLineProofs

-----------------------------------------------------------------------------
(* The blocks of the C library *)

(* The places L in use are those leaked before, K, and those that the ids  *)
(* of U hold in the array B, each a place of its own.                      *)
HeldIn(B, U) == {B[id] : id \in U} \ {NULL}

Accounted(B, U, L, K) ==
  /\ U \subseteq DOMAIN B /\ L \subseteq Words \ {NULL}
  /\ L = K \cup HeldIn(B, U) /\ K \cap HeldIn(B, U) = {}
  /\ \A a, b \in U : (a # b /\ B[a] = B[b]) => B[a] = NULL

(* An id that held nothing gets a place that was not in use. *)
LEMMA GrantAccounted ==
  ASSUME NEW B, NEW U, NEW L, NEW K, Accounted(B, U, L, K),
         NEW id \in DOMAIN B \ U, NEW q \in Words \ (L \cup {NULL})
  PROVE  Accounted([B EXCEPT ![id] = q], U \cup {id}, L \cup {q}, K)
<1> DEFINE C == [B EXCEPT ![id] = q]
<1>1. C[id] = q /\ \A a \in U : C[a] = B[a]
  BY DEF Accounted
<1>2. DOMAIN C = DOMAIN B
  OBVIOUS
<1> HIDE DEF C
<1>3. HeldIn(C, U \cup {id}) = HeldIn(B, U) \cup {q}
  BY <1>1 DEF HeldIn
<1>4. \A a \in U : B[a] # q
  BY DEF Accounted, HeldIn
<1>5. U \cup {id} \subseteq DOMAIN C /\ L \cup {q} \subseteq Words \ {NULL}
  BY <1>2 DEF Accounted
<1>6. /\ L \cup {q} = K \cup HeldIn(C, U \cup {id})
      /\ K \cap HeldIn(C, U \cup {id}) = {}
  BY <1>3 DEF Accounted
<1>7. \A a, b \in U \cup {id} : (a # b /\ C[a] = C[b]) => C[a] = NULL
  BY <1>1, <1>4 DEF Accounted
<1> QED
  BY <1>5, <1>6, <1>7 DEF Accounted, C

(* What an id in use held is given back. *)
LEMMA ReleaseAccounted ==
  ASSUME NEW B, NEW U, NEW L, NEW K, Accounted(B, U, L, K), NEW id \in U
  PROVE  Accounted(B, U \ {id}, L \ {B[id]}, K)
<1>1. HeldIn(B, U \ {id}) = HeldIn(B, U) \ {B[id]}
  BY DEF Accounted, HeldIn
<1>2. B[id] \notin K
  <2>1. CASE B[id] = NULL
    BY <2>1 DEF Accounted
  <2>2. CASE B[id] # NULL
    BY <2>2 DEF Accounted, HeldIn
  <2> QED
    BY <2>1, <2>2
<1> QED
  BY <1>1, <1>2 DEF Accounted

(* The entry of an id that holds nothing may have any value, and an entry  *)
(* of no block is as good as none.                                         *)
LEMMA ForgottenAccounted ==
  ASSUME NEW B, NEW U, NEW L, NEW K, Accounted(B, U, L, K), NEW id \in DOMAIN B \ U
  PROVE  Accounted([B EXCEPT ![id] = NULL], U \cup {id}, L, K)
<1> DEFINE C == [B EXCEPT ![id] = NULL]
<1>1. C[id] = NULL /\ \A a \in U : C[a] = B[a]
  BY DEF Accounted
<1>2. DOMAIN C = DOMAIN B
  OBVIOUS
<1> HIDE DEF C
<1>3. HeldIn(C, U \cup {id}) = HeldIn(B, U)
  BY <1>1 DEF HeldIn
<1> QED
  BY <1>1, <1>2, <1>3 DEF Accounted, C

(* The ids in use. *)
Used == {id \in Ids : InUse(id)}

LibcPhases == {"libc_valid", "libc_speed"}

(* While the C library has its turn, its blocks are accounted for. *)
LibcInv ==
  /\ file \in Files
  /\ package \in {"mm", "libc"}
  /\ package = "mm" => phase \notin LibcPhases
  /\ package = "libc" =>
       /\ phase \in LibcPhases \cup {"read", "valid1", "exit", "done"}
       /\ phase \notin {"read", "exit"} => LinesFit(ops)
       /\ live \subseteq Words \ {NULL}
       /\ phase \in LibcPhases /\ i # 0 =>
            /\ i \in 1 .. Len(ops) + 1
            /\ blocks \in [Ids -> Words]
            /\ Accounted(blocks, Used, live, leaked)

(* The invariant gives the property. *)
LEMMA LibcInvImplies == LibcInv => LibcBlocksKept
<1> SUFFICES ASSUME LibcInv, phase \in LibcPhases, i > 0
             PROVE  /\ live = leaked \cup Held /\ leaked \cap Held = {}
                    /\ \A a, b \in Ids : (a # b /\ InUse(a) /\ InUse(b) /\ blocks[a] = blocks[b])
                                         => blocks[a] = NULL
  BY DEF LibcBlocksKept, LibcPhases
<1>1. Accounted(blocks, Used, live, leaked)
  BY DEF LibcInv
<1>2. HeldIn(blocks, Used) = Held
  BY DEF HeldIn, Held, Used
<1> QED
  BY <1>1, <1>2 DEF Accounted, Used

(* It holds before the file is read. *)
LEMMA LibcInitInv == LibcInit => LibcInv
BY DEF LibcInit, Init, LibcInv, LibcPhases

(* This repository's allocator leaves the C library's turn alone. *)
LEMMA MmStepInv ==
  ASSUME LibcInv, package = "mm", Next, UNCHANGED package
  PROVE  LibcInv'
<1>1. file' = file /\ phase' \notin LibcPhases
  <2>1. CASE ReadTrace
    BY <2>1 DEF ReadTrace, LibcPhases
  <2>2. CASE BeginReplay
    BY <2>2 DEF BeginReplay, LibcInv
  <2>3. CASE EndReplay
    BY <2>3 DEF EndReplay, LibcPhases
  <2>4. CASE ValidAlloc \/ ValidRealloc \/ ValidFree
    BY <2>4 DEF ValidAlloc, ValidRealloc, ValidFree, Accept, Reject, LibcPhases, LibcInv
  <2>5. CASE UtilAlloc \/ UtilRealloc \/ UtilFree \/ SpeedStep
    BY <2>5 DEF UtilAlloc, UtilRealloc, UtilFree, SpeedStep, UtilStores, AppError, LibcPhases, LibcInv
  <2> QED
    BY <2>1, <2>2, <2>3, <2>4, <2>5 DEF Next
<1> QED
  BY <1>1 DEF LibcInv

(* read_trace gives the operations their form. *)
LEMMA LibcReadInv ==
  ASSUME LibcInv, package = "libc", ReadTrace, UNCHANGED <<package, libc>>
  PROVE  LibcInv'
<1>1. /\ file' = file /\ live' = live /\ phase' \in {"valid1", "exit"}
      /\ phase' = "valid1" => ReadError = "none" /\ ops' = Read
  BY DEF ReadTrace, libc
<1>2. phase' = "valid1" => LinesFit(ops')
  BY <1>1, AcceptedLinesFit DEF LibcInv
<1>3. LinesFit(ops)' <=> LinesFit(ops')
  BY <1>1 DEF LinesFit, Ids
<1> QED
  BY <1>1, <1>2, <1>3 DEF LibcInv, LibcPhases

(* A replay begins with nothing in use: what is left has leaked. *)
LEMMA LibcBeginInv ==
  ASSUME LibcInv, LibcBegin
  PROVE  LibcInv'
<1>1. /\ file' = file /\ ops' = ops /\ package' = "libc" /\ live' = live /\ leaked' = live
      /\ i' = 1 /\ phase' \in LibcPhases /\ blocks' = [id \in Ids |-> NULL]
      /\ package = "libc" /\ phase \notin {"read", "exit"}
  BY DEF LibcBegin, LibcPhases
<1>2. Ids' = Ids /\ (LinesFit(ops)' <=> LinesFit(ops))
  BY <1>1 DEF LinesFit, Ids
<1>3. LinesFit(ops) /\ Len(ops) \in Nat
  BY <1>1 DEF LibcInv, LinesFit
<1>4. Used' = {}
  BY <1>1, NothingInUse DEF Used, InUse
<1>5. Accounted(blocks, Used, live, leaked)'
  BY <1>1, <1>2, <1>4 DEF LibcInv, Accounted, HeldIn
<1>6. NULL \in Words
  BY MmWordsAssumption DEF Words, NULL, WSIZE
<1> QED
  BY <1>1, <1>2, <1>3, <1>5, <1>6 DEF LibcInv

(* The end of a replay leaves the blocks where they are. *)
LEMMA LibcEndInv ==
  ASSUME LibcInv, LibcEnd
  PROVE  LibcInv'
<1>1. /\ file' = file /\ ops' = ops /\ package' = "libc" /\ live' = live /\ i' = 0
      /\ phase' \in LibcPhases \cup {"done"} /\ package = "libc" /\ phase \notin {"read", "exit"}
  BY DEF LibcEnd, LibcPhases, libc
<1>2. LinesFit(ops)' <=> LinesFit(ops)
  BY <1>1 DEF LinesFit, Ids
<1> QED
  BY <1>1, <1>2 DEF LibcInv, LibcPhases

(* What a call of the C library may leave: nothing is held twice. *)
LEMMA LibcStoresInv ==
  ASSUME LibcInv, package = "libc", phase \in LibcPhases, i \in DOMAIN ops,
         NEW id, NEW r, NEW failed \in BOOLEAN, LibcStores(id, r, failed),
         r.live \subseteq Words \ {NULL},
         ~ failed => LET B == IF id = -1 THEN blocks ELSE [blocks EXCEPT ![id] = r.ptr]
                         o == ops[i]
                     IN  /\ B \in [Ids -> Words]
                         /\ Accounted(B, IF o.type = "f" THEN Used \ {o.index} ELSE Used \cup ({o.index} \cap Ids),
                                      r.live, leaked)
  PROVE  LibcInv'
<1>1. /\ file' = file /\ ops' = ops /\ package' = package /\ live' = r.live /\ leaked' = leaked
  BY DEF LibcStores
<1>2. Ids' = Ids /\ (LinesFit(ops)' <=> LinesFit(ops))
  BY <1>1 DEF LinesFit, Ids
<1>3. LinesFit(ops) /\ i \in 1 .. Len(ops) /\ Len(ops) \in Nat
  BY DEF LibcInv, LinesFit, LibcPhases
<1>4. CASE failed
  <2>1. phase' = "exit"
    BY <1>4 DEF LibcStores
  <2> QED
    BY <1>1, <1>2, <2>1 DEF LibcInv, LibcPhases
<1>5. CASE ~ failed
  <2>1. /\ phase' = phase /\ i' = i + 1
        /\ blocks' = IF id = -1 THEN blocks ELSE [blocks EXCEPT ![id] = r.ptr]
    BY <1>5 DEF LibcStores
  <2>2. \A j : InUse(j)' <=> IF ops[i].index = j THEN ops[i].type # "f" ELSE InUse(j)
    <3> TAKE j
    <3>1. InUse(j)' <=> InUseAfter(ops, i, j)
      BY <1>1, <1>3, <2>1 DEF InUse, InUseAfter
    <3> QED
      BY <1>3, <3>1, InUseStep DEF InUse, LinesFit
  <2>3. Used' = IF ops[i].type = "f" THEN Used \ {ops[i].index} ELSE Used \cup ({ops[i].index} \cap Ids)
    BY <1>2, <2>2 DEF Used
  <2>4. Accounted(blocks, Used, live, leaked)' /\ (blocks \in [Ids -> Words])'
    <3>1. Accounted(blocks', Used', live', leaked') /\ blocks' \in [Ids' -> Words]
      BY <1>1, <1>2, <1>5, <2>1, <2>3
    <3> QED
      BY <3>1
  <2>5. i' \in 1 .. Len(ops') + 1
    BY <1>1, <1>3, <2>1
  <2> QED
    BY <1>1, <1>2, <1>3, <2>1, <2>4, <2>5 DEF LibcInv
<1> QED
  BY <1>4, <1>5

(* The facts that hold before each call. *)
LEMMA BeforeCall ==
  ASSUME LibcInv, NEW type, Libc(type)
  PROVE  /\ package = "libc" /\ phase \in LibcPhases /\ i \in DOMAIN ops
         /\ i \in 1 .. Len(ops) /\ i # 0
         /\ ops[i].type = type /\ ops[i].index \in Ids \cup {-1} /\ IsLine(ops[i])
         /\ type = "a" => ops[i].index \in Ids \ Used
         /\ type = "r" => ops[i].index \in Used
         /\ type = "f" => ops[i].index \in Used \cup {-1}
         /\ -1 \notin Ids
         /\ blocks \in [Ids -> Words] /\ Accounted(blocks, Used, live, leaked)
<1>1. package = "libc" /\ phase \in LibcPhases /\ i \in DOMAIN ops /\ ops[i].type = type
  BY DEF Libc, At, LibcPhases
<1>2. LinesFit(ops)
  BY <1>1 DEF LibcInv, LibcPhases
<1>3. i \in 1 .. Len(ops)
  BY <1>1, <1>2 DEF LinesFit
<1>4. ops[i].index \in Ids \cup {-1} /\ IsLine(ops[i])
  BY <1>1, <1>2 DEF LinesFit
<1>5. -1 \notin Ids
  BY DEF Ids
<1>6. /\ type = "a" => ~ InUse(ops[i].index)
      /\ type = "r" => InUse(ops[i].index)
      /\ type = "f" => InUse(ops[i].index) \/ ops[i].index = -1
  BY <1>1, <1>2, Zenon DEF LinesFit, AsAProgram, InUse
<1>7. type \in {"a", "r"} => ops[i].index # -1
  BY <1>1, <1>4 DEF IsLine
<1>8. blocks \in [Ids -> Words] /\ Accounted(blocks, Used, live, leaked)
  BY <1>1, <1>3 DEF LibcInv
<1> QED
  BY <1>1, <1>3, <1>4, <1>5, <1>6, <1>7, <1>8 DEF Used

(* NULL is the address of a word, so that blocks may hold it. *)
LEMMA NullIsWord == NULL \in Words
BY MmWordsAssumption DEF Words, NULL, WSIZE

(* malloc of the C library *)
LEMMA LibcAllocInv ==
  ASSUME LibcInv, LibcAlloc
  PROVE  LibcInv'
<1> DEFINE id == ops[i].index
<1>1. Libc("a")
  BY DEF LibcAlloc
<1>2. PICK r \in LibcMalloc : LibcStores(id, r, r.ptr = NULL)
  BY DEF LibcAlloc
<1>3. live \subseteq Words \ {NULL} /\ Places(live) \subseteq Words \ (live \cup {NULL})
  BY <1>1, BeforeCall, LibcAssumption DEF Accounted
<1>4. r.live \subseteq Words \ {NULL}
  BY <1>3 DEF LibcMalloc
<1>5. ASSUME r.ptr # NULL
      PROVE  /\ r.ptr \in Words \ (live \cup {NULL}) /\ r.live = live \cup {r.ptr}
  BY <1>3, <1>5 DEF LibcMalloc
<1>6. ASSUME r.ptr # NULL
      PROVE  /\ [blocks EXCEPT ![id] = r.ptr] \in [Ids -> Words]
             /\ Accounted([blocks EXCEPT ![id] = r.ptr], Used \cup {id}, r.live, leaked)
  BY <1>1, <1>5, <1>6, BeforeCall, GrantAccounted
<1> QED
  BY <1>1, <1>2, <1>4, <1>6, BeforeCall, LibcStoresInv

(* realloc: a failure, no bytes, the same place or another *)
LEMMA LibcReallocsInv ==
  ASSUME LibcInv, LibcReallocs
  PROVE  LibcInv'
<1> DEFINE id == ops[i].index
           p == blocks[id]
           size == ops[i].size
<1>1. Libc("r") /\ id \in Used /\ id \in Ids
  BY BeforeCall DEF LibcReallocs, Used
<1>2. PICK r \in LibcRealloc(p, size) : LibcStores(id, r, r.ptr = NULL /\ size # 0)
  BY DEF LibcReallocs
<1>3. live \subseteq Words \ {NULL} /\ Places(live) \subseteq Words \ (live \cup {NULL})
  BY <1>1, BeforeCall, LibcAssumption DEF Accounted
<1>4. r.live \subseteq Words \ {NULL}
  BY <1>3 DEF LibcRealloc
<1>5. Accounted(blocks, Used \ {id}, live \ {p}, leaked)
  BY <1>1, BeforeCall, ReleaseAccounted
<1>6. (Used \ {id}) \cup {id} = Used /\ id \in DOMAIN blocks \ (Used \ {id})
  BY <1>1, BeforeCall
<1>7. ASSUME ~ (r.ptr = NULL /\ size # 0)
      PROVE  /\ [blocks EXCEPT ![id] = r.ptr] \in [Ids -> Words]
             /\ Accounted([blocks EXCEPT ![id] = r.ptr], Used, r.live, leaked)
  <2>1. CASE r.ptr = NULL /\ r.live = live \ {p}
    BY <1>1, <1>5, <1>6, <2>1, BeforeCall, ForgottenAccounted, NullIsWord
  <2>2. CASE r.ptr \in Places(live) /\ r.live = (live \ {p}) \cup {r.ptr}
    <3>1. r.ptr \in Words \ ((live \ {p}) \cup {NULL})
      BY <1>3, <2>2
    <3> QED
      BY <1>1, <1>5, <1>6, <2>2, <3>1, BeforeCall, GrantAccounted
  <2>3. CASE r.ptr = p /\ r.live = live
    <3>1. [blocks EXCEPT ![id] = r.ptr] = blocks
      BY <1>1, <2>3, BeforeCall
    <3> QED
      BY <1>1, <2>3, <3>1, BeforeCall
  <2> QED
    BY <1>7, <2>1, <2>2, <2>3 DEF LibcRealloc
<1>8. Used \cup ({id} \cap Ids) = Used /\ id # -1 /\ ops[i].type # "f"
  BY <1>1, BeforeCall
<1>9. /\ package = "libc" /\ phase \in LibcPhases /\ i \in DOMAIN ops
      /\ (r.ptr = NULL /\ size # 0) \in BOOLEAN
  BY <1>1, BeforeCall
<1> HIDE DEF p, size
<1> QED
  BY <1>2, <1>4, <1>7, <1>8, <1>9, LibcStoresInv

(* free, of a null pointer too *)
LEMMA LibcFreesInv ==
  ASSUME LibcInv, LibcFrees
  PROVE  LibcInv'
<1> DEFINE id == ops[i].index
           p == IF id = -1 THEN NULL ELSE blocks[id]
<1>1. Libc("f") /\ id \in Used \cup {-1}
  BY BeforeCall DEF LibcFrees
<1>2. PICK r \in LibcFree(p) : LibcStores(-1, r, FALSE)
  BY DEF LibcFrees
<1>3. r.live = live \ {p}
  BY <1>2 DEF LibcFree
<1>4. Accounted(blocks, Used \ {id}, r.live, leaked)
  <2>1. CASE id = -1
    <3>1. -1 \notin Used /\ NULL \notin live
      BY <1>1, BeforeCall DEF Used, Accounted
    <3>2. Used \ {id} = Used /\ r.live = live
      BY <1>3, <2>1, <3>1
    <3> QED
      BY <1>1, <3>2, BeforeCall
  <2>2. CASE id # -1
    BY <1>1, <1>3, <2>2, BeforeCall, ReleaseAccounted
  <2> QED
    BY <2>1, <2>2
<1>5. r.live \subseteq Words \ {NULL}
  BY <1>4 DEF Accounted
<1> QED
  BY <1>1, <1>2, <1>4, <1>5, BeforeCall, LibcStoresInv

(* Every step keeps the invariant. *)
LEMMA LibcNextInv == LibcInv /\ [LibcNext]_<<vars, package, libc>> => LibcInv'
<1> SUFFICES ASSUME LibcInv, [LibcNext]_<<vars, package, libc>> PROVE LibcInv'
  OBVIOUS
<1>1. CASE package = "mm" /\ Next /\ UNCHANGED <<package, libc>>
  BY <1>1, MmStepInv
<1>2. CASE package = "libc" /\ ReadTrace /\ UNCHANGED <<package, libc>>
  BY <1>2, LibcReadInv
<1>3. CASE LibcBegin \/ LibcEnd
  BY <1>3, LibcBeginInv, LibcEndInv
<1>4. CASE LibcAlloc \/ LibcReallocs \/ LibcFrees
  BY <1>4, LibcAllocInv, LibcReallocsInv, LibcFreesInv
<1>5. CASE UNCHANGED <<vars, package, libc>>
  <2>1. UNCHANGED <<file, package, phase, ops, i, blocks, live, leaked>>
    BY <1>5 DEF vars, trace, libc
  <2> QED
    BY <2>1 DEF LibcInv, LinesFit, Ids, Used, InUse
<1> QED
  BY <1>1, <1>2, <1>3, <1>4, <1>5 DEF LibcNext

(* A replay with the C library loses none of its blocks and gives none     *)
(* back that the trace still uses: for files of any length, a library that *)
(* puts blocks anywhere, and any number of speed replays.                  *)
THEOREM LibcLosesNothing == LibcSpec => []LibcBlocksKept
BY LibcInitInv, LibcNextInv, LibcInvImplies, PTL DEF LibcSpec

USE DEF NULL, ALIGNMENT, WSIZE, W!NULL, W!ALIGNMENT, W!WSIZE

-----------------------------------------------------------------------------
(* Replays with this repository's allocator *)

Replaying == {"valid1", "valid2", "util", "speed"}

(* The replay has come as far along S as its lines reach, and so did the   *)
(* first replay to the end.                                                *)
Follows(S) ==
  /\ i # 0 =>
       /\ IsRun(S, ops, Ids, i - 1)
       /\ ServedAt(mm, S[i - 1], ops, Ids, i - 1)
       /\ blocks = S[i - 1].blocks
       /\ phase # "speed" => block_sizes = S[i - 1].sizes
  /\ phase # "valid1" =>
       /\ IsRun(S, ops, Ids, Len(ops))
       /\ first = [brk |-> S[Len(ops)].heap.brk, blocks |-> S[Len(ops)].blocks]

(* What eval_mm_valid has on record and has filled is what is held. *)
Inspected(S) ==
  (phase \in Valid /\ i # 0) =>
    IF debug_mode = "none" THEN ranges = R!new_range_set
    ELSE /\ RecordsAt(ranges, S[i - 1], ops, i - 1)
         /\ Checked(mm, S[i - 1], rand_base, ops, Ids, i - 1)

(* All replays of a trace go through the same steps on the blocks. *)
MmInv ==
  /\ debug_mode \in {"none", "cheap", "expensive"}
  /\ mm = [mem |-> mm.mem, brk |-> mm.brk, lists |-> mm.lists] /\ mm.mem \in [Words -> Int]
  /\ phase = "read" => i = 0
  /\ phase \in Replaying => LinesFit(ops) /\ \E S : Follows(S) /\ Inspected(S)
  /\ OnlyExhaustion /\ MeasuredIfValid

ReplayInv == LibcInv /\ MmInv /\ TypeOK

(* What the step of a line may rely on. *)
LEMMA BeforeOperation ==
  ASSUME ReplayInv, phase \in Replaying, i \in DOMAIN ops, NEW S, Follows(S),
         NEW u, u = WordCall(mm, PointerOf(S[i - 1], ops[i]), ops[i])
  PROVE  /\ LinesFit(ops) /\ i \in 1 .. Len(ops) /\ i # 0
         /\ blocks = S[i - 1].blocks
         /\ ServedAt(mm, S[i - 1], ops, Ids, i - 1)
         /\ phase # "speed" => block_sizes = S[i - 1].sizes
         /\ PointerOf(S[i - 1], ops[i]) = IF ops[i].index = -1 THEN NULL ELSE blocks[ops[i].index]
         /\ u.ptr = NULL /\ MayFail(ops[i]) =>
              phase = "valid1" /\ (ops[i].size = 0 \/ mm.brk + asize(ops[i].size) > MaxHeap)
         /\ ~ (u.ptr = NULL /\ MayFail(ops[i])) =>
              Passes(mm, S[i - 1], u, After(S[i - 1], ops[i]), ops, i)
<1> DEFINE s == S[i - 1]
           l == ops[i]
           v == BlockCall(s.heap, PointerOf(s, l), l)
<1>1. LinesFit(ops)
  BY DEF ReplayInv, MmInv
<1>2. i \in 1 .. Len(ops) /\ i # 0
  BY <1>1 DEF LinesFit
<1>3. /\ ServedAt(mm, s, ops, Ids, i - 1) /\ blocks = s.blocks
      /\ phase # "speed" => block_sizes = s.sizes
      /\ phase # "valid1" => IsRun(S, ops, Ids, Len(ops))
  BY <1>2 DEF Follows
<1>4. Answered(mm, s, ops, Ids, i)
  BY <1>1, <1>2, <1>3, LineAnswered
<1>5. PointerOf(s, l) = IF l.index = -1 THEN NULL ELSE blocks[l.index]
  BY <1>3 DEF PointerOf
<1>6. u.ptr = v.ptr /\ (Fails(s, l) => l.size = 0 \/ mm.brk + asize(l.size) > MaxHeap)
  BY <1>4 DEF Answered
<1>7. Fails(s, l) <=> u.ptr = NULL /\ MayFail(l)
  BY <1>6 DEF Fails
<1>8. phase # "valid1" => ~ Fails(s, l)
  BY <1>2, <1>3 DEF IsRun
<1>9. ~ Fails(s, l) => Passes(mm, s, u, After(s, l), ops, i)
  BY <1>1, <1>2, <1>3 DEF Passes
<1> QED
  BY <1>1, <1>2, <1>3, <1>5, <1>6, <1>7, <1>8, <1>9

(* The next step of a replay that goes on along S, or prolongs it. *)
LEMMA Prolonged ==
  ASSUME ReplayInv, phase \in Replaying, i \in 1 .. Len(ops), Len(ops) \in Nat, NEW S, Follows(S),
         NEW t, t = After(S[i - 1], ops[i]), ~ Fails(S[i - 1], ops[i])
  PROVE  \E T : /\ T[i] = t /\ IsRun(T, ops, Ids, i)
                /\ phase # "valid1" =>
                     /\ IsRun(T, ops, Ids, Len(ops))
                     /\ first = [brk |-> T[Len(ops)].heap.brk, blocks |-> T[Len(ops)].blocks]
<1>1. IsRun(S, ops, Ids, i - 1)
  BY DEF Follows
<1>2. CASE phase # "valid1"
  <2>1. /\ IsRun(S, ops, Ids, Len(ops))
        /\ first = [brk |-> S[Len(ops)].heap.brk, blocks |-> S[Len(ops)].blocks]
    BY <1>2 DEF Follows
  <2>2. S[i] = t /\ IsRun(S, ops, Ids, i)
    BY <2>1 DEF IsRun
  <2> QED
    BY <2>1, <2>2
<1>3. CASE phase = "valid1"
  <2> DEFINE T == [k \in Nat |-> IF k = i THEN t ELSE S[k]]
  <2>1. T[i] = t /\ \A k \in 0 .. i - 1 : T[k] = S[k]
    OBVIOUS
  <2> HIDE DEF T
  <2>2. ASSUME NEW k \in 1 .. i
        PROVE  T[k] = After(T[k - 1], ops[k]) /\ ~ Fails(T[k - 1], ops[k])
    <3>1. CASE k = i
      <4>1. T[k - 1] = S[i - 1]
        BY <2>1, <3>1
      <4> QED
        BY <2>1, <3>1, <4>1
    <3>2. CASE k # i
      <4>1. k \in 1 .. i - 1 /\ T[k] = S[k] /\ T[k - 1] = S[k - 1]
        BY <2>1, <3>2
      <4> QED
        BY <1>1, <4>1 DEF IsRun
    <3> QED
      BY <3>1, <3>2
  <2>3. T[0] = StartOf(Ids)
    BY <1>1, <2>1 DEF IsRun
  <2>4. IsRun(T, ops, Ids, i)
    BY <2>2, <2>3 DEF IsRun
  <2> QED
    BY <1>3, <2>1, <2>4
<1> QED
  BY <1>2, <1>3

(* What stays as it is while a replay goes on. *)
Frame == UNCHANGED <<debug_mode, file, phase, ops, complaint, first>>

(* A line that was served, and whose answer is stored, keeps the invariant.*)
LEMMA LineDone ==
  ASSUME ReplayInv, phase \in Replaying, i \in DOMAIN ops, NEW S, Follows(S),
         NEW u, NEW t, t = After(S[i - 1], ops[i]), Passes(mm, S[i - 1], u, t, ops, i),
         Frame, i' = i + 1, ServedAt(mm', t, ops, Ids, i), blocks' = t.blocks,
         IF phase = "speed" THEN block_sizes' = block_sizes ELSE block_sizes' = t.sizes,
         (rand_base \in [Ids -> Bases \cup {0}])',
         (sizes \in [total : 0 .. WORD - 1, max_total : 0 .. WORD - 1, max_heap : 0 .. MaxHeap])',
         phase \in Valid =>
           IF debug_mode = "none" THEN ranges' = R!new_range_set
           ELSE RecordsAt(ranges', t, ops, i) /\ Checked(mm', t, rand_base', ops, Ids, i)
  PROVE  MmInv' /\ TypeOK'
<1>1. LinesFit(ops) /\ i \in 1 .. Len(ops) /\ Len(ops) \in Nat /\ DOMAIN ops = 1 .. Len(ops)
  BY DEF ReplayInv, MmInv, LinesFit
<1>2. /\ debug_mode' = debug_mode /\ file' = file /\ phase' = phase /\ ops' = ops
      /\ complaint' = complaint /\ first' = first /\ Ids' = Ids
  BY DEF Frame, Ids
<1>3. LinesFit(ops)'
  BY <1>1, <1>2 DEF LinesFit
<1>4. ~ Fails(S[i - 1], ops[i])
  BY DEF Passes
<1>5. PICK T : /\ T[i] = t /\ IsRun(T, ops, Ids, i)
               /\ phase # "valid1" =>
                    /\ IsRun(T, ops, Ids, Len(ops))
                    /\ first = [brk |-> T[Len(ops)].heap.brk, blocks |-> T[Len(ops)].blocks]
  BY <1>1, <1>4, Prolonged
<1>6. i' - 1 = i /\ i' # 0 /\ i' \in 0 .. Len(ops) + 1
  BY <1>1
<1>7. Follows(T)'
  BY <1>2, <1>5, <1>6 DEF Follows
<1>8. Inspected(T)'
  BY <1>2, <1>5, <1>6 DEF Inspected, Valid
<1>9. /\ mm'.brk \in WSIZE .. MaxHeap
      /\ mm' = [mem |-> mm'.mem, brk |-> mm'.brk, lists |-> mm'.lists] /\ mm'.mem \in [Words -> Int]
  BY ServesShape DEF ServedAt
<1>10. t.blocks \in [Ids -> 0 .. MaxHeap] /\ t.sizes \in [Ids -> 0 .. MaxHeap]
  BY DEF ServedAt
<1>11. MmInv'
  <2>1. OnlyExhaustion' /\ MeasuredIfValid' /\ (phase = "read" => i = 0)'
    BY <1>2 DEF Replaying, OnlyExhaustion, MeasuredIfValid
  <2>2. (phase \in Replaying => LinesFit(ops) /\ \E W1 : Follows(W1) /\ Inspected(W1))'
    BY <1>3, <1>7, <1>8
  <2>3. (debug_mode \in {"none", "cheap", "expensive"})'
    BY <1>2 DEF ReplayInv, MmInv
  <2> QED
    BY <1>9, <2>1, <2>2, <2>3 DEF MmInv
<1>12. TypeOK'
  <2>1. blocks' \in [Ids -> 0 .. MaxHeap] /\ block_sizes' \in [Ids -> 0 .. MaxHeap]
    BY <1>10 DEF ReplayInv, TypeOK
  <2> QED
    BY <1>2, <1>6, <1>9, <2>1 DEF ReplayInv, TypeOK
<1> QED
  BY <1>11, <1>12

(* A complaint that is due to exhaustion keeps it too. *)
LEMMA RejectInv ==
  ASSUME ReplayInv, phase \in Valid, NEW why, Reject(why), why = "failed",
         ops[i].size = 0 \/ mm.brk + asize(ops[i].size) > MaxHeap
  PROVE  MmInv' /\ TypeOK'
<1>1. /\ phase' = "invalid" /\ complaint' = "failed"
      /\ UNCHANGED <<debug_mode, file, ops, i, mm, ranges, blocks, block_sizes, rand_base, sizes, first>>
  BY DEF Reject, trace
<1>2. OnlyExhaustion' /\ MeasuredIfValid'
  BY <1>1 DEF OnlyExhaustion, MeasuredIfValid
<1>3. MmInv'
  BY <1>1, <1>2 DEF ReplayInv, MmInv, Replaying
<1>4. Ids' = Ids /\ phase \notin {"read", "exit"}
  BY <1>1 DEF Ids, Valid
<1>5. TypeOK'
  BY <1>1, <1>4 DEF ReplayInv, TypeOK
<1> QED
  BY <1>3, <1>5

(* What was stored and filled by eval_mm_valid. *)
LEMMA AcceptInv ==
  ASSUME ReplayInv, phase \in Valid, i \in DOMAIN ops, NEW S, Follows(S), Inspected(S),
         NEW u, NEW t, t = After(S[i - 1], ops[i]), Passes(mm, S[i - 1], u, t, ops, i),
         ops[i].type # "f", NEW records, Accept(ops[i].index, u, ops[i].size, records),
         IF debug_mode = "none" THEN records = R!new_range_set ELSE RecordsAt(records, t, ops, i)
  PROVE  MmInv' /\ TypeOK'
<1> DEFINE id == ops[i].index
           n == ops[i].size
<1>1. /\ phase \in Replaying /\ phase # "speed"
  BY DEF Valid, Replaying
<1>2. i # 0 /\ id \in Ids
  <2>1. LinesFit(ops) /\ i \in 1 .. Len(ops)
    BY DEF Passes
  <2> QED
    BY <2>1, BeforeLine
<1>3. /\ Frame /\ i' = i + 1 /\ ranges' = records /\ sizes' = sizes
      /\ blocks' = [blocks EXCEPT ![id] = u.ptr] /\ block_sizes' = [block_sizes EXCEPT ![id] = n]
  BY DEF Accept, Frame
<1>4. StoredAs(S[i - 1], t, id, u.ptr, n)
  BY PassedLine
<1>5. blocks' = t.blocks /\ block_sizes' = t.sizes
  BY <1>1, <1>2, <1>3, <1>4 DEF Follows, StoredAs
<1>6. ServedAt(u.mm, t, ops, Ids, i)
  BY PassedLine
<1>7. (sizes \in [total : 0 .. WORD - 1, max_total : 0 .. WORD - 1, max_heap : 0 .. MaxHeap])'
  BY <1>3 DEF ReplayInv, TypeOK
<1>8. rand_base \in [Ids -> Bases \cup {0}] /\ Ids' = Ids
  BY <1>3 DEF ReplayInv, TypeOK, Frame, Ids
<1>9. CASE debug_mode = "none"
  <2>1. mm' = u.mm /\ rand_base' = rand_base
    BY <1>9 DEF Accept
  <2>2. ranges' = R!new_range_set
    BY <1>3, <1>9
  <2> QED
    BY <1>1, <1>3, <1>5, <1>6, <1>7, <1>8, <1>9, <2>1, <2>2, LineDone
<1>10. CASE debug_mode # "none"
  <2>1. PICK base \in Bases : /\ rand_base' = [rand_base EXCEPT ![id] = base]
                              /\ mm' = randomize_block(u.mm, u.ptr, n, base)
    BY <1>10 DEF Accept
  <2>2. Checked(mm, S[i - 1], rand_base, ops, Ids, i - 1) /\ RecordsAt(records, t, ops, i)
    BY <1>2, <1>10 DEF Inspected
  <2>3. base \in Nat /\ rand_base \in [Ids -> Nat] /\ rand_base' \in [Ids -> Bases \cup {0}]
    <3>1. Bases \subseteq Nat
      BY ReplayAssumption
    <3>2. base \in Nat
      BY <3>1
    <3>3. [rand_base EXCEPT ![id] = base] \in [Ids -> Bases \cup {0}]
      BY <1>8
    <3>4. Bases \cup {0} \subseteq Nat
      BY <3>1
    <3>5. rand_base \in [Ids -> Nat]
      BY ONLY <1>8, <3>4
    <3> QED
      BY <2>1, <3>2, <3>3, <3>5
  <2>4. rand_base' = With(rand_base, id, base)
    BY <2>1 DEF With
  <2>5. ServedAt(mm', t, ops, Ids, i) /\ Checked(mm', t, rand_base', ops, Ids, i)
    <3>1. PICK q : q = mm'
      OBVIOUS
    <3>2. PICK bases : bases = rand_base
      OBVIOUS
    <3>3. q = randomize_block(u.mm, u.ptr, ops[i].size, base) /\ bases \in [Ids -> Nat]
      BY <2>1, <2>3, <3>1, <3>2
    <3>4. Checked(mm, S[i - 1], bases, ops, Ids, i - 1)
      BY <2>2, <3>2
    <3>5. /\ ServedAt(q, t, ops, Ids, i)
          /\ Checked(q, t, With(bases, ops[i].index, base), ops, Ids, i)
      BY <2>3, <3>3, <3>4, FilledLine
    <3> QED
      BY <2>4, <3>1, <3>2, <3>5
  <2> QED
    BY <1>1, <1>3, <1>5, <1>7, <1>8, <1>10, <2>2, <2>3, <2>5, LineDone
<1> QED
  BY <1>9, <1>10

(* Nothing garbled is met on the list. *)
LEMMA NothingGarbled ==
  ASSUME ReplayInv, phase \in Valid, i # 0, NEW S, Follows(S), Inspected(S)
  PROVE  WalkOK
<1>1. blocks = S[i - 1].blocks /\ block_sizes = S[i - 1].sizes
  BY DEF Follows, Valid
<1>2. debug_mode # "none" => Checked(mm, S[i - 1], rand_base, ops, Ids, i - 1)
  BY DEF Inspected
<1> QED
  BY <1>1, <1>2 DEF WalkOK, Checked, InUse

(* malloc in eval_mm_valid *)
LEMMA ValidAllocInv ==
  ASSUME ReplayInv, ValidAlloc
  PROVE  MmInv' /\ TypeOK'
<1> DEFINE id == ops[i].index
           size == ops[i].size
           u == malloc(mm, size)
           hi == u.ptr + size - 1
           top == u.mm.brk - 1
           Error == IF ~ WalkOK THEN "garbled"
                    ELSE IF u.ptr = NULL THEN "failed"
                    ELSE Judged(ranges, u.ptr, hi, top)
           records == Recorded(ranges, u.ptr, hi, top)
<1>1. /\ phase \in Valid /\ phase \in Replaying /\ i \in DOMAIN ops /\ ops[i].type = "a"
      /\ IF Error # "ok" THEN Reject(Error) ELSE Accept(id, u, size, records)
  BY DEF ValidAlloc, At, Valid, Replaying
<1>2. PICK S : Follows(S) /\ Inspected(S)
  BY <1>1 DEF ReplayInv, MmInv
<1>3. PICK t : t = After(S[i - 1], ops[i])
  OBVIOUS
<1>4. u = WordCall(mm, PointerOf(S[i - 1], ops[i]), ops[i]) /\ MayFail(ops[i])
  BY <1>1 DEF WordCall, MayFail
<1>5. WalkOK
  <2>1. i # 0
    BY <1>1, <1>2, BeforeOperation
  <2> QED
    BY <1>1, <1>2, <2>1, NothingGarbled
<1> HIDE DEF u, hi, top, Error, records
<1>6. CASE u.ptr = NULL
  <2>1. Error = "failed"
    BY <1>5, <1>6 DEF Error
  <2>2. Reject(Error)
    BY <1>1, <2>1
  <2>3. ops[i].size = 0 \/ mm.brk + asize(ops[i].size) > MaxHeap
    BY <1>1, <1>2, <1>4, <1>6, BeforeOperation
  <2> QED
    BY <1>1, <2>1, <2>2, <2>3, RejectInv
<1>7. CASE u.ptr # NULL
  <2>0. i # 0
    BY <1>1, <1>2, BeforeOperation
  <2>1. Passes(mm, S[i - 1], u, t, ops, i)
    BY <1>1, <1>2, <1>3, <1>4, <1>7, BeforeOperation
  <2>2. hi = u.ptr + ops[i].size - 1 /\ top = u.mm.brk - 1
    BY DEF hi, top
  <2>3. /\ Judged(ranges, u.ptr, hi, top) = "ok"
        /\ IF debug_mode = "none" THEN records = R!new_range_set ELSE RecordsAt(records, t, ops, i)
    <3>1. CASE debug_mode = "none"
      <4>1. R!JudgeExtent(u.ptr, hi, top) = "ok"
        BY <1>1, <1>7, <2>1, <2>2, NewInHeap
      <4>2. ranges = R!new_range_set
        BY <1>1, <1>2, <2>0, <3>1 DEF Inspected
      <4> QED
        BY <3>1, <4>1, <4>2 DEF Judged, Recorded, records
    <3>2. CASE debug_mode # "none"
      <4>1. RecordsAt(ranges, S[i - 1], ops, i - 1)
        BY <1>1, <1>2, <2>0, <3>2 DEF Inspected
      <4>2. PICK g : g = ranges
        OBVIOUS
      <4>3. /\ R!Judge(g, u.ptr, hi, top) = "ok"
            /\ RecordsAt(R!add_range(g, u.ptr, hi, top), t, ops, i)
        BY <1>1, <2>1, <2>2, <4>1, <4>2, AllocRecorded
      <4> QED
        BY <3>2, <4>2, <4>3 DEF Judged, Recorded, records
    <3> QED
      BY <3>1, <3>2
  <2>4. Accept(id, u, size, records)
    BY <1>1, <1>5, <1>7, <2>3 DEF Error
  <2> QED
    BY <1>1, <1>2, <1>3, <2>1, <2>3, <2>4, AcceptInv
<1> QED
  BY <1>6, <1>7

(* realloc in eval_mm_valid *)
LEMMA ValidReallocInv ==
  ASSUME ReplayInv, ValidRealloc
  PROVE  MmInv' /\ TypeOK'
<1> DEFINE id == ops[i].index
           size == ops[i].size
           oldsize == block_sizes[id]
           rest == R!remove_range(ranges, blocks[id])
           u == realloc(mm, blocks[id], size)
           hi == u.ptr + size - 1
           top == u.mm.brk - 1
           copied == Intact(u.mm, u.ptr, MinOf(size, oldsize), rand_base[id], TRUE)
           judgement == IF size = 0 THEN "ok" ELSE Judged(rest, u.ptr, hi, top)
           Error == IF ~ WalkOK \/ ~ Intact(mm, blocks[id], oldsize, rand_base[id], FALSE)
                    THEN "garbled"
                    ELSE IF u.ptr = NULL /\ size # 0 THEN "failed"
                    ELSE IF u.ptr # NULL /\ size = 0 THEN "not_null"
                    ELSE IF judgement = "ok" /\ ~ copied THEN "garbled"
                    ELSE judgement
           records == IF size = 0 THEN rest ELSE Recorded(rest, u.ptr, hi, top)
<1>1. /\ phase \in Valid /\ phase \in Replaying /\ phase # "speed" /\ i \in DOMAIN ops
      /\ ops[i].type = "r"
      /\ IF Error # "ok" THEN Reject(Error) ELSE Accept(id, u, size, records)
  BY DEF ValidRealloc, At, Valid, Replaying
<1>2. PICK S : Follows(S) /\ Inspected(S)
  BY <1>1 DEF ReplayInv, MmInv
<1>3. PICK t : t = After(S[i - 1], ops[i])
  OBVIOUS
<1>4. LinesFit(ops) /\ i \in 1 .. Len(ops) /\ i # 0
      /\ blocks = S[i - 1].blocks /\ block_sizes = S[i - 1].sizes
      /\ ServedAt(mm, S[i - 1], ops, Ids, i - 1)
      /\ PointerOf(S[i - 1], ops[i]) = IF id = -1 THEN NULL ELSE blocks[id]
  BY <1>1, <1>2, BeforeOperation
<1>5. id \in Ids /\ id # -1 /\ size \in Nat /\ InUse(id)
  BY <1>1, <1>4, BeforeLine DEF InUse
<1>6. u = WordCall(mm, PointerOf(S[i - 1], ops[i]), ops[i]) /\ (MayFail(ops[i]) <=> size # 0)
  BY <1>1, <1>4, <1>5 DEF WordCall, MayFail
<1>7. WalkOK
  BY <1>1, <1>2, <1>4, NothingGarbled
<1>8. debug_mode # "none" => Checked(mm, S[i - 1], rand_base, ops, Ids, i - 1)
  BY <1>1, <1>2, <1>4 DEF Inspected
<1>9. Intact(mm, blocks[id], oldsize, rand_base[id], FALSE)
  BY <1>4, <1>5, <1>8 DEF Intact, Checked, InUse
<1> HIDE DEF u, hi, top, copied, Error, records, rest, judgement
<1>10. CASE u.ptr = NULL /\ size # 0
  <2>1. Error = "failed"
    BY <1>7, <1>9, <1>10 DEF Error
  <2>2. Reject(Error)
    BY <1>1, <2>1
  <2>3. ops[i].size = 0 \/ mm.brk + asize(ops[i].size) > MaxHeap
    BY <1>1, <1>2, <1>6, <1>10, BeforeOperation
  <2> QED
    BY <1>1, <2>1, <2>2, <2>3, RejectInv
<1>11. CASE ~ (u.ptr = NULL /\ size # 0)
  <2>1. Passes(mm, S[i - 1], u, t, ops, i)
    BY <1>1, <1>2, <1>3, <1>6, <1>11, BeforeOperation
  <2>2. u.ptr = NULL <=> size = 0
    BY <1>1, <2>1, PassedLine
  <2>3. hi = u.ptr + ops[i].size - 1 /\ top = u.mm.brk - 1
    BY DEF hi, top
  <2>4. copied
    <3>1. CASE debug_mode = "none"
      BY <3>1 DEF copied, Intact
    <3>2. CASE debug_mode # "none"
      <4>1. PICK bases : bases = rand_base
        OBVIOUS
      <4>2. Checked(mm, S[i - 1], bases, ops, Ids, i - 1)
        BY <1>8, <3>2, <4>1
      <4>3. check_index(u.mm, u.ptr, MinOf(ops[i].size, S[i - 1].sizes[ops[i].index]), bases[ops[i].index], TRUE)
        BY <1>1, <2>1, <4>2, CarriedOver
      <4> QED
        BY <1>4, <4>1, <4>3 DEF copied, Intact
    <3> QED
      BY <3>1, <3>2
  <2>5. /\ judgement = "ok"
        /\ IF debug_mode = "none" THEN records = R!new_range_set ELSE RecordsAt(records, t, ops, i)
    <3>1. CASE debug_mode = "none"
      <4>1. size # 0 => R!JudgeExtent(u.ptr, hi, top) = "ok"
        BY <1>1, <2>1, <2>2, <2>3, NewInHeap
      <4>2. ranges = R!new_range_set
        BY <1>1, <1>2, <1>4, <3>1 DEF Inspected
      <4>3. rest = R!new_range_set
        BY <4>2 DEF rest, R!remove_range, R!new_range_set
      <4> QED
        BY <3>1, <4>1, <4>3 DEF judgement, Judged, Recorded, records
    <3>2. CASE debug_mode # "none"
      <4>1. RecordsAt(ranges, S[i - 1], ops, i - 1)
        BY <1>1, <1>2, <1>4, <3>2 DEF Inspected
      <4>2. PICK g : g = ranges
        OBVIOUS
      <4>3. rest = R!remove_range(g, S[i - 1].blocks[ops[i].index])
        BY <1>4, <4>2 DEF rest
      <4>4. IF ops[i].size = 0 THEN RecordsAt(rest, t, ops, i)
            ELSE /\ R!Judge(rest, u.ptr, hi, top) = "ok"
                 /\ RecordsAt(R!add_range(rest, u.ptr, hi, top), t, ops, i)
        BY <1>1, <2>1, <2>3, <4>1, <4>2, <4>3, ReallocRecorded
      <4> QED
        BY <3>2, <4>4 DEF judgement, Judged, Recorded, records
    <3> QED
      BY <3>1, <3>2
  <2>6. Error = "ok"
    BY <1>7, <1>9, <1>11, <2>2, <2>4, <2>5 DEF Error
  <2>7. Accept(id, u, size, records)
    BY <1>1, <2>6
  <2> QED
    BY <1>1, <1>2, <1>3, <2>1, <2>5, <2>7, AcceptInv
<1> QED
  BY <1>10, <1>11

(* free in eval_mm_valid *)
LEMMA ValidFreeInv ==
  ASSUME ReplayInv, ValidFree
  PROVE  MmInv' /\ TypeOK'
<1> DEFINE id == ops[i].index
           p == IF id = -1 THEN NULL ELSE blocks[id]
           intact == id = -1 \/ Intact(mm, p, block_sizes[id], rand_base[id], FALSE)
           u == [mm |-> free(mm, p), ptr |-> p]
<1>1. /\ phase \in Valid /\ phase \in Replaying /\ phase # "speed" /\ i \in DOMAIN ops
      /\ ops[i].type = "f"
      /\ IF ~ WalkOK \/ ~ intact THEN Reject("garbled")
         ELSE /\ ranges' = IF id = -1 THEN ranges ELSE R!remove_range(ranges, p)
              /\ mm' = free(mm, p)
              /\ i' = i + 1
              /\ UNCHANGED <<debug_mode, file, phase, ops, trace, complaint, sizes, first>>
  BY DEF ValidFree, At, Valid, Replaying
<1>2. PICK S : Follows(S) /\ Inspected(S)
  BY <1>1 DEF ReplayInv, MmInv
<1>3. PICK t : t = After(S[i - 1], ops[i])
  OBVIOUS
<1>4. LinesFit(ops) /\ i \in 1 .. Len(ops) /\ i # 0
      /\ blocks = S[i - 1].blocks /\ block_sizes = S[i - 1].sizes
      /\ PointerOf(S[i - 1], ops[i]) = p
  BY <1>1, <1>2, BeforeOperation
<1>5. id # -1 => id \in Ids /\ InUse(id)
  BY <1>1, <1>4, BeforeLine DEF InUse
<1>6. u = WordCall(mm, PointerOf(S[i - 1], ops[i]), ops[i]) /\ ~ MayFail(ops[i])
  BY <1>1, <1>4 DEF WordCall, MayFail
<1>7. WalkOK
  BY <1>1, <1>2, <1>4, NothingGarbled
<1>8. debug_mode # "none" => Checked(mm, S[i - 1], rand_base, ops, Ids, i - 1)
  BY <1>1, <1>2, <1>4 DEF Inspected
<1>9. intact
  BY <1>4, <1>5, <1>8 DEF Intact, Checked, InUse
<1> HIDE DEF intact
<1>10. /\ ranges' = IF id = -1 THEN ranges ELSE R!remove_range(ranges, p)
       /\ mm' = free(mm, p) /\ i' = i + 1 /\ Frame
       /\ blocks' = blocks /\ block_sizes' = block_sizes /\ rand_base' = rand_base /\ sizes' = sizes
  BY <1>1, <1>7, <1>9 DEF trace, Frame
<1>11. mm' = u.mm
  BY <1>10
<1> HIDE DEF u, p
<1>12. Passes(mm, S[i - 1], u, t, ops, i)
  BY <1>1, <1>2, <1>3, <1>6, BeforeOperation
<1>13. ServedAt(mm', t, ops, Ids, i) /\ blocks' = t.blocks /\ block_sizes' = t.sizes
  <2>1. ServedAt(u.mm, t, ops, Ids, i) /\ t.blocks = S[i - 1].blocks /\ t.sizes = S[i - 1].sizes
    BY <1>1, <1>12, PassedLine
  <2> QED
    BY <1>4, <1>10, <1>11, <2>1
<1>14. (rand_base \in [Ids -> Bases \cup {0}])'
       /\ (sizes \in [total : 0 .. WORD - 1, max_total : 0 .. WORD - 1, max_heap : 0 .. MaxHeap])'
  BY <1>10 DEF ReplayInv, TypeOK, Frame, Ids
<1>15. IF debug_mode = "none" THEN ranges' = R!new_range_set
       ELSE RecordsAt(ranges', t, ops, i) /\ Checked(mm', t, rand_base', ops, Ids, i)
  <2>1. CASE debug_mode = "none"
    <3>1. ranges = R!new_range_set
      BY <1>1, <1>2, <1>4, <2>1 DEF Inspected
    <3> QED
      BY <1>10, <2>1, <3>1 DEF R!remove_range, R!new_range_set
  <2>2. CASE debug_mode # "none"
    <3>1. RecordsAt(ranges, S[i - 1], ops, i - 1)
      BY <1>1, <1>2, <1>4, <2>2 DEF Inspected
    <3>2. PICK g, bases : g = ranges /\ bases = rand_base
      OBVIOUS
    <3>3. RecordsAt(IF ops[i].index = -1 THEN g ELSE R!remove_range(g, S[i - 1].blocks[ops[i].index]), t, ops, i)
      BY <1>1, <1>12, <3>1, <3>2, FreeRecorded
    <3>4. ranges' = IF ops[i].index = -1 THEN g ELSE R!remove_range(g, S[i - 1].blocks[ops[i].index])
      BY <1>4, <1>10, <3>2 DEF p
    <3>5. Checked(mm, S[i - 1], bases, ops, Ids, i - 1)
      BY <1>8, <2>2, <3>2
    <3>6. Checked(u.mm, t, bases, ops, Ids, i)
      BY <1>1, <1>12, <3>5, FreedLine
    <3> QED
      BY <1>10, <1>11, <2>2, <3>2, <3>3, <3>4, <3>6
  <2> QED
    BY <2>1, <2>2
<1> QED
  BY <1>1, <1>2, <1>3, <1>10, <1>12, <1>13, <1>14, <1>15, LineDone

-----------------------------------------------------------------------------
(* eval_mm_util and eval_mm_speed *)

(* What the line at hand calls the allocator with. *)
Handed == IF ops[i].index = -1 THEN NULL ELSE blocks[ops[i].index]

(* The calls that the first replay made do not fail in these. *)
LEMMA NeverFails ==
  ASSUME ReplayInv, phase \in {"util", "speed"}, i \in DOMAIN ops,
         NEW u, u = WordCall(mm, Handed, ops[i])
  PROVE  ~ (u.ptr = NULL /\ MayFail(ops[i]))
<1>1. phase \in Replaying /\ phase # "valid1"
  BY DEF Replaying
<1>2. PICK S : Follows(S)
  BY <1>1 DEF ReplayInv, MmInv
<1>3. \A v : v = WordCall(mm, PointerOf(S[i - 1], ops[i]), ops[i]) =>
        /\ PointerOf(S[i - 1], ops[i]) = Handed
        /\ v.ptr = NULL /\ MayFail(ops[i]) => phase = "valid1"
  BY <1>1, <1>2, BeforeOperation DEF Handed
<1> QED
  BY <1>1, <1>3

(* What was stored without a look at it. *)
LEMMA MeasuredInv ==
  ASSUME ReplayInv, phase \in {"util", "speed"}, i \in DOMAIN ops,
         NEW u, u = WordCall(mm, Handed, ops[i]),
         Frame, i' = i + 1, mm' = u.mm, rand_base' = rand_base,
         blocks' = IF ops[i].type = "f" THEN blocks ELSE [blocks EXCEPT ![ops[i].index] = u.ptr],
         IF phase = "speed" \/ ops[i].type = "f" THEN block_sizes' = block_sizes
         ELSE block_sizes' = [block_sizes EXCEPT ![ops[i].index] = ops[i].size],
         (sizes \in [total : 0 .. WORD - 1, max_total : 0 .. WORD - 1, max_heap : 0 .. MaxHeap])'
  PROVE  MmInv' /\ TypeOK'
<1>1. phase \in Replaying /\ phase \notin Valid
  BY DEF Replaying, Valid
<1>2. PICK S : Follows(S)
  BY <1>1 DEF ReplayInv, MmInv
<1>3. PICK t : t = After(S[i - 1], ops[i])
  OBVIOUS
<1>4. /\ blocks = S[i - 1].blocks /\ (phase # "speed" => block_sizes = S[i - 1].sizes)
      /\ PointerOf(S[i - 1], ops[i]) = Handed
  BY <1>1, <1>2, BeforeOperation DEF Handed
<1>5. Passes(mm, S[i - 1], u, t, ops, i)
  BY <1>1, <1>2, <1>3, <1>4, NeverFails, BeforeOperation
<1>6. ServedAt(mm', t, ops, Ids, i)
  <2>1. ServedAt(u.mm, t, ops, Ids, i)
    BY <1>5, PassedLine
  <2> QED
    BY <2>1
<1>7. /\ blocks' = t.blocks
      /\ IF phase = "speed" THEN block_sizes' = block_sizes ELSE block_sizes' = t.sizes
  <2>1. CASE ops[i].type = "f"
    <3>1. t.blocks = S[i - 1].blocks /\ t.sizes = S[i - 1].sizes
      BY <1>5, <2>1, PassedLine
    <3> QED
      BY <1>4, <2>1, <3>1
  <2>2. CASE ops[i].type # "f"
    <3>1. StoredAs(S[i - 1], t, ops[i].index, u.ptr, ops[i].size)
      BY <1>5, <2>2, PassedLine
    <3> QED
      BY <1>4, <2>2, <3>1 DEF StoredAs
  <2> QED
    BY <2>1, <2>2
<1>8. (rand_base \in [Ids -> Bases \cup {0}])'
  BY DEF ReplayInv, TypeOK, Frame, Ids
<1> QED
  BY <1>1, <1>2, <1>3, <1>5, <1>6, <1>7, <1>8, LineDone

(* The sizes that eval_mm_util adds up are those of unsigned numbers. *)
LEMMA AccountType ==
  ASSUME ReplayInv, NEW change \in Int, Account(change), mm'.brk \in 0 .. MaxHeap
  PROVE  (sizes \in [total : 0 .. WORD - 1, max_total : 0 .. WORD - 1, max_heap : 0 .. MaxHeap])'
<1>1. sizes \in [total : 0 .. WORD - 1, max_total : 0 .. WORD - 1, max_heap : 0 .. MaxHeap]
  BY DEF ReplayInv, TypeOK
<1>2. WORD \in Nat \ {0}
  BY SizeClassAssumption
<1>3. \A x \in Int : x % WORD \in 0 .. WORD - 1
  BY <1>2
<1>4. (sizes.total + change) % WORD \in 0 .. WORD - 1
  BY <1>1, <1>3
<1> DEFINE total == (sizes.total + change) % WORD
<1>5. sizes' = [total |-> total, max_total |-> MaxOf(total, sizes.max_total),
                max_heap |-> MaxOf(mm'.brk, sizes.max_heap)]
  BY DEF Account
<1> HIDE DEF total
<1>6. MaxOf(total, sizes.max_total) \in 0 .. WORD - 1 /\ MaxOf(mm'.brk, sizes.max_heap) \in 0 .. MaxHeap
  BY <1>1, <1>4 DEF MaxOf, total
<1> QED
  BY <1>4, <1>5, <1>6 DEF total

(* The break of the heap that a call leaves. *)
LEMMA MeasuredBreak ==
  ASSUME ReplayInv, phase \in {"util", "speed"}, i \in DOMAIN ops,
         NEW u, u = WordCall(mm, Handed, ops[i])
  PROVE  u.mm.brk \in 0 .. MaxHeap
<1>1. phase \in Replaying
  BY DEF Replaying
<1>2. PICK S : Follows(S)
  BY <1>1 DEF ReplayInv, MmInv
<1>3. PICK t : t = After(S[i - 1], ops[i])
  OBVIOUS
<1>4. PointerOf(S[i - 1], ops[i]) = Handed
  BY <1>1, <1>2, BeforeOperation DEF Handed
<1>5. Passes(mm, S[i - 1], u, t, ops, i)
  BY <1>1, <1>2, <1>3, <1>4, NeverFails, BeforeOperation
<1>6. ServedAt(u.mm, t, ops, Ids, i)
  BY <1>5, PassedLine
<1>7. u.mm.brk \in WSIZE .. MaxHeap
  BY <1>6, ServesShape DEF ServedAt
<1> QED
  BY <1>7

(* What the line at hand may rely on. *)
LEMMA AtLine ==
  ASSUME ReplayInv, phase \in Replaying, i \in DOMAIN ops
  PROVE  /\ ops[i].type \in {"a", "r", "f"} /\ ops[i].size \in Nat
         /\ ops[i].index \in Ids \cup {-1} /\ -1 \notin Ids
         /\ ops[i].type # "f" => ops[i].index \in Ids
         /\ blocks \in [Ids -> 0 .. MaxHeap] /\ block_sizes \in [Ids -> 0 .. MaxHeap]
         /\ 0 .. MaxHeap \subseteq Int
<1>1. LinesFit(ops)
  BY DEF ReplayInv, MmInv
<1>2. i \in 1 .. Len(ops)
  BY <1>1 DEF LinesFit
<1>3. -1 \notin Ids
  BY DEF Ids
<1>4. blocks \in [Ids -> 0 .. MaxHeap] /\ block_sizes \in [Ids -> 0 .. MaxHeap]
  BY DEF ReplayInv, TypeOK
<1>5. 0 .. MaxHeap \subseteq Int
  BY MmWordsAssumption
<1> QED
  BY <1>1, <1>2, <1>3, <1>4, <1>5, BeforeLine

(* malloc in eval_mm_util *)
LEMMA UtilAllocInv ==
  ASSUME ReplayInv, UtilAlloc
  PROVE  MmInv' /\ TypeOK'
<1> DEFINE u == malloc(mm, ops[i].size)
<1>1. /\ phase \in {"util", "speed"} /\ phase = "util" /\ i \in DOMAIN ops /\ ops[i].type = "a"
      /\ IF u.ptr = NULL THEN AppError
         ELSE UtilStores(ops[i].index, u, ops[i].size) /\ Account(ops[i].size)
  BY DEF UtilAlloc, At
<1>2. u = WordCall(mm, Handed, ops[i]) /\ MayFail(ops[i])
  BY <1>1 DEF WordCall, MayFail
<1> HIDE DEF u
<1>3. u.ptr # NULL
  BY <1>1, <1>2, NeverFails
<1>4. UtilStores(ops[i].index, u, ops[i].size) /\ Account(ops[i].size)
  BY <1>1, <1>3
<1>5. phase \in Replaying
  BY <1>1 DEF Replaying
<1>6. ops[i].size \in Int
  BY <1>1, <1>5, AtLine
<1>7. mm' = u.mm
  BY <1>4 DEF UtilStores
<1>8. mm'.brk \in 0 .. MaxHeap
  BY <1>1, <1>2, <1>7, MeasuredBreak
<1>9. (sizes \in [total : 0 .. WORD - 1, max_total : 0 .. WORD - 1, max_heap : 0 .. MaxHeap])'
  BY <1>4, <1>6, <1>8, AccountType
<1>10. /\ Frame /\ i' = i + 1 /\ rand_base' = rand_base
       /\ blocks' = [blocks EXCEPT ![ops[i].index] = u.ptr]
       /\ block_sizes' = [block_sizes EXCEPT ![ops[i].index] = ops[i].size]
  BY <1>4 DEF UtilStores, Frame
<1> QED
  BY <1>1, <1>2, <1>7, <1>9, <1>10, MeasuredInv

(* realloc in eval_mm_util *)
LEMMA UtilReallocInv ==
  ASSUME ReplayInv, UtilRealloc
  PROVE  MmInv' /\ TypeOK'
<1> DEFINE id == ops[i].index
           u == realloc(mm, blocks[id], ops[i].size)
           change == ops[i].size - block_sizes[id]
<1>1. /\ phase \in {"util", "speed"} /\ phase = "util" /\ i \in DOMAIN ops /\ ops[i].type = "r"
      /\ IF u.ptr = NULL /\ ops[i].size # 0 THEN AppError
         ELSE UtilStores(id, u, ops[i].size) /\ Account(change)
  BY DEF UtilRealloc, At
<1>2. phase \in Replaying
  BY <1>1 DEF Replaying
<1>3. change \in Int /\ id \in Ids /\ id # -1
  <2>1. /\ ops[i].size \in Int /\ id \in Ids /\ -1 \notin Ids
        /\ block_sizes \in [Ids -> 0 .. MaxHeap] /\ 0 .. MaxHeap \subseteq Int
    BY <1>1, <1>2, AtLine
  <2>2. block_sizes[id] \in Int
    BY <2>1
  <2> QED
    BY <2>1, <2>2
<1>4. u = WordCall(mm, Handed, ops[i]) /\ (MayFail(ops[i]) <=> ops[i].size # 0)
  BY <1>1, <1>3 DEF WordCall, MayFail, Handed
<1> HIDE DEF u, change
<1>5. ~ (u.ptr = NULL /\ ops[i].size # 0)
  BY <1>1, <1>4, NeverFails
<1>6. UtilStores(id, u, ops[i].size) /\ Account(change)
  BY <1>1, <1>5
<1>7. mm' = u.mm
  BY <1>6 DEF UtilStores
<1>8. mm'.brk \in 0 .. MaxHeap
  BY <1>1, <1>4, <1>7, MeasuredBreak
<1>9. (sizes \in [total : 0 .. WORD - 1, max_total : 0 .. WORD - 1, max_heap : 0 .. MaxHeap])'
  BY <1>3, <1>6, <1>8, AccountType
<1>10. /\ Frame /\ i' = i + 1 /\ rand_base' = rand_base
       /\ blocks' = [blocks EXCEPT ![ops[i].index] = u.ptr]
       /\ block_sizes' = [block_sizes EXCEPT ![ops[i].index] = ops[i].size]
  BY <1>6 DEF UtilStores, Frame
<1> QED
  BY <1>1, <1>4, <1>7, <1>9, <1>10, MeasuredInv

(* free in eval_mm_util *)
LEMMA UtilFreeInv ==
  ASSUME ReplayInv, UtilFree
  PROVE  MmInv' /\ TypeOK'
<1> DEFINE id == ops[i].index
           u == [mm |-> free(mm, Handed), ptr |-> Handed]
           change == IF id = -1 THEN 0 ELSE - block_sizes[id]
<1>1. /\ phase \in {"util", "speed"} /\ phase = "util" /\ i \in DOMAIN ops /\ ops[i].type = "f"
      /\ mm' = u.mm /\ Account(change) /\ i' = i + 1
      /\ UNCHANGED <<debug_mode, file, phase, ops, ranges, trace, complaint, first>>
  BY DEF UtilFree, At, Handed
<1>2. phase \in Replaying
  BY <1>1 DEF Replaying
<1>3. change \in Int
  <2>1. /\ id \in Ids \cup {-1}
        /\ block_sizes \in [Ids -> 0 .. MaxHeap] /\ 0 .. MaxHeap \subseteq Int
    BY <1>1, <1>2, AtLine
  <2>2. id # -1 => block_sizes[id] \in Int
    BY <2>1
  <2>3. \A x \in Int : - x \in Int
    OBVIOUS
  <2> QED
    BY <2>2, <2>3
<1>4. u = WordCall(mm, Handed, ops[i])
  BY <1>1 DEF WordCall
<1> HIDE DEF u, change
<1>5. mm'.brk \in 0 .. MaxHeap
  BY <1>1, <1>4, MeasuredBreak
<1>6. (sizes \in [total : 0 .. WORD - 1, max_total : 0 .. WORD - 1, max_heap : 0 .. MaxHeap])'
  BY <1>1, <1>3, <1>5, AccountType
<1>7. Frame /\ rand_base' = rand_base /\ blocks' = blocks /\ block_sizes' = block_sizes
  BY <1>1 DEF Frame, trace
<1> QED
  BY <1>1, <1>4, <1>6, <1>7, MeasuredInv

(* A line in eval_mm_speed *)
LEMMA SpeedStepInv ==
  ASSUME ReplayInv, SpeedStep
  PROVE  MmInv' /\ TypeOK'
<1> DEFINE u == WordCall(mm, Handed, ops[i])
<1>1. /\ phase \in {"util", "speed"} /\ phase = "speed" /\ i \in DOMAIN ops /\ phase \in Replaying
  BY DEF SpeedStep, Replaying
<1>2. /\ ops[i].type \in {"a", "r", "f"} /\ ops[i].index \in Ids \cup {-1} /\ -1 \notin Ids
      /\ ops[i].type # "f" => ops[i].index \in Ids
      /\ blocks \in [Ids -> 0 .. MaxHeap]
  BY <1>1, AtLine
<1>3. IF u.ptr = NULL /\ MayFail(ops[i]) THEN AppError
      ELSE /\ mm' = u.mm
           /\ blocks' = IF ops[i].index = -1 THEN blocks ELSE [blocks EXCEPT ![ops[i].index] = u.ptr]
           /\ i' = i + 1
           /\ UNCHANGED <<debug_mode, file, phase, ops, ranges, block_sizes, rand_base,
                          complaint, sizes, first>>
  BY DEF SpeedStep, WordCall, MayFail, Handed
<1>4. ops[i].type = "f" => u.ptr = Handed
  BY DEF WordCall
<1> HIDE DEF u
<1>5. u = WordCall(mm, Handed, ops[i])
  BY DEF u
<1>6. ~ (u.ptr = NULL /\ MayFail(ops[i]))
  BY <1>1, <1>5, NeverFails
<1>7. /\ mm' = u.mm /\ i' = i + 1 /\ Frame /\ rand_base' = rand_base
      /\ block_sizes' = block_sizes /\ sizes' = sizes
      /\ blocks' = IF ops[i].index = -1 THEN blocks ELSE [blocks EXCEPT ![ops[i].index] = u.ptr]
  BY <1>3, <1>6 DEF Frame
<1>8. blocks' = IF ops[i].type = "f" THEN blocks ELSE [blocks EXCEPT ![ops[i].index] = u.ptr]
  <2>1. CASE ops[i].type = "f" /\ ops[i].index # -1
    BY <1>2, <1>4, <1>7, <2>1 DEF Handed
  <2>2. CASE ops[i].type # "f" \/ ops[i].index = -1
    BY <1>2, <1>7, <2>2
  <2> QED
    BY <2>1, <2>2
<1>9. (sizes \in [total : 0 .. WORD - 1, max_total : 0 .. WORD - 1, max_heap : 0 .. MaxHeap])'
  BY <1>7 DEF ReplayInv, TypeOK
<1> QED
  BY <1>1, <1>5, <1>7, <1>8, <1>9, MeasuredInv

-----------------------------------------------------------------------------
(* Between the replays *)

(* At the start nothing is in use, so that nothing is held. *)
LEMMA StartHeld ==
  ASSUME NEW s, NEW lines
  PROVE  /\ HeldBlocks(s, lines, 0) = [id \in Nat |-> NULL]
         /\ HeldSizes(s, lines, 0) = [id \in Nat |-> 0]
BY NothingInUse DEF HeldBlocks, HeldSizes

(* mm_init serves that, whatever the words held before. *)
LEMMA StartServed ==
  ASSUME NEW m, m = [mem |-> m.mem, brk |-> m.brk, lists |-> m.lists], m.mem \in [Words -> Int],
         NEW lines
  PROVE  ServedAt(mm_init(m), StartOf(Ids), lines, Ids, 0)
<1> DEFINE s == StartOf(Ids)
<1>1. s.heap = W!B!mm_init_heap /\ s.blocks = [id \in Ids |-> NULL] /\ s.sizes = [id \in Ids |-> 0]
  BY DEF StartOf
<1> HIDE DEF s
<1>2. W!Serves(mm_init(m), W!B!mm_init_heap, [id \in Nat |-> NULL], [id \in Nat |-> 0])
  <2>1. m.mem \in [W!Words -> Int]
    BY SameArithmetic
  <2> QED
    BY <2>1, WordAssumptions, W!InitWords, SameCalls
<1>3. W!Serves(mm_init(m), s.heap, HeldBlocks(s, lines, 0), HeldSizes(s, lines, 0))
  BY <1>1, <1>2, StartHeld
<1>4. 0 \in 0 .. MaxHeap /\ 0 % 8 = 0
  BY MmWordsAssumption
<1>5. s.blocks \in [Ids -> 0 .. MaxHeap] /\ s.sizes \in [Ids -> 0 .. MaxHeap]
  BY <1>1, <1>4
<1>6. \A id \in Ids : s.sizes[id] % 8 = 0 /\ s.sizes[id] = 0
  BY <1>1, <1>4
<1> QED
  BY <1>3, <1>5, <1>6 DEF ServedAt, s

(* A replay that begins, on the run of the first one if it is not the first*)
LEMMA BeginReplayInv ==
  ASSUME ReplayInv, BeginReplay
  PROVE  MmInv' /\ TypeOK'
<1>1. /\ phase \in Replaying /\ i = 0 /\ i' = 1 /\ mm' = mm_init(mm)
      /\ ranges' = IF phase \in Valid THEN R!new_range_set ELSE ranges
      /\ blocks' = [id \in Ids |-> NULL] /\ block_sizes' = [id \in Ids |-> 0]
      /\ sizes' = [total |-> 0, max_total |-> 0, max_heap |-> 0]
      /\ UNCHANGED <<debug_mode, file, phase, ops, rand_base, complaint, first>>
  BY DEF BeginReplay, Valid, Replaying
<1>2. LinesFit(ops) /\ \E S : Follows(S)
  BY <1>1 DEF ReplayInv, MmInv
<1>3. Ids' = Ids /\ (LinesFit(ops)' <=> LinesFit(ops))
  BY <1>1 DEF LinesFit, Ids
<1>4. PICK T : /\ T[0] = StartOf(Ids)
               /\ phase # "valid1" =>
                    /\ IsRun(T, ops, Ids, Len(ops))
                    /\ first = [brk |-> T[Len(ops)].heap.brk, blocks |-> T[Len(ops)].blocks]
  <2>1. CASE phase = "valid1"
    <3>1. [k \in Nat |-> StartOf(Ids)][0] = StartOf(Ids)
      OBVIOUS
    <3> QED
      BY <2>1, <3>1
  <2>2. CASE phase # "valid1"
    BY <1>2, <2>2 DEF Follows, IsRun
  <2> QED
    BY <2>1, <2>2
<1>5. ServedAt(mm', T[0], ops, Ids, 0)
  BY <1>1, <1>4, StartServed DEF ReplayInv, MmInv
<1>6. T[0].blocks = blocks' /\ T[0].sizes = block_sizes'
  BY <1>1, <1>4 DEF StartOf
<1>7. IsRun(T, ops, Ids, 0)
  BY <1>4 DEF IsRun
<1>8. i' - 1 = 0 /\ i' # 0
  BY <1>1
<1>9. Follows(T)'
  BY <1>1, <1>3, <1>4, <1>5, <1>6, <1>7, <1>8 DEF Follows
<1>10. RecordsAt(R!new_range_set, T[0], ops, 0)
  BY StartHeld, NothingOnRecord DEF RecordsAt
<1>11. Checked(mm', T[0], rand_base', ops, Ids, 0)
  BY NothingInUse DEF Checked
<1>12. Inspected(T)'
  <2>1. phase \in Valid => ranges' = R!new_range_set
    BY <1>1
  <2> QED
    BY <1>1, <1>3, <1>8, <1>10, <1>11, <2>1 DEF Inspected, Valid
<1>13. /\ mm'.brk \in WSIZE .. MaxHeap
       /\ mm' = [mem |-> mm'.mem, brk |-> mm'.brk, lists |-> mm'.lists] /\ mm'.mem \in [Words -> Int]
  BY <1>5, ServesShape DEF ServedAt
<1>14. MmInv'
  <2>1. OnlyExhaustion' /\ MeasuredIfValid' /\ (phase = "read" => i = 0)'
    BY <1>1 DEF Replaying, OnlyExhaustion, MeasuredIfValid
  <2>2. (phase \in Replaying => LinesFit(ops) /\ \E W1 : Follows(W1) /\ Inspected(W1))'
    BY <1>2, <1>3, <1>9, <1>12
  <2>3. (debug_mode \in {"none", "cheap", "expensive"})'
    BY <1>1 DEF ReplayInv, MmInv
  <2> QED
    BY <1>13, <2>1, <2>2, <2>3 DEF MmInv
<1>15. TypeOK'
  <2>1. blocks' \in [Ids -> 0 .. MaxHeap] /\ block_sizes' \in [Ids -> 0 .. MaxHeap]
    BY <1>5, <1>6 DEF ServedAt
  <2>2. i' \in 0 .. Len(ops) + 1
    BY <1>1, <1>2 DEF LinesFit
  <2>3. sizes' \in [total : 0 .. WORD - 1, max_total : 0 .. WORD - 1, max_heap : 0 .. MaxHeap]
    <3>1. 0 \in 0 .. WORD - 1 /\ 0 \in 0 .. MaxHeap
      BY SizeClassAssumption, MmWordsAssumption
    <3> QED
      BY <1>1, <3>1
  <2>4. phase \notin {"read", "exit"}
    BY <1>1 DEF Replaying
  <2> QED
    BY <1>1, <1>3, <1>13, <2>1, <2>2, <2>3, <2>4 DEF ReplayInv, TypeOK
<1> QED
  BY <1>14, <1>15

(* A replay that ends; the first one has become the one that the others    *)
(* follow.                                                                 *)
LEMMA EndReplayInv ==
  ASSUME ReplayInv, EndReplay
  PROVE  MmInv' /\ TypeOK'
<1>1. /\ i = Len(ops) + 1 /\ i' = 0 /\ phase \in Replaying
      /\ phase' \in {"valid2", "util", "speed", "done"}
      /\ phase' # "done" => phase' \in Replaying /\ phase' # "valid1"
      /\ first' = IF phase = "valid1" THEN [brk |-> mm.brk, blocks |-> blocks] ELSE first
      /\ UNCHANGED <<debug_mode, file, ops, mm, ranges, trace, complaint, sizes>>
  BY DEF EndReplay, Finished, Replaying
<1>2. LinesFit(ops) /\ Len(ops) \in Nat
  BY <1>1 DEF ReplayInv, MmInv, LinesFit
<1>3. PICK S : Follows(S)
  BY <1>1 DEF ReplayInv, MmInv
<1>4. i # 0 /\ i - 1 = Len(ops)
  BY <1>1, <1>2
<1>5. /\ IsRun(S, ops, Ids, Len(ops)) /\ blocks = S[Len(ops)].blocks
      /\ ServedAt(mm, S[Len(ops)], ops, Ids, Len(ops))
  BY <1>3, <1>4 DEF Follows
<1>6. mm.brk = S[Len(ops)].heap.brk
  BY <1>5, ServesShape DEF ServedAt
<1>7. first' = [brk |-> S[Len(ops)].heap.brk, blocks |-> S[Len(ops)].blocks]
  BY <1>1, <1>3, <1>5, <1>6 DEF Follows
<1>8. Ids' = Ids /\ (LinesFit(ops)' <=> LinesFit(ops))
  BY <1>1 DEF LinesFit, Ids
<1>9. Follows(S)' /\ Inspected(S)'
  BY <1>1, <1>5, <1>7, <1>8 DEF Follows, Inspected
<1>10. MmInv'
  <2>1. OnlyExhaustion' /\ MeasuredIfValid' /\ (phase = "read" => i = 0)'
    BY <1>1 DEF OnlyExhaustion, MeasuredIfValid
  <2>2. (phase \in Replaying => LinesFit(ops) /\ \E W1 : Follows(W1) /\ Inspected(W1))'
    BY <1>2, <1>8, <1>9
  <2> QED
    BY <1>1, <2>1, <2>2 DEF ReplayInv, MmInv
<1>11. TypeOK'
  <2>1. i' \in 0 .. Len(ops') + 1
    BY <1>1, <1>2
  <2>2. Len(ops') = file'.num_ops
    BY <1>1 DEF ReplayInv, TypeOK, Replaying
  <2> QED
    BY <1>1, <1>8, <2>1, <2>2 DEF ReplayInv, TypeOK, trace, Valid
<1> QED
  BY <1>10, <1>11

(* read_trace, whichever package is measured *)
LEMMA ReadTraceInv ==
  ASSUME ReplayInv, ReadTrace
  PROVE  MmInv' /\ TypeOK'
<1>1. /\ phase = "read" /\ complaint' = ReadError
      /\ phase' = IF complaint' = "none" THEN "valid1" ELSE "exit"
      /\ ops' = IF complaint' = "none" THEN Read ELSE ops
      /\ UNCHANGED <<debug_mode, file, i, mm, ranges, trace, sizes, first>>
  BY DEF ReadTrace
<1>2. file \in Files /\ i = 0
  BY <1>1 DEF ReplayInv, LibcInv, MmInv
<1>3. Ids' = Ids /\ (LinesFit(ops)' <=> LinesFit(ops'))
  BY <1>1 DEF LinesFit, Ids
<1>4. CASE ReadError = "none"
  <2>1. phase' = "valid1" /\ ops' = Read /\ i' = 0
    BY <1>1, <1>2, <1>4
  <2>2. LinesFit(ops')
    BY <1>2, <1>4, <2>1, AcceptedLinesFit
  <2>3. Len(ops') = file.num_ops /\ Len(ops') \in Nat
    BY <1>4, <2>1, <2>2 DEF ReadError, LinesFit
  <2>4. PICK S : S = 0
    OBVIOUS
  <2>5. Follows(S)' /\ Inspected(S)'
    BY <2>1 DEF Follows, Inspected
  <2>6. OnlyExhaustion' /\ MeasuredIfValid' /\ (phase = "read" => i = 0)'
    BY <2>1 DEF OnlyExhaustion, MeasuredIfValid
  <2>7. (phase \in Replaying => LinesFit(ops) /\ \E W1 : Follows(W1) /\ Inspected(W1))'
    BY <1>3, <2>2, <2>5
  <2>8. MmInv'
    BY <1>1, <2>6, <2>7 DEF ReplayInv, MmInv
  <2>9. i' \in 0 .. Len(ops') + 1 /\ \A k \in DOMAIN ops' : ops'[k].index \in Ids \cup {-1}
    BY <2>1, <2>2, <2>3 DEF LinesFit
  <2>10. phase' \in Valid
    BY <2>1 DEF Valid
  <2>11. TypeOK'
    BY <1>1, <1>3, <2>3, <2>9, <2>10 DEF ReplayInv, TypeOK, trace
  <2> QED
    BY <2>8, <2>11
<1>5. CASE ReadError # "none"
  <2>1. phase' = "exit" /\ ops' = ops
    BY <1>1, <1>5
  <2>2. MmInv'
    BY <1>1, <2>1 DEF ReplayInv, MmInv, Replaying, OnlyExhaustion, MeasuredIfValid
  <2>3. TypeOK'
    BY <1>1, <1>3, <2>1 DEF ReplayInv, TypeOK, trace
  <2> QED
    BY <2>2, <2>3
<1> QED
  BY <1>4, <1>5

-----------------------------------------------------------------------------
(* Replays with the C library leave all of this alone *)

LEMMA LibcTurnInv ==
  ASSUME ReplayInv, phase' \in LibcPhases \cup {"done", "exit"}, phase \notin {"read", "exit"},
         UNCHANGED <<debug_mode, file, ops, mm, rand_base, sizes>>,
         i' \in 0 .. Len(ops) + 1,
         blocks' \in [Ids -> 0 .. MaxHeap], block_sizes' \in [Ids -> 0 .. MaxHeap]
  PROVE  MmInv' /\ TypeOK'
<1>1. Ids' = Ids
  BY DEF Ids
<1>2. MmInv'
  BY DEF ReplayInv, MmInv, LibcPhases, Replaying, OnlyExhaustion, MeasuredIfValid
<1>3. TypeOK'
  BY <1>1 DEF ReplayInv, TypeOK, LibcPhases
<1> QED
  BY <1>2, <1>3

(* The C library's addresses are addresses. *)
LEMMA WordsAreAddresses == Words \subseteq 0 .. MaxHeap /\ 0 \in 0 .. MaxHeap
<1>1. MaxHeap \in Nat
  BY MmWordsAssumption
<1>2. MaxHeap \div 8 <= MaxHeap /\ MaxHeap \div 8 \in Nat
  BY <1>1
<1> QED
  BY <1>1, <1>2 DEF Words

LEMMA LibcStepInv ==
  ASSUME ReplayInv, LibcInv',
         LibcBegin \/ LibcEnd \/ LibcAlloc \/ LibcReallocs \/ LibcFrees
  PROVE  MmInv' /\ TypeOK'
<1>1. CASE LibcBegin
  <2>1. /\ phase = "valid1" \/ phase = "libc_speed"
        /\ phase' \in LibcPhases /\ i' = 1
        /\ blocks' = [id \in Ids |-> NULL] /\ block_sizes' = [id \in Ids |-> 0]
        /\ UNCHANGED <<debug_mode, file, ops, mm, rand_base, sizes>>
        /\ package = "libc"
    BY <1>1 DEF LibcBegin, LibcPhases
  <2>2. LinesFit(ops)
    BY <2>1 DEF ReplayInv, LibcInv
  <2>3. i' \in 0 .. Len(ops) + 1
    BY <2>1, <2>2 DEF LinesFit
  <2>4. blocks' \in [Ids -> 0 .. MaxHeap] /\ block_sizes' \in [Ids -> 0 .. MaxHeap]
    BY <2>1, WordsAreAddresses
  <2> QED
    BY <2>1, <2>3, <2>4, LibcTurnInv
<1>2. CASE LibcEnd
  <2>1. /\ phase \in LibcPhases /\ phase' \in LibcPhases \cup {"done"} /\ i' = 0 /\ package = "libc"
        /\ UNCHANGED <<debug_mode, file, ops, mm, rand_base, sizes, blocks, block_sizes>>
    BY <1>2 DEF LibcEnd, LibcPhases, trace
  <2>2. LinesFit(ops) /\ phase \notin {"read", "exit"}
    BY <2>1 DEF ReplayInv, LibcInv, LibcPhases
  <2>3. i' \in 0 .. Len(ops) + 1
    BY <2>1, <2>2 DEF LinesFit
  <2>4. blocks' \in [Ids -> 0 .. MaxHeap] /\ block_sizes' \in [Ids -> 0 .. MaxHeap]
    BY <2>1 DEF ReplayInv, TypeOK
  <2> QED
    BY <2>1, <2>2, <2>3, <2>4, LibcTurnInv
<1>3. CASE LibcAlloc \/ LibcReallocs \/ LibcFrees
  <2>1. /\ phase \in LibcPhases /\ i \in DOMAIN ops /\ package = "libc"
        /\ \E id, r, failed : LibcStores(id, r, failed)
    BY <1>3 DEF LibcAlloc, LibcReallocs, LibcFrees, Libc, At, LibcPhases
  <2>2. PICK id, r, failed : LibcStores(id, r, failed)
    BY <2>1
  <2>3. LinesFit(ops) /\ phase \notin {"read", "exit"}
    BY <2>1 DEF ReplayInv, LibcInv, LibcPhases
  <2>4. i \in 1 .. Len(ops) /\ Len(ops) \in Nat
    BY <2>1, <2>3 DEF LinesFit
  <2>5. UNCHANGED <<debug_mode, file, ops, mm, rand_base, sizes, block_sizes, package>>
    BY <2>2 DEF LibcStores
  <2>6. block_sizes' \in [Ids -> 0 .. MaxHeap]
    BY <2>5 DEF ReplayInv, TypeOK
  <2>7. CASE failed
    <3>1. phase' = "exit" /\ i' = i /\ blocks' = blocks
      BY <2>2, <2>7 DEF LibcStores
    <3>2. blocks' \in [Ids -> 0 .. MaxHeap] /\ i' \in 0 .. Len(ops) + 1
      BY <2>4, <3>1 DEF ReplayInv, TypeOK
    <3> QED
      BY <2>3, <2>5, <2>6, <3>1, <3>2, LibcTurnInv
  <2>8. CASE ~ failed
    <3>1. phase' = phase /\ i' = i + 1
      BY <2>2, <2>8 DEF LibcStores
    <3>2. i' \in 0 .. Len(ops) + 1 /\ i' # 0
      BY <2>4, <3>1
    <3>3. blocks' \in [Ids' -> Words] /\ Ids' = Ids
      BY <2>1, <2>5, <3>1, <3>2 DEF LibcInv, Ids
    <3>4. blocks' \in [Ids -> 0 .. MaxHeap]
      BY <3>3, WordsAreAddresses
    <3> QED
      BY <2>1, <2>3, <2>5, <2>6, <3>1, <3>2, <3>4, LibcTurnInv
  <2> QED
    BY <2>7, <2>8
<1> QED
  BY <1>1, <1>2, <1>3

-----------------------------------------------------------------------------
(* The invariant of a replay, and what it gives *)

LEMMA ReplayInitInv == LibcInit => ReplayInv
<1> SUFFICES ASSUME LibcInit PROVE ReplayInv
  OBVIOUS
<1>1. /\ debug_mode \in {"none", "cheap", "expensive"}
      /\ phase = "read" /\ ops = << >> /\ i = 0
      /\ mm = mm_init([mem |-> [w \in Words |-> 0], brk |-> 0, lists |-> << >>])
      /\ blocks = [id \in Ids |-> NULL] /\ block_sizes = [id \in Ids |-> 0]
      /\ rand_base = [id \in Ids |-> 0]
      /\ sizes = [total |-> 0, max_total |-> 0, max_heap |-> 0]
  BY DEF LibcInit, Init
<1>2. LibcInv
  BY LibcInitInv
<1>3. PICK m : m = [mem |-> [w \in Words |-> 0], brk |-> 0, lists |-> << >>]
  OBVIOUS
<1>4. m = [mem |-> m.mem, brk |-> m.brk, lists |-> m.lists] /\ m.mem \in [Words -> Int]
  BY <1>3
<1>5. ServedAt(mm, StartOf(Ids), << >>, Ids, 0)
  BY <1>1, <1>3, <1>4, StartServed
<1>6. /\ mm.brk \in WSIZE .. MaxHeap
      /\ mm = [mem |-> mm.mem, brk |-> mm.brk, lists |-> mm.lists] /\ mm.mem \in [Words -> Int]
  BY <1>5, ServesShape DEF ServedAt
<1>7. MmInv
  BY <1>1, <1>6 DEF MmInv, Replaying, OnlyExhaustion, MeasuredIfValid
<1>8. TypeOK
  <2>1. 0 \in 0 .. WORD - 1 /\ 0 \in 0 .. MaxHeap
    BY SizeClassAssumption, MmWordsAssumption
  <2>2. Len(ops) = 0 /\ DOMAIN ops = {}
    BY <1>1
  <2> QED
    BY <1>1, <1>6, <2>1, <2>2 DEF TypeOK
<1> QED
  BY <1>2, <1>7, <1>8 DEF ReplayInv

LEMMA ReplayNextInv == ReplayInv /\ [LibcNext]_<<vars, package, libc>> => ReplayInv'
<1> SUFFICES ASSUME ReplayInv, [LibcNext]_<<vars, package, libc>> PROVE ReplayInv'
  OBVIOUS
<1>1. LibcInv'
  BY LibcNextInv DEF ReplayInv
<1>2. MmInv' /\ TypeOK'
  <2>1. CASE ReadTrace
    BY <2>1, ReadTraceInv
  <2>2. CASE BeginReplay
    BY <2>2, BeginReplayInv
  <2>3. CASE EndReplay
    BY <2>3, EndReplayInv
  <2>4. CASE ValidAlloc
    BY <2>4, ValidAllocInv
  <2>5. CASE ValidRealloc
    BY <2>5, ValidReallocInv
  <2>6. CASE ValidFree
    BY <2>6, ValidFreeInv
  <2>7. CASE UtilAlloc
    BY <2>7, UtilAllocInv
  <2>8. CASE UtilRealloc
    BY <2>8, UtilReallocInv
  <2>9. CASE UtilFree
    BY <2>9, UtilFreeInv
  <2>10. CASE SpeedStep
    BY <2>10, SpeedStepInv
  <2>11. CASE LibcBegin \/ LibcEnd \/ LibcAlloc \/ LibcReallocs \/ LibcFrees
    BY <1>1, <2>11, LibcStepInv
  <2>12. CASE UNCHANGED <<vars, package, libc>>
    <3>1. UNCHANGED <<debug_mode, file, phase, ops, i, mm, ranges, blocks, block_sizes, rand_base,
                      complaint, sizes, first>>
      BY <2>12 DEF vars, trace
    <3>2. TypeOK'
      BY <3>1 DEF ReplayInv, TypeOK, Ids
    <3>3. OnlyExhaustion' /\ MeasuredIfValid' /\ (phase = "read" => i = 0)'
      BY <3>1 DEF ReplayInv, MmInv, OnlyExhaustion, MeasuredIfValid
    <3>4. Ids' = Ids
      BY <3>1 DEF Ids
    <3>5. (LinesFit(ops)' <=> LinesFit(ops))
      BY <3>1, <3>4 DEF LinesFit
    <3>6. ASSUME NEW S, Follows(S), Inspected(S)
          PROVE  Follows(S)' /\ Inspected(S)'
      BY <3>1, <3>4, <3>6 DEF Follows, Inspected
    <3>7. (phase \in Replaying => LinesFit(ops) /\ \E W1 : Follows(W1) /\ Inspected(W1))'
      BY <3>1, <3>5, <3>6 DEF ReplayInv, MmInv
    <3> QED
      BY <3>1, <3>2, <3>3, <3>7 DEF ReplayInv, MmInv
  <2> QED
    BY <2>1, <2>2, <2>3, <2>4, <2>5, <2>6, <2>7, <2>8, <2>9, <2>10, <2>11, <2>12 DEF LibcNext, Next
<1> QED
  BY <1>1, <1>2 DEF ReplayInv

(* What is on record is what the heap has allocated. *)
LEMMA InvRecords == ReplayInv => RecordsMatchHeap
<1> SUFFICES ASSUME ReplayInv, phase \in Valid, i > 0
             PROVE  /\ DOMAIN ranges.node =
                         IF debug_mode = "none" THEN {}
                         ELSE {b + WSIZE : b \in {c \in BlocksOf(mm) : GET_ALLOC(mm, c) = 1}}
                    /\ \A a \in DOMAIN ranges.node :
                         ranges.node[a].hi - a + 1 <= GET_SIZE(mm, HDRP(a)) - WSIZE
  BY DEF RecordsMatchHeap
<1>1. phase \in Replaying /\ i # 0
  BY DEF Valid, Replaying, ReplayInv, TypeOK
<1>2. PICK S : Follows(S) /\ Inspected(S)
  BY <1>1 DEF ReplayInv, MmInv
<1>3. PICK p, r : p = HeldBlocks(S[i - 1], ops, i - 1) /\ r = HeldSizes(S[i - 1], ops, i - 1)
  OBVIOUS
<1>4. W!Serves(mm, S[i - 1].heap, p, r)
  BY <1>1, <1>2, <1>3 DEF Follows, ServedAt
<1>5. CASE debug_mode = "none"
  <2>1. ranges = R!new_range_set
    BY <1>1, <1>2, <1>5 DEF Inspected
  <2>2. DOMAIN ranges.node = {}
    BY <2>1 DEF R!new_range_set
  <2> QED
    BY <1>5, <2>2
<1>6. CASE debug_mode # "none"
  <2>1. OnRecord(ranges, p, r)
    BY <1>1, <1>2, <1>3, <1>6 DEF Inspected, RecordsAt
  <2>2. PICK g : g = ranges
    OBVIOUS
  <2>3. Holding(p, r)
    BY <1>4, ServesHolding
  <2>4. /\ \A k \in DOMAIN g.node : \E x \in Nat :
             p[x] # NULL /\ k = p[x] /\ g.node[k].hi = p[x] + r[x] - 1
        /\ \A x \in Nat : p[x] # NULL => p[x] \in DOMAIN g.node
    BY <2>1, <2>2, <2>3, RecordHeld
  <2>5. /\ {b \in BlocksOf(mm) : GET_ALLOC(mm, b) = 1} = {p[x] - 8 : x \in {y \in Nat : p[y] # NULL}}
        /\ \A x \in Nat : p[x] # NULL => /\ r[x] + 8 <= GET_SIZE(mm, p[x] - 8)
                                         /\ GET_SIZE(mm, p[x] - 8) \in Nat
    <3>1. PICK q, h : q = mm /\ h = S[i - 1].heap
      OBVIOUS
    <3>2. W!Serves(q, h, p, r)
      BY <1>4, <3>1
    <3>3. /\ {b \in W!BlocksOf(q) : W!GET_ALLOC(q, b) = 1} = {p[x] - 8 : x \in {y \in Nat : p[y] # NULL}}
          /\ \A x \in Nat : p[x] # NULL => /\ r[x] + 8 <= W!GET_SIZE(q, p[x] - 8)
                                           /\ W!GET_SIZE(q, p[x] - 8) \in Nat
      BY <3>2, WordAssumptions, W!HeadersHeld
    <3>4. W!BlocksOf(q) = BlocksOf(q)
      BY SameWalks
    <3>5. \A b : W!GET_ALLOC(q, b) = GET_ALLOC(q, b) /\ W!GET_SIZE(q, b) = GET_SIZE(q, b)
      BY SameAccesses
    <3>6. {b \in W!BlocksOf(q) : W!GET_ALLOC(q, b) = 1} = {b \in BlocksOf(q) : GET_ALLOC(q, b) = 1}
      BY <3>4, <3>5
    <3> QED
      BY <3>1, <3>3, <3>5, <3>6
  <2>6. \A x \in Nat : p[x] \in Nat /\ r[x] \in Nat
    BY <2>3 DEF Holding
  <2>7. DOMAIN g.node = {b + 8 : b \in {p[x] - 8 : x \in {y \in Nat : p[y] # NULL}}}
    <3>1. \A x \in Nat : (p[x] - 8) + 8 = p[x]
      BY <2>6
    <3> QED
      BY <2>4, <3>1
  <2>8. ASSUME NEW a \in DOMAIN g.node
        PROVE  g.node[a].hi - a + 1 <= GET_SIZE(mm, HDRP(a)) - WSIZE
    <3>1. PICK x \in Nat : p[x] # NULL /\ a = p[x] /\ g.node[a].hi = p[x] + r[x] - 1
      BY <2>4
    <3>2. HDRP(a) = p[x] - 8
      BY <3>1 DEF HDRP
    <3> QED
      BY <2>5, <2>6, <3>1, <3>2
  <2> QED
    BY <1>6, <2>2, <2>5, <2>7, <2>8
<1> QED
  BY <1>5, <1>6

(* A replay that ends has come where the first one ended. *)
LEMMA InvAlike == ReplayInv => ReplaysAlike
<1> SUFFICES ASSUME ReplayInv, phase \in {"valid2", "util", "speed"}, Finished
             PROVE  first = [brk |-> mm.brk, blocks |-> blocks]
  BY DEF ReplaysAlike
<1>1. phase \in Replaying /\ phase # "valid1"
  BY DEF Replaying
<1>2. PICK S : Follows(S)
  BY <1>1 DEF ReplayInv, MmInv
<1>3. Len(ops) \in Nat
  BY <1>1 DEF ReplayInv, MmInv, LinesFit
<1>4. i # 0 /\ i - 1 = Len(ops)
  BY <1>3 DEF Finished
<1>5. /\ first = [brk |-> S[Len(ops)].heap.brk, blocks |-> S[Len(ops)].blocks]
      /\ blocks = S[Len(ops)].blocks /\ ServedAt(mm, S[Len(ops)], ops, Ids, Len(ops))
  BY <1>1, <1>2, <1>4 DEF Follows
<1>6. mm.brk = S[Len(ops)].heap.brk
  BY <1>5, ServesShape DEF ServedAt
<1> QED
  BY <1>5, <1>6

-----------------------------------------------------------------------------
(* The peak that eval_mm_util finds *)

(* The largest is the new number or the largest before.                    *)
LEMMA MaxStep ==
  ASSUME NEW S \in SUBSET Nat, NEW x0 \in S, NEW x \in Nat, NEW b \in Nat,
         \A y \in S : y <= b, x <= b
  PROVE  Max(S \cup {x}) = MaxOf(x, Max(S))
<1> DEFINE T == S \cup {x}
<1>1. Max(S) \in S /\ \A y \in S : y <= Max(S)
  BY MaxIsLargest
<1>2. T \in SUBSET Nat /\ x0 \in T /\ \A y \in T : y <= b
  OBVIOUS
<1>3. Max(T) \in T /\ \A y \in T : y <= Max(T)
  <2> HIDE DEF T
  <2> QED
    BY <1>2, MaxIsLargest
<1>4. Max(S) \in Nat /\ Max(T) \in Nat /\ x <= Max(T) /\ Max(S) <= Max(T)
  BY <1>1, <1>3
<1>5. Max(T) = x \/ Max(T) <= Max(S)
  BY <1>1, <1>3
<1> QED
  BY <1>4, <1>5 DEF MaxOf

(* The sums of eval_mm_util are those of the payload bytes in use, of      *)
(* which no more than the heap holds, so that the differences it adds      *)
(* modulo WORD never wrap around.                                          *)
PeakAt(g) ==
  LET pay(j) == g[LastLines(ops, Ids, j)]
  IN  /\ IsPayload(g, ops) /\ SizesAt(block_sizes, ops, Ids, i - 1)
      /\ \A j \in 0 .. i - 1 : pay(j) \in 0 .. MaxHeap
      /\ sizes.total = pay(i - 1)
      /\ sizes.max_total = Max({pay(j) : j \in 0 .. i - 1})
      /\ sizes.max_total <= sizes.max_heap

PeakInv == (phase = "util" /\ i # 0) => \E g : PeakAt(g)

(* What eval_mm_util adds to total_size for the line at hand. *)
Change ==
  IF ops[i].index = -1 THEN 0
  ELSE (IF ops[i].type = "f" THEN 0 ELSE ops[i].size)
         - (IF InUse(ops[i].index) THEN block_sizes[ops[i].index] ELSE 0)

(* One more line. *)
LEMMA PeakStep ==
  ASSUME ReplayInv, ReplayInv', phase = "util", i \in DOMAIN ops, NEW g, PeakAt(g),
         Frame, i' = i + 1, Account(Change),
         block_sizes' = IF ops[i].type = "f" THEN block_sizes
                        ELSE [block_sizes EXCEPT ![ops[i].index] = ops[i].size]
  PROVE  PeakAt(g)'
<1> DEFINE pay(j) == g[LastLines(ops, Ids, j)]
           seen(n) == {pay(j) : j \in 0 .. n}
<1>1. LinesFit(ops) /\ i \in 1 .. Len(ops) /\ Len(ops) \in Nat /\ phase \in Replaying
  <2>1. phase \in Replaying
    BY DEF Replaying
  <2> QED
    BY <2>1, WeightsType DEF ReplayInv, MmInv
<1>2. phase' = phase /\ ops' = ops /\ file' = file /\ Ids' = Ids
  BY DEF Frame, Ids
<1>3. /\ IsPayload(g, ops) /\ SizesAt(block_sizes, ops, Ids, i - 1)
      /\ \A j \in 0 .. i - 1 : pay(j) \in 0 .. MaxHeap
      /\ sizes.total = pay(i - 1) /\ sizes.max_total = Max(seen(i - 1))
      /\ sizes.max_total <= sizes.max_heap
  BY DEF PeakAt
<1>4. SizesAt(block_sizes', ops, Ids, i)
  <2>1. block_sizes \in [Ids -> 0 .. MaxHeap]
    BY DEF ReplayInv, TypeOK
  <2>2. \A id \in Ids : block_sizes'[id] =
          IF id = ops[i].index /\ ops[i].type # "f" THEN ops[i].size ELSE block_sizes[id]
    BY <2>1
  <2>3. PICK q, r : q = block_sizes' /\ r = block_sizes
    OBVIOUS
  <2>4. SizesAt(r, ops, Ids, i - 1) /\ \A id \in Ids : q[id] =
          IF id = ops[i].index /\ ops[i].type # "f" THEN ops[i].size ELSE r[id]
    BY <1>3, <2>2, <2>3
  <2>5. SizesAt(q, ops, Ids, i)
    BY ONLY <1>1, <2>4, SizesStep
  <2> QED
    BY <2>3, <2>5
<1>5. pay(i) \in 0 .. mm'.brk /\ mm'.brk \in 0 .. MaxHeap
  <2>1. PICK m, q : m = mm' /\ q = block_sizes'
    OBVIOUS
  <2>2. PICK S : Follows(S)'
    BY <1>1, <1>2 DEF ReplayInv, MmInv
  <2>3. i' # 0 /\ i' - 1 = i
    BY <1>1
  <2>4. ServedAt(m, S[i], ops, Ids, i) /\ S[i].sizes = q
    BY <1>2, <2>1, <2>2, <2>3 DEF Follows
  <2>5. SizesAt(S[i].sizes, ops, Ids, i)
    BY <1>4, <2>1, <2>4
  <2>6. i \in 0 .. Len(ops)
    BY <1>1
  <2>7. pay(i) \in 0 .. m.brk
    BY <1>1, <1>3, <2>4, <2>5, <2>6, PayloadFits
  <2>8. mm'.brk \in 0 .. MaxHeap
    <3>1. TypeOK'
      BY DEF ReplayInv
    <3> QED
      BY ONLY <3>1 DEF TypeOK
  <2> QED
    BY <2>1, <2>7, <2>8
<1>6. pay(i) = pay(i - 1) + Change /\ Change \in Int
  <2>1. /\ pay(i - 1) \in Int /\ pay(i) \in Int
        /\ ops[i].index = -1 => pay(i) = pay(i - 1)
        /\ ops[i].index # -1 =>
             pay(i) = pay(i - 1) + (IF ops[i].type = "f" THEN 0 ELSE ops[i].size)
                        - (IF InUseAfter(ops, i - 1, ops[i].index) THEN block_sizes[ops[i].index] ELSE 0)
    BY <1>1, <1>3, PayloadStep
  <2>2. CASE ops[i].index = -1
    BY <2>1, <2>2 DEF Change
  <2>3. CASE ops[i].index # -1
    <3> DEFINE a == IF ops[i].type = "f" THEN 0 ELSE ops[i].size
               d == IF InUse(ops[i].index) THEN block_sizes[ops[i].index] ELSE 0
    <3>1. a \in Int /\ d \in Int
      <4>1. /\ ops[i].size \in Nat /\ ops[i].index \in Ids
            /\ block_sizes \in [Ids -> 0 .. MaxHeap] /\ 0 .. MaxHeap \subseteq Int
        BY <1>1, <2>3, AtLine
      <4>2. block_sizes[ops[i].index] \in Int
        BY <4>1
      <4> QED
        BY <4>1, <4>2
    <3>2. pay(i) = pay(i - 1) + a - d
      BY <2>1, <2>3 DEF InUse
    <3>3. Change = a - d
      BY <2>3 DEF Change
    <3> HIDE DEF a, d, pay
    <3> QED
      BY <2>1, <3>1, <3>2, <3>3
  <2> QED
    BY <2>2, <2>3
<1>7. MaxHeap \in Nat /\ WORD \in Nat /\ MaxHeap < WORD
  BY MmWordsAssumption, SizeClassAssumption
<1>8. pay(i) \in 0 .. MaxHeap
  BY <1>5, <1>7
<1>9. sizes'.total = pay(i)
  <2>1. sizes'.total = (sizes.total + Change) % WORD
    BY DEF Account
  <2>2. sizes.total + Change = pay(i)
    BY <1>3, <1>6
  <2>3. \A x \in 0 .. MaxHeap : x % WORD = x
    BY <1>7
  <2> QED
    BY <1>8, <2>1, <2>2, <2>3
<1>10. sizes'.max_total = MaxOf(pay(i), sizes.max_total) /\ sizes'.max_heap = MaxOf(mm'.brk, sizes.max_heap)
  BY <1>9 DEF Account
<1>11. /\ sizes'.max_total = Max(seen(i)) /\ \A j \in 0 .. i : pay(j) \in 0 .. MaxHeap
  <2>1. seen(i) = seen(i - 1) \cup {pay(i)}
    <3>1. 0 .. i = (0 .. i - 1) \cup {i}
      BY <1>1
    <3> HIDE DEF pay
    <3> QED
      BY <3>1
  <2>2. \A j \in 0 .. i : pay(j) \in 0 .. MaxHeap
    <3> TAKE j \in 0 .. i
    <3>1. j \in 0 .. i - 1 \/ j = i
      BY <1>1
    <3> QED
      BY <1>3, <1>8, <3>1
  <2>3. seen(i - 1) \in SUBSET Nat /\ pay(0) \in seen(i - 1) /\ pay(i) \in Nat /\ pay(i) <= MaxHeap
        /\ \A y \in seen(i - 1) : y <= MaxHeap
    <3>1. 0 \in 0 .. i - 1
      BY <1>1
    <3> HIDE DEF pay
    <3> QED
      BY <1>3, <1>7, <1>8, <3>1
  <2> HIDE DEF seen, pay
  <2>4. Max(seen(i - 1) \cup {pay(i)}) = MaxOf(pay(i), Max(seen(i - 1)))
    BY <1>7, <2>3, MaxStep
  <2> QED
    BY <1>3, <1>10, <2>1, <2>2, <2>4
<1>12. sizes'.max_total <= sizes'.max_heap
  <2>1. sizes.max_total \in Int /\ sizes.max_heap \in Int
    BY <1>7, SizeClassAssumption DEF ReplayInv, TypeOK
  <2>2. pay(i) \in Int /\ mm'.brk \in Int /\ pay(i) <= mm'.brk
    BY <1>5, <1>7
  <2> HIDE DEF pay
  <2> QED
    BY <1>3, <1>10, <2>1, <2>2 DEF MaxOf
<1>13. i' - 1 = i
  BY <1>1
<1> QED
  BY <1>2, <1>3, <1>4, <1>9, <1>11, <1>12, <1>13 DEF PeakAt

(* malloc in eval_mm_util adds its size, *)
LEMMA PeakAlloc ==
  ASSUME ReplayInv, ReplayInv', UtilAlloc, NEW g, PeakAt(g)
  PROVE  PeakAt(g)'
<1> DEFINE u == malloc(mm, ops[i].size)
<1>1. /\ phase = "util" /\ phase \in {"util", "speed"} /\ phase \in Replaying
      /\ i \in DOMAIN ops /\ ops[i].type = "a"
      /\ IF u.ptr = NULL THEN AppError
         ELSE UtilStores(ops[i].index, u, ops[i].size) /\ Account(ops[i].size)
  BY DEF UtilAlloc, At, Replaying
<1>2. u = WordCall(mm, Handed, ops[i]) /\ MayFail(ops[i])
  BY <1>1 DEF WordCall, MayFail
<1> HIDE DEF u
<1>3. UtilStores(ops[i].index, u, ops[i].size) /\ Account(ops[i].size)
  BY <1>1, <1>2, NeverFails
<1>4. Change = ops[i].size
  <2>1. LinesFit(ops) /\ i \in 1 .. Len(ops)
    BY <1>1, WeightsType DEF ReplayInv, MmInv
  <2>2. ~ InUse(ops[i].index) /\ ops[i].index # -1 /\ ops[i].size \in Nat
    BY <1>1, <2>1, BeforeLine DEF InUse
  <2> QED
    BY <1>1, <2>2 DEF Change
<1>5. /\ Frame /\ i' = i + 1
      /\ block_sizes' = [block_sizes EXCEPT ![ops[i].index] = ops[i].size]
  BY <1>3 DEF UtilStores, Frame
<1>6. Account(Change)
  BY <1>3, <1>4
<1> QED
  BY <1>1, <1>5, <1>6, PeakStep

(* realloc the difference, *)
LEMMA PeakRealloc ==
  ASSUME ReplayInv, ReplayInv', UtilRealloc, NEW g, PeakAt(g)
  PROVE  PeakAt(g)'
<1> DEFINE id == ops[i].index
           u == realloc(mm, blocks[id], ops[i].size)
           change == ops[i].size - block_sizes[id]
<1>1. /\ phase = "util" /\ phase \in {"util", "speed"} /\ phase \in Replaying
      /\ i \in DOMAIN ops /\ ops[i].type = "r"
      /\ IF u.ptr = NULL /\ ops[i].size # 0 THEN AppError
         ELSE UtilStores(id, u, ops[i].size) /\ Account(change)
  BY DEF UtilRealloc, At, Replaying
<1>2. InUse(id) /\ id # -1
  <2>1. LinesFit(ops) /\ i \in 1 .. Len(ops)
    BY <1>1, WeightsType DEF ReplayInv, MmInv
  <2> QED
    BY <1>1, <2>1, BeforeLine DEF InUse
<1>3. u = WordCall(mm, Handed, ops[i]) /\ (MayFail(ops[i]) <=> ops[i].size # 0)
  BY <1>1, <1>2 DEF WordCall, MayFail, Handed
<1>4. Change = change
  BY <1>1, <1>2 DEF Change
<1> HIDE DEF u, change
<1>5. UtilStores(id, u, ops[i].size) /\ Account(change)
  BY <1>1, <1>3, NeverFails
<1>6. /\ Frame /\ i' = i + 1 /\ block_sizes' = [block_sizes EXCEPT ![id] = ops[i].size]
  BY <1>5 DEF UtilStores, Frame
<1>7. Account(Change)
  BY <1>4, <1>5
<1> QED
  BY <1>1, <1>6, <1>7, PeakStep

(* and free takes off what the id had. *)
LEMMA PeakFree ==
  ASSUME ReplayInv, ReplayInv', UtilFree, NEW g, PeakAt(g)
  PROVE  PeakAt(g)'
<1> DEFINE id == ops[i].index
           change == IF id = -1 THEN 0 ELSE - block_sizes[id]
<1>1. /\ phase = "util" /\ phase \in Replaying
      /\ i \in DOMAIN ops /\ ops[i].type = "f" /\ Account(change) /\ i' = i + 1
      /\ UNCHANGED <<debug_mode, file, phase, ops, ranges, trace, complaint, first>>
  BY DEF UtilFree, At, Replaying
<1>2. id # -1 => InUse(id) /\ block_sizes[id] \in Int
  <2>1. LinesFit(ops) /\ i \in 1 .. Len(ops)
    BY <1>1, WeightsType DEF ReplayInv, MmInv
  <2>2. id # -1 => InUse(id)
    BY <1>1, <2>1, BeforeLine DEF InUse
  <2>3. /\ id \in Ids \cup {-1}
        /\ block_sizes \in [Ids -> 0 .. MaxHeap] /\ 0 .. MaxHeap \subseteq Int
    BY <1>1, AtLine
  <2> QED
    BY <2>2, <2>3
<1>3. Change = change
  <2>1. CASE id = -1
    BY <2>1 DEF Change
  <2>2. CASE id # -1
    <3>1. Change = 0 - block_sizes[id]
      BY <1>1, <1>2, <2>2 DEF Change
    <3>2. \A x \in Int : 0 - x = - x
      OBVIOUS
    <3> QED
      BY <1>2, <2>2, <3>1, <3>2
  <2> QED
    BY <2>1, <2>2
<1>4. Frame /\ block_sizes' = block_sizes
  BY <1>1 DEF Frame, trace
<1> HIDE DEF change
<1>5. Account(Change)
  BY <1>1, <1>3
<1> QED
  BY <1>1, <1>4, <1>5, PeakStep

(* At the start nothing is in use. *)
LEMMA PeakBegin ==
  ASSUME ReplayInv, BeginReplay
  PROVE  PeakInv'
<1> SUFFICES ASSUME phase' = "util" PROVE \E g : PeakAt(g)'
  BY DEF PeakInv
<1>1. /\ phase = "util" /\ phase \in Replaying /\ i' = 1 /\ ops' = ops /\ file' = file /\ Ids' = Ids
      /\ sizes' = [total |-> 0, max_total |-> 0, max_heap |-> 0]
  BY DEF BeginReplay, Replaying, Ids
<1>2. LinesFit(ops)
  BY <1>1 DEF ReplayInv, MmInv
<1>3. PICK g : IsPayload(g, ops)
  BY <1>2, PayloadExists
<1>4. LastLines(ops, Ids, 0) = {}
  BY DEF LastLines
<1>5. g[{}] = 0
  BY <1>3 DEF IsPayload, IsSum, Add
<1>6. i' - 1 = 0 /\ 0 .. 0 = {0}
  BY <1>1
<1>7. Max({0}) = 0
  <2>1. {0} \in SUBSET Nat /\ 0 \in {0} /\ \A x \in {0} : x <= 0
    OBVIOUS
  <2>2. Max({0}) \in {0}
    BY <2>1, MaxIsLargest
  <2> QED
    BY <2>2
<1>8. {g[LastLines(ops, Ids, j)] : j \in 0 .. 0} = {0}
  BY <1>4, <1>5, <1>6
<1>9. SizesAt(block_sizes', ops, Ids, 0)
  BY <1>4 DEF SizesAt
<1>10. \A j \in 0 .. 0 : g[LastLines(ops, Ids, j)] \in 0 .. MaxHeap
  BY <1>4, <1>5, <1>6, MmWordsAssumption
<1>11. PeakAt(g)'
  BY <1>1, <1>3, <1>4, <1>5, <1>6, <1>7, <1>8, <1>9, <1>10 DEF PeakAt
<1> QED
  BY <1>11

LEMMA PeakNext == ReplayInv /\ ReplayInv' /\ PeakInv /\ [LibcNext]_<<vars, package, libc>> => PeakInv'
<1> SUFFICES ASSUME ReplayInv, ReplayInv', PeakInv, [LibcNext]_<<vars, package, libc>> PROVE PeakInv'
  OBVIOUS
<1>1. CASE UtilAlloc \/ UtilRealloc \/ UtilFree
  <2>1. phase = "util" /\ i \in DOMAIN ops
    BY <1>1 DEF UtilAlloc, UtilRealloc, UtilFree, At
  <2>2. i # 0
    <3>1. phase \in Replaying
      BY <2>1 DEF Replaying
    <3>2. LinesFit(ops)
      BY <3>1 DEF ReplayInv, MmInv
    <3> QED
      BY <2>1, <3>2, WeightsType
  <2>3. PICK g : PeakAt(g)
    BY <2>1, <2>2 DEF PeakInv
  <2>4. PeakAt(g)'
    BY <1>1, <2>3, PeakAlloc, PeakRealloc, PeakFree
  <2> QED
    BY <2>4 DEF PeakInv
<1>2. CASE BeginReplay
  BY <1>2, PeakBegin
<1>3. CASE EndReplay
  BY <1>3 DEF EndReplay, PeakInv
<1>4. CASE ReadTrace \/ SpeedStep
  BY <1>4 DEF ReadTrace, SpeedStep, AppError, PeakInv
<1>5. CASE ValidAlloc \/ ValidRealloc \/ ValidFree
  <2>1. phase \in Valid /\ phase' \in {phase, "invalid"}
    BY <1>5 DEF ValidAlloc, ValidRealloc, ValidFree, At, Reject, Accept
  <2> QED
    BY <2>1 DEF PeakInv, Valid
<1>6. CASE LibcBegin \/ LibcEnd \/ LibcAlloc \/ LibcReallocs \/ LibcFrees
  <2>1. phase' # "util"
    BY <1>6 DEF LibcBegin, LibcEnd, LibcAlloc, LibcReallocs, LibcFrees, Libc, At, LibcStores
  <2> QED
    BY <2>1 DEF PeakInv
<1>7. CASE UNCHANGED <<vars, package, libc>>
  <2>1. /\ phase' = phase /\ i' = i /\ ops' = ops /\ block_sizes' = block_sizes /\ sizes' = sizes
        /\ Ids' = Ids
    BY <1>7 DEF vars, trace, Ids
  <2>2. \A g : PeakAt(g) => PeakAt(g)'
    BY <2>1 DEF PeakAt
  <2> QED
    BY <2>1, <2>2 DEF PeakInv
<1> QED
  BY <1>1, <1>2, <1>3, <1>4, <1>5, <1>6, <1>7 DEF LibcNext, Next

(* The sums are those that UtilIsPeak speaks of. *)
LEMMA InvPeak == ReplayInv /\ PeakInv => UtilIsPeak
<1> SUFFICES ASSUME ReplayInv, PeakInv, phase = "util", i > 0
             PROVE  /\ sizes.total = PayloadAfter(i - 1)
                    /\ sizes.max_total = Max({PayloadAfter(j) : j \in 0 .. i - 1})
                    /\ sizes.max_total <= sizes.max_heap
  BY DEF UtilIsPeak
<1>1. i # 0 /\ phase \in Replaying
  BY DEF Replaying
<1>2. PICK g : PeakAt(g)
  BY <1>1 DEF PeakInv
<1>3. LinesFit(ops) /\ Len(ops) \in Nat
  BY <1>1, WeightsType DEF ReplayInv, MmInv
<1>4. i - 1 \in 0 .. Len(ops)
  BY <1>1, <1>3 DEF ReplayInv, TypeOK
<1>5. \A j \in 0 .. i - 1 : PayloadAfter(j) = g[LastLines(ops, Ids, j)]
  <2> TAKE j \in 0 .. i - 1
  <2>1. j \in 0 .. Len(ops)
    BY <1>3, <1>4
  <2> QED
    BY <1>2, <1>3, <2>1, PayloadIsSum DEF PeakAt
<1>6. {PayloadAfter(j) : j \in 0 .. i - 1} = {g[LastLines(ops, Ids, j)] : j \in 0 .. i - 1}
  BY <1>5
<1>7. PayloadAfter(i - 1) = g[LastLines(ops, Ids, i - 1)]
  BY <1>4, <1>5
<1> QED
  BY <1>2, <1>6, <1>7 DEF PeakAt

-----------------------------------------------------------------------------
(* What the replays of every trace show *)

(* The operations that are replayed fit the arrays made for them, and no   *)
(* index, size or break leaves its range: for files of any number of lines *)
(* and heaps of any size.                                                  *)
THEOREM ReplayIsTyped == LibcSpec => []TypeOK
<1>1. ReplayInv => TypeOK
  BY DEF ReplayInv
<1> QED
  BY <1>1, ReplayInitInv, ReplayNextInv, PTL DEF LibcSpec

(* eval_mm_valid complains about this allocator only where a request asks  *)
(* for nothing or the heap has no room left: the records and the patterns  *)
(* never give it another reason, whatever the trace and the random places. *)
THEOREM DriverFindsNothingWrong == LibcSpec => []OnlyExhaustion
<1>1. ReplayInv => OnlyExhaustion
  BY DEF ReplayInv, MmInv
<1> QED
  BY <1>1, ReplayInitInv, ReplayNextInv, PTL DEF LibcSpec

(* The range set of the driver and the headers of the heap tell the same   *)
(* blocks in use at every operation of the validity replays.               *)
THEOREM DriverAndHeapAgree == LibcSpec => []RecordsMatchHeap
BY InvRecords, ReplayInitInv, ReplayNextInv, PTL DEF LibcSpec

(* eval_mm_util and eval_mm_speed never meet a failure in a trace that was *)
(* found valid, so that they need no checks of their own.                  *)
THEOREM ValidIsMeasurable == LibcSpec => []MeasuredIfValid
<1>1. ReplayInv => MeasuredIfValid
  BY DEF ReplayInv, MmInv
<1> QED
  BY <1>1, ReplayInitInv, ReplayNextInv, PTL DEF LibcSpec

(* Every replay of a trace ends with the blocks and the break of the first *)
(* one, over whatever words the earlier replays left in the heap.          *)
THEOREM ReplaysEndAlike == LibcSpec => []ReplaysAlike
BY InvAlike, ReplayInitInv, ReplayNextInv, PTL DEF LibcSpec

(* The peak that eval_mm_util divides by the heap is that of the payload   *)
(* bytes the trace has in use, and no more than the heap: the unsigned     *)
(* differences it adds up never wrap around, for traces of any length.     *)
THEOREM UtilMeasuresPeak == LibcSpec => []UtilIsPeak
<1>1. LibcInit => PeakInv
  BY DEF LibcInit, Init, PeakInv
<1> QED
  BY <1>1, ReplayInitInv, ReplayNextInv, PeakNext, InvPeak, PTL DEF LibcSpec
=============================================================================
