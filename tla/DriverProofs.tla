---------------------------- MODULE DriverProofs -----------------------------
(***************************************************************************)
(* Proofs about modules TestRun, Scoring and Driver, for any number of     *)
(* traces, any command line and an alarm that rings anywhere.              *)
(*                                                                         *)
(* The inductive invariant IInv says, for every statement of run_tests,    *)
(* what the current iteration holds there (Current).  The iterations       *)
(* before it have given everything back (Finished), those after it have    *)
(* taken nothing (Untouched).  After a jump the variables trace and ranges *)
(* may name another iteration; what keeps the next statements from harm is *)
(* that freeing anything but the current record is a fault, and the        *)
(* program stops: only the current one can be live.                        *)
(* What an alarm can leave behind is stated by where it rang: NoLateAlarm, *)
(* NoTreeLost, and that values points to a freed array only in the         *)
(* sampler's two windows or after an alarm in one of them.                 *)
(*                                                                         *)
(* What that shows of run_tests holds inside main, where the alarm may     *)
(* also ring while the results are printed; the score is earned, and the   *)
(* printed averages are its own.  DriverIInv adds to IInv that a run in    *)
(* which no error was counted is a clean one (CleanSoFar), and what the    *)
(* variables of main hold on the way from the benchmark to the score.      *)
(* Before it comes the arithmetic of module Scoring: what the sums over    *)
(* any number of traces are, and that no component and no checkpoint is    *)
(* given more than its share.                                              *)
(***************************************************************************)
EXTENDS Driver, FiniteSetTheorems, WellFoundedInduction, TLAPS

(* A set of naturals that is not empty has a least element. *)
LEMMA LeastNatural ==
  ASSUME NEW T \in SUBSET Nat, T # {}
  PROVE  \E n \in T : \A m \in T : n <= m
<1>1. PICK n \in T : \A m \in T : ~ (<<m, n>> \in OpToRel(<, Nat))
  BY NatLessThanWellFounded, WFMin
<1>2. ASSUME NEW m \in T
      PROVE  n <= m
  <2>1. ASSUME m < n PROVE FALSE
    <3>1. <<m, n>> \in Nat \X Nat /\ <<m, n>>[1] < <<m, n>>[2]
      BY <2>1
    <3>2. <<m, n>> \in OpToRel(<, Nat)
      BY <3>1, Zenon DEF OpToRel
    <3> QED
      BY <1>1, <3>2
  <2> QED
    BY <2>1
<1> QED
  BY <1>2


-----------------------------------------------------------------------------
(* run_tests *)

Untouched(k) ==
  /\ record[k] = "none" /\ range_set[k] = "none" /\ k \notin mapped
  /\ reads[k] = 0 /\ valid[k] = "unset" /\ passes[k] = 0 /\ k \notin interrupted

Finished(k) ==
  /\ record[k] = "freed" /\ range_set[k] = "freed" /\ k \notin mapped
  /\ reads[k] = 1 /\ valid[k] # "unset"

(* Iteration i has no verdict yet, and is not the one that counted the     *)
(* last error.                                                             *)
NotJudged == valid[i] = "unset" /\ passes[i] = 0 /\ i \notin interrupted /\ errors < i

(* The record and the range set of iteration i are there, and the          *)
(* variables point to them.                                                *)
Held == record[i] = "live" /\ reads[i] = 1 /\ trace = i /\ ranges = i /\ heap = i

(* A jump restores the variables of iteration i. *)
Saved == jmpbuf = [set |-> TRUE, trace |-> i, ranges |-> i]

Judged == valid[i] # "unset" /\ errors <= i

NoLateAlarm == rang \cap Late = {}

(* And none while a tree was exchanged *)
NoTreeLost == rang \cap (Late \cup TreeGone) = {}

Measuring == {"util", "speed", "new_values", "sample", "forget"}

(* What iteration i holds, statement by statement *)
Current ==
  /\ pc \in {"reference", "loop"} =>
       /\ \A k \in Traces : k = i => Untouched(k)
       /\ errors < i
  /\ pc = "reference" => ~ alarm
  /\ values = "freed" => pc \in ArrayGone \/ rang \cap ArrayGone # {}
  /\ pc \in {"mem_init", "new_range_set", "read_trace"} =>
       NotJudged /\ record[i] = "none" /\ reads[i] = 0
  /\ pc \in {"new_range_set", "read_trace"} => heap = i
  /\ pc = "read_trace" => ranges = i /\ range_set[i] = "live"
  /\ pc \in {"alarm", "sigsetjmp", "reset1", "valid1"} =>
       Held /\ NotJudged /\ range_set[i] = "live"
  /\ pc = "renew1" => Held /\ NotJudged
  /\ pc \in {"reset1", "renew1", "valid1", "reset2", "renew2", "valid2", "onetime"} => Saved
  /\ pc \in {"reset2", "renew2", "valid2"} =>
       /\ Held /\ valid[i] = "unset" /\ passes[i] = 1 /\ i \notin interrupted /\ errors < i
       /\ pc # "renew2" => range_set[i] = "live"
  /\ pc = "onetime" => Held /\ Judged /\ range_set[i] = "live"
  /\ pc \in {"ifvalid", "free_trace"} \cup Measuring =>
       /\ Judged
       /\ record[i] # "none" => reads[i] = 1 /\ heap = i
       /\ NoLateAlarm => Held /\ Saved
       /\ NoTreeLost => range_set[i] = "live"
  /\ pc \in {"free_tree", "free_ranges", "mem_deinit"} =>
       Judged /\ record[i] = "freed" /\ reads[i] = 1 /\ heap = i
  /\ pc = "free_tree" => /\ NoLateAlarm => ranges = i
                         /\ NoTreeLost => range_set[i] = "live"
  /\ pc = "free_ranges" => ranges = i
  /\ pc = "mem_deinit" => range_set[i] = "freed"
  /\ pc \in AfterRun =>
       IF i > num_tracefiles
         THEN \A k \in Traces : k = i => Untouched(k)
         ELSE onetime_flag /\ record[i] = "freed"

Progress ==
  /\ \A k \in Traces : k < i => Finished(k)
  /\ \A k \in Traces : k > i => Untouched(k)
  /\ trace <= i /\ ranges <= i /\ jmpbuf.trace <= i /\ jmpbuf.ranges <= i
  /\ pc \notin {"reference", "loop"} \cup AfterRun => i <= num_tracefiles
  /\ Current

IInv ==
  /\ TypeOK
  /\ ValidMeansReplayed
  /\ OnlyIllTimedAlarmsHarm
  /\ pc \in Ended \/ Progress

-----------------------------------------------------------------------------
(* The steps of one iteration, in the code's order.  For each step: the    *)
(* types, the verdicts, where an alarm rang, and what is held afterwards.  *)
(* The names that stand for groups of variables, and Goto, are expanded    *)
(* throughout.                                                             *)
USE TestRunAssumption
USE DEF options, locals, signals, memory, results, Goto, Traces, ArrayGone, Measuring

(* Nothing has been taken at first. *)
LEMMA InitIInv == Init => IInv
<1> SUFFICES ASSUME Init PROVE IInv
  OBVIOUS
<1>1. TypeOK
  <2>1. jmpbuf \in [set : BOOLEAN, trace : 0 .. MaxTraces, ranges : 0 .. MaxTraces]
    BY DEF Init, NothingRun
  <2>2. pc = "loop" /\ InRunTests
    BY DEF Init, InRunTests
  <2>3. /\ record \in [Traces -> {"none", "live", "freed"}]
        /\ range_set \in [Traces -> {"none", "live", "torn", "freed"}]
        /\ reads \in [Traces -> 0 .. 1] /\ passes \in [Traces -> 0 .. 2]
        /\ valid \in [Traces -> {"unset", "yes", "no"}]
    BY DEF Init, NothingRun
  <2>4. /\ num_tracefiles \in Traces /\ i \in 1 .. num_tracefiles + 1
        /\ trace \in 0 .. MaxTraces /\ ranges \in 0 .. MaxTraces /\ heap \in 0 .. MaxTraces
        /\ errors \in 0 .. MaxTraces + 1
    BY DEF Init, NothingRun
  <2> QED
    BY <2>1, <2>2, <2>3, <2>4 DEF Init, NothingRun, TypeOK
<1>2. ValidMeansReplayed /\ OnlyIllTimedAlarmsHarm
  BY DEF Init, NothingRun, ValidMeansReplayed, OnlyIllTimedAlarmsHarm
<1>3. Progress
  BY DEF Init, NothingRun, Progress, Current, Untouched, AfterRun
<1> QED
  BY <1>1, <1>2, <1>3 DEF IInv

(* At the end of the list nothing of the iteration after it was touched.   *)
LEMMA LoopStep == IInv /\ Loop => IInv'
<1> SUFFICES ASSUME IInv, Loop PROVE IInv'
  OBVIOUS
<1>1. TypeOK'
  BY DEF IInv, TypeOK, InRunTests, AfterRun, Ended, Loop
<1>2. ValidMeansReplayed'
  BY DEF IInv, ValidMeansReplayed, Loop
<1>3. OnlyIllTimedAlarmsHarm'
  BY DEF IInv, OnlyIllTimedAlarmsHarm, Loop
<1>4. (pc \in Ended \/ Progress)'
  BY DEF IInv, TypeOK, Progress, Current, Untouched, Finished, NotJudged, AfterRun, Ended, Loop
<1> QED
  BY <1>1, <1>2, <1>3, <1>4 DEF IInv

(* mem_init maps heap i. *)
LEMMA MemInitStep == IInv /\ MemInit => IInv'
<1> SUFFICES ASSUME IInv, MemInit PROVE IInv'
  OBVIOUS
<1>1. TypeOK'
  <2>1. pc = "mem_init" /\ i \in Traces
    BY DEF IInv, TypeOK, Progress, Ended, AfterRun, MemInit
  <2>2. heap' \in 0 .. MaxTraces /\ mapped' \subseteq Traces
    <3>1. (heap' = i /\ mapped' = mapped \cup {i}) \/ UNCHANGED <<heap, mapped>>
      BY DEF MemInit
    <3>2. heap \in 0 .. MaxTraces /\ mapped \subseteq Traces /\ i \in 0 .. MaxTraces
      BY <2>1 DEF IInv, TypeOK
    <3> QED
      BY <2>1, <3>1, <3>2
  <2>3. (pc \in Ended \cup AfterRun \cup {"reference"} \/ InRunTests)'
    BY DEF MemInit, InRunTests, Ended
  <2>4. UNCHANGED <<options, locals, hung, signals, record, range_set, values, reads, results, fault>>
    BY DEF MemInit
  <2> QED
    BY <2>2, <2>3, <2>4 DEF IInv, TypeOK
<1>2. ValidMeansReplayed'
  BY DEF IInv, ValidMeansReplayed, MemInit
<1>3. OnlyIllTimedAlarmsHarm'
  BY DEF IInv, OnlyIllTimedAlarmsHarm, MemInit
<1>4. (pc \in Ended \/ Progress)'
  BY DEF IInv, TypeOK, Progress, Current, Untouched, Finished, NotJudged, AfterRun, Ended, MemInit
<1> QED
  BY <1>1, <1>2, <1>3, <1>4 DEF IInv

(* new_range_set makes range set i. *)
LEMMA NewRangeSetStep == IInv /\ NewRangeSet => IInv'
<1> SUFFICES ASSUME IInv, NewRangeSet PROVE IInv'
  OBVIOUS
<1>1. TypeOK'
  BY DEF IInv, TypeOK, InRunTests, AfterRun, Ended, Progress, NewRangeSet
<1>2. ValidMeansReplayed'
  BY DEF IInv, ValidMeansReplayed, NewRangeSet
<1>3. OnlyIllTimedAlarmsHarm'
  BY DEF IInv, OnlyIllTimedAlarmsHarm, NewRangeSet
<1>4. (pc \in Ended \/ Progress)'
  BY DEF IInv, TypeOK, Progress, Current, Untouched, Finished, NotJudged, AfterRun, Ended, NewRangeSet
<1> QED
  BY <1>1, <1>2, <1>3, <1>4 DEF IInv

(* read_trace makes record i: from here on the iteration holds all it      *)
(* needs.                                                                  *)
LEMMA ReadTraceStep == IInv /\ ReadTrace => IInv'
<1> SUFFICES ASSUME IInv, ReadTrace PROVE IInv'
  OBVIOUS
<1>1. TypeOK'
  <2>1. pc = "read_trace" /\ i \in Traces /\ reads[i] = 0
    BY DEF IInv, TypeOK, Progress, Current, AfterRun, Ended, ReadTrace
  <2> QED
    BY <2>1 DEF IInv, TypeOK, InRunTests, Ended, ReadTrace
<1>2. ValidMeansReplayed'
  BY DEF IInv, ValidMeansReplayed, ReadTrace
<1>3. OnlyIllTimedAlarmsHarm'
  BY DEF IInv, OnlyIllTimedAlarmsHarm, ReadTrace
<1>4. (pc \in Ended \/ Progress)'
  BY DEF IInv, TypeOK, Progress, Current, Untouched, Finished, Held, NotJudged, AfterRun, Ended, ReadTrace
<1> QED
  BY <1>1, <1>2, <1>3, <1>4 DEF IInv

(* setitimer *)
LEMMA SetAlarmStep == IInv /\ SetAlarm => IInv'
<1> SUFFICES ASSUME IInv, SetAlarm PROVE IInv'
  OBVIOUS
<1>1. TypeOK'
  BY DEF IInv, TypeOK, InRunTests, AfterRun, Ended, SetAlarm
<1>2. ValidMeansReplayed'
  BY DEF IInv, ValidMeansReplayed, SetAlarm
<1>3. OnlyIllTimedAlarmsHarm'
  BY DEF IInv, OnlyIllTimedAlarmsHarm, SetAlarm
<1>4. (pc \in Ended \/ Progress)'
  BY DEF IInv, TypeOK, Progress, Current, Untouched, Finished, Held, NotJudged, AfterRun, Ended, SetAlarm
<1> QED
  BY <1>1, <1>2, <1>3, <1>4 DEF IInv

(* sigsetjmp saves what the iteration holds. *)
LEMMA SetJmpStep == IInv /\ SetJmp => IInv'
<1> SUFFICES ASSUME IInv, SetJmp PROVE IInv'
  OBVIOUS
<1>1. TypeOK'
  BY DEF IInv, TypeOK, InRunTests, AfterRun, Ended, SetJmp
<1>2. ValidMeansReplayed'
  BY DEF IInv, ValidMeansReplayed, SetJmp
<1>3. OnlyIllTimedAlarmsHarm'
  BY DEF IInv, OnlyIllTimedAlarmsHarm, SetJmp
<1>4. (pc \in Ended \/ Progress)'
  BY DEF IInv, TypeOK, Progress, Current, Untouched, Finished, Held, NotJudged, Saved, AfterRun, Ended, SetJmp
<1> QED
  BY <1>1, <1>2, <1>3, <1>4 DEF IInv

(* Freeing a record or a tree keeps the types, also if it is a fault. *)
LEMMA FreeingKeepsTypes ==
  ASSUME TypeOK,
         NEW next \in {"renew1", "renew2", "returned", "free_tree", "free_ranges"},
         FreeTrace(next) \/ FreeTree(next)
  PROVE  TypeOK'
<1>1. /\ record' \in [Traces -> {"none", "live", "freed"}]
      /\ range_set' \in [Traces -> {"none", "live", "torn", "freed"}]
  BY DEF TypeOK, FreeTrace, FreeTree, Fault
<1>2. /\ (pc \in Ended \cup AfterRun \cup {"reference"} \/ InRunTests)'
      /\ fault' \in {"none", "double_free", "stale_tree", "stale_array", "bad_jump"}
  BY DEF TypeOK, FreeTrace, FreeTree, Fault, InRunTests, Ended, AfterRun
<1>3. UNCHANGED <<options, locals, hung, signals, heap, mapped, values, reads, results>>
  BY DEF FreeTrace, FreeTree
<1> QED
  BY <1>1, <1>2, <1>3 DEF TypeOK

(* eval_mm_valid frees the tree of the last replay: it is there. *)
LEMMA ResetRangesStep == IInv /\ ResetRanges => IInv'
<1> SUFFICES ASSUME IInv, ResetRanges PROVE IInv'
  OBVIOUS
<1>1. TypeOK'
  BY FreeingKeepsTypes DEF IInv, ResetRanges
<1>2. ValidMeansReplayed'
  BY DEF IInv, ValidMeansReplayed, ResetRanges, FreeTree, Fault
<1>3. OnlyIllTimedAlarmsHarm'
  BY DEF IInv, TypeOK, Progress, Current, Held, OnlyIllTimedAlarmsHarm, AfterRun, Ended,
     ResetRanges, FreeTree, Fault
<1>4. (pc \in Ended \/ Progress)'
  BY DEF IInv, TypeOK, Progress, Current, Untouched, Finished, Held, NotJudged, Saved, Judged, NoLateAlarm, NoTreeLost, AfterRun, Ended, ResetRanges, FreeTree, Fault
<1> QED
  BY <1>1, <1>2, <1>3, <1>4 DEF IInv

(* It then makes a new tree. *)
LEMMA RenewRangesStep == IInv /\ RenewRanges => IInv'
<1> SUFFICES ASSUME IInv, RenewRanges PROVE IInv'
  OBVIOUS
<1>1. TypeOK'
  BY DEF IInv, TypeOK, InRunTests, AfterRun, Ended, RenewRanges
<1>2. ValidMeansReplayed'
  BY DEF IInv, ValidMeansReplayed, RenewRanges
<1>3. OnlyIllTimedAlarmsHarm'
  BY DEF IInv, OnlyIllTimedAlarmsHarm, RenewRanges
<1>4. (pc \in Ended \/ Progress)'
  BY DEF IInv, TypeOK, Progress, Current, Untouched, Finished, Held, NotJudged, Saved, AfterRun, Ended, RenewRanges
<1> QED
  BY <1>1, <1>2, <1>3, <1>4 DEF IInv

(* The second replay without error makes the trace valid. *)
LEMMA ReplayOKStep == IInv /\ ReplayOK => IInv'
<1> SUFFICES ASSUME IInv, ReplayOK PROVE IInv'
  OBVIOUS
<1>1. TypeOK'
  BY DEF IInv, TypeOK, InRunTests, AfterRun, Ended, Progress, Current, NotJudged, ReplayOK
<1>2. ValidMeansReplayed'
  <2>1. CASE pc = "valid1"
    BY <2>1 DEF IInv, TypeOK, ValidMeansReplayed, Progress, Current, NotJudged, Ended, ReplayOK
  <2>2. CASE pc = "valid2"
    BY <2>2 DEF IInv, TypeOK, ValidMeansReplayed, Progress, Current, Ended, ReplayOK
  <2> QED
    BY <2>1, <2>2 DEF ReplayOK
<1>3. OnlyIllTimedAlarmsHarm'
  BY DEF IInv, OnlyIllTimedAlarmsHarm, ReplayOK
<1>4. (pc \in Ended \/ Progress)'
  BY DEF IInv, TypeOK, Progress, Current, Untouched, Finished, Held, NotJudged, Saved, Judged, AfterRun, Ended, ReplayOK
<1> QED
  BY <1>1, <1>2, <1>3, <1>4 DEF IInv

(* A replay that fails counts an error, the first one of this iteration.   *)
LEMMA ReplayFailsStep == IInv /\ ReplayFails => IInv'
<1> SUFFICES ASSUME IInv, ReplayFails PROVE IInv'
  OBVIOUS
<1>1. TypeOK'
  BY DEF IInv, TypeOK, InRunTests, AfterRun, Ended, Progress, Current, NotJudged, ReplayFails
<1>2. ValidMeansReplayed'
  BY DEF IInv, TypeOK, ValidMeansReplayed, Progress, Current, NotJudged, ReplayFails
<1>3. OnlyIllTimedAlarmsHarm'
  BY DEF IInv, OnlyIllTimedAlarmsHarm, ReplayFails
<1>4. (pc \in Ended \/ Progress)'
  BY DEF IInv, TypeOK, Progress, Current, Untouched, Finished, Held, NotJudged, Saved, Judged, AfterRun, Ended, ReplayFails
<1> QED
  BY <1>1, <1>2, <1>3, <1>4 DEF IInv

(* A replay that does not return leaves all as it is. *)
LEMMA ReplayHangsStep == IInv /\ ReplayHangs => IInv'
<1> SUFFICES ASSUME IInv, ReplayHangs PROVE IInv'
  OBVIOUS
<1>1. TypeOK'
  BY DEF IInv, TypeOK, InRunTests, AfterRun, Ended, ReplayHangs
<1>2. ValidMeansReplayed'
  BY DEF IInv, ValidMeansReplayed, ReplayHangs
<1>3. OnlyIllTimedAlarmsHarm'
  BY DEF IInv, OnlyIllTimedAlarmsHarm, ReplayHangs
<1>4. (pc \in Ended \/ Progress)'
  BY DEF IInv, TypeOK, Progress, Current, Untouched, Finished, Held, NotJudged, Saved, Judged, NoLateAlarm, NoTreeLost, AfterRun, Ended, ReplayHangs
<1> QED
  BY <1>1, <1>2, <1>3, <1>4 DEF IInv

(* With -c the record is freed and run_tests returns. *)
LEMMA OneTimeStep == IInv /\ OneTime => IInv'
<1> SUFFICES ASSUME IInv, OneTime PROVE IInv'
  OBVIOUS
<1>1. TypeOK'
  <2>1. CASE FreeTrace("returned")
    BY <2>1, FreeingKeepsTypes DEF IInv
  <2>2. CASE ~ onetime_flag
    BY <2>2 DEF IInv, TypeOK, InRunTests, AfterRun, Ended, OneTime
  <2> QED
    BY <2>1, <2>2 DEF OneTime
<1>2. ValidMeansReplayed'
  BY DEF IInv, ValidMeansReplayed, OneTime, FreeTrace, Fault
<1>3. OnlyIllTimedAlarmsHarm'
  BY DEF IInv, TypeOK, Progress, Current, Held, OnlyIllTimedAlarmsHarm, AfterRun, Ended,
     OneTime, FreeTrace, Fault
<1>4. (pc \in Ended \/ Progress)'
  BY DEF IInv, TypeOK, Progress, Current, Untouched, Finished, Held, NotJudged, Saved, Judged, NoLateAlarm, NoTreeLost, AfterRun, Ended, OneTime, FreeTrace, Fault
<1> QED
  BY <1>1, <1>2, <1>3, <1>4 DEF IInv

(* The verdict is there when it is looked at. *)
LEMMA IfValidStep == IInv /\ IfValid => IInv'
<1> SUFFICES ASSUME IInv, IfValid PROVE IInv'
  OBVIOUS
<1>1. TypeOK'
  BY DEF IInv, TypeOK, InRunTests, AfterRun, Ended, IfValid
<1>2. ValidMeansReplayed'
  BY DEF IInv, ValidMeansReplayed, IfValid
<1>3. OnlyIllTimedAlarmsHarm'
  BY DEF IInv, OnlyIllTimedAlarmsHarm, IfValid
<1>4. (pc \in Ended \/ Progress)'
  BY DEF IInv, TypeOK, Progress, Current, Untouched, Finished, Held, NotJudged, Saved, Judged, NoLateAlarm, NoTreeLost, AfterRun, Ended, IfValid
<1> QED
  BY <1>1, <1>2, <1>3, <1>4 DEF IInv

(* The measurements take and free nothing but the sampler's array, which   *)
(* is freed and still pointed to in two places only.                       *)
LEMMA UtilStep == IInv /\ Util => IInv'
<1> SUFFICES ASSUME IInv, Util PROVE IInv'
  OBVIOUS
<1>1. TypeOK'
  <2>1. i \in Traces
    BY DEF IInv, TypeOK, Progress, Ended, AfterRun, Util
  <2> QED
    BY <2>1 DEF IInv, TypeOK, InRunTests, AfterRun, Ended, Util
<1>2. ValidMeansReplayed'
  BY DEF IInv, ValidMeansReplayed, Util
<1>3. OnlyIllTimedAlarmsHarm'
  BY DEF IInv, Progress, Current, ArrayGone, Ended, OnlyIllTimedAlarmsHarm, Util
<1>4. (pc \in Ended \/ Progress)'
  BY DEF IInv, TypeOK, Progress, Current, Untouched, Finished, Held, NotJudged, Saved, Judged, NoLateAlarm, NoTreeLost, AfterRun, Ended, Util
<1> QED
  BY <1>1, <1>2, <1>3, <1>4 DEF IInv

LEMMA MeasuringFailsStep == IInv /\ MeasuringFails => IInv'
<1> SUFFICES ASSUME IInv, MeasuringFails PROVE IInv'
  OBVIOUS
<1>1. TypeOK'
  <2>1. i \in Traces
    BY DEF IInv, TypeOK, Progress, Ended, AfterRun, MeasuringFails
  <2> QED
    BY <2>1 DEF IInv, TypeOK, InRunTests, AfterRun, Ended, MeasuringFails
<1>2. ValidMeansReplayed'
  BY DEF IInv, ValidMeansReplayed, MeasuringFails
<1>3. OnlyIllTimedAlarmsHarm'
  BY DEF IInv, Progress, Current, ArrayGone, Ended, OnlyIllTimedAlarmsHarm, MeasuringFails
<1>4. (pc \in Ended \/ Progress)'
  BY DEF IInv, TypeOK, Progress, Current, Untouched, Finished, Held, NotJudged, Saved, Judged, NoLateAlarm, NoTreeLost, AfterRun, Ended, MeasuringFails
<1> QED
  BY <1>1, <1>2, <1>3, <1>4 DEF IInv

LEMMA FreeOldValuesStep == IInv /\ FreeOldValues => IInv'
<1> SUFFICES ASSUME IInv, FreeOldValues PROVE IInv'
  OBVIOUS
<1>1. TypeOK'
  <2>1. i \in Traces
    BY DEF IInv, TypeOK, Progress, Ended, AfterRun, FreeOldValues
  <2> QED
    BY <2>1 DEF IInv, TypeOK, InRunTests, AfterRun, Ended, FreeOldValues, Fault
<1>2. ValidMeansReplayed'
  BY DEF IInv, ValidMeansReplayed, FreeOldValues
<1>3. OnlyIllTimedAlarmsHarm'
  BY DEF IInv, Progress, Current, ArrayGone, Ended, OnlyIllTimedAlarmsHarm, FreeOldValues, Fault
<1>4. (pc \in Ended \/ Progress)'
  BY DEF IInv, TypeOK, Progress, Current, Untouched, Finished, Held, NotJudged, Saved, Judged, NoLateAlarm, NoTreeLost, AfterRun, Ended, FreeOldValues, Fault
<1> QED
  BY <1>1, <1>2, <1>3, <1>4 DEF IInv

LEMMA NewValuesStep == IInv /\ NewValues => IInv'
<1> SUFFICES ASSUME IInv, NewValues PROVE IInv'
  OBVIOUS
<1>1. TypeOK'
  <2>1. i \in Traces
    BY DEF IInv, TypeOK, Progress, Ended, AfterRun, NewValues
  <2> QED
    BY <2>1 DEF IInv, TypeOK, InRunTests, AfterRun, Ended, NewValues
<1>2. ValidMeansReplayed'
  BY DEF IInv, ValidMeansReplayed, NewValues
<1>3. OnlyIllTimedAlarmsHarm'
  BY DEF IInv, Progress, Current, ArrayGone, Ended, OnlyIllTimedAlarmsHarm, NewValues
<1>4. (pc \in Ended \/ Progress)'
  BY DEF IInv, TypeOK, Progress, Current, Untouched, Finished, Held, NotJudged, Saved, Judged, NoLateAlarm, NoTreeLost, AfterRun, Ended, NewValues
<1> QED
  BY <1>1, <1>2, <1>3, <1>4 DEF IInv

LEMMA FreeValuesStep == IInv /\ FreeValues => IInv'
<1> SUFFICES ASSUME IInv, FreeValues PROVE IInv'
  OBVIOUS
<1>1. TypeOK'
  <2>1. i \in Traces
    BY DEF IInv, TypeOK, Progress, Ended, AfterRun, FreeValues
  <2> QED
    BY <2>1 DEF IInv, TypeOK, InRunTests, AfterRun, Ended, FreeValues
<1>2. ValidMeansReplayed'
  BY DEF IInv, ValidMeansReplayed, FreeValues
<1>3. OnlyIllTimedAlarmsHarm'
  BY DEF IInv, Progress, Current, ArrayGone, Ended, OnlyIllTimedAlarmsHarm, FreeValues
<1>4. (pc \in Ended \/ Progress)'
  BY DEF IInv, TypeOK, Progress, Current, Untouched, Finished, Held, NotJudged, Saved, Judged, NoLateAlarm, NoTreeLost, AfterRun, Ended, FreeValues
<1> QED
  BY <1>1, <1>2, <1>3, <1>4 DEF IInv

LEMMA ForgetValuesStep == IInv /\ ForgetValues => IInv'
<1> SUFFICES ASSUME IInv, ForgetValues PROVE IInv'
  OBVIOUS
<1>1. TypeOK'
  <2>1. i \in Traces
    BY DEF IInv, TypeOK, Progress, Ended, AfterRun, ForgetValues
  <2> QED
    BY <2>1 DEF IInv, TypeOK, InRunTests, AfterRun, Ended, ForgetValues
<1>2. ValidMeansReplayed'
  BY DEF IInv, ValidMeansReplayed, ForgetValues
<1>3. OnlyIllTimedAlarmsHarm'
  BY DEF IInv, Progress, Current, ArrayGone, Ended, OnlyIllTimedAlarmsHarm, ForgetValues
<1>4. (pc \in Ended \/ Progress)'
  BY DEF IInv, TypeOK, Progress, Current, Untouched, Finished, Held, NotJudged, Saved, Judged, NoLateAlarm, NoTreeLost, AfterRun, Ended, ForgetValues
<1> QED
  BY <1>1, <1>2, <1>3, <1>4 DEF IInv

(* free_trace goes on only if the record is that of this iteration, and    *)
(* tree_free only if its tree is still there.                              *)
LEMMA CleanUpStep == IInv /\ CleanUp => IInv'
<1> SUFFICES ASSUME IInv, CleanUp PROVE IInv'
  OBVIOUS
<1>1. TypeOK'
  BY FreeingKeepsTypes DEF IInv, CleanUp
<1>2. ValidMeansReplayed'
  BY DEF IInv, ValidMeansReplayed, CleanUp, FreeTrace, FreeTree, Fault
<1>3. OnlyIllTimedAlarmsHarm'
  BY DEF IInv, TypeOK, Progress, Current, Held, NoLateAlarm, NoTreeLost, OnlyIllTimedAlarmsHarm, AfterRun, Ended,
     CleanUp, FreeTrace, FreeTree, Fault
<1>4. (pc \in Ended \/ Progress)'
  <2>1. CASE pc = "free_trace" /\ FreeTrace("free_tree")
    BY <2>1 DEF IInv, TypeOK, Progress, Current, Untouched, Finished, Held, Judged,
       NoLateAlarm, NoTreeLost, AfterRun, Ended, FreeTrace, Fault
  <2>2. CASE pc = "free_tree" /\ FreeTree("free_ranges")
    BY <2>2 DEF IInv, TypeOK, Progress, Current, Untouched, Finished, Judged, AfterRun, Ended,
       FreeTree, Fault
  <2> QED
    BY <2>1, <2>2 DEF CleanUp
<1> QED
  BY <1>1, <1>2, <1>3, <1>4 DEF IInv

(* free_range_set ends with the range set itself. *)
LEMMA FreeRangesStep == IInv /\ FreeRanges => IInv'
<1> SUFFICES ASSUME IInv, FreeRanges PROVE IInv'
  OBVIOUS
<1>1. TypeOK'
  BY DEF IInv, TypeOK, InRunTests, AfterRun, Ended, FreeRanges
<1>2. ValidMeansReplayed'
  BY DEF IInv, ValidMeansReplayed, FreeRanges
<1>3. OnlyIllTimedAlarmsHarm'
  BY DEF IInv, OnlyIllTimedAlarmsHarm, FreeRanges
<1>4. (pc \in Ended \/ Progress)'
  BY DEF IInv, TypeOK, Progress, Current, Untouched, Finished, Judged, AfterRun, Ended, FreeRanges
<1> QED
  BY <1>1, <1>2, <1>3, <1>4 DEF IInv

(* mem_deinit gives the heap back: the iteration is finished. *)
LEMMA NextTraceStep == IInv /\ NextTrace => IInv'
<1> SUFFICES ASSUME IInv, NextTrace PROVE IInv'
  OBVIOUS
<1>1. TypeOK'
  BY DEF IInv, TypeOK, InRunTests, AfterRun, Ended, Progress, NextTrace
<1>2. ValidMeansReplayed'
  BY DEF IInv, ValidMeansReplayed, NextTrace
<1>3. OnlyIllTimedAlarmsHarm'
  BY DEF IInv, OnlyIllTimedAlarmsHarm, NextTrace
<1>4. (pc \in Ended \/ Progress)'
  BY DEF IInv, TypeOK, Progress, Current, Untouched, Finished, Judged, AfterRun, Ended, NextTrace
<1> QED
  BY <1>1, <1>2, <1>3, <1>4 DEF IInv

-----------------------------------------------------------------------------
(* The alarm.  Wherever it rings, the program stops with a fault or lands  *)
(* at the look at the verdict, which is now that the trace is invalid.     *)
LEMMA TimeoutStep == IInv /\ Timeout => IInv'
<1> SUFFICES ASSUME IInv, Timeout PROVE IInv'
  OBVIOUS
<1>1. CASE CanLand
  <2>1. /\ i \in Traces /\ pc' = "ifvalid" /\ errors' = 1
        /\ valid' = [valid EXCEPT ![i] = "no"] /\ interrupted' = interrupted \cup {i}
        /\ trace' \in {trace, jmpbuf.trace} /\ ranges' \in {ranges, jmpbuf.ranges}
        /\ rang' = rang \cup {pc} /\ fault' = fault /\ alarm' = FALSE /\ hung' = FALSE
        /\ UNCHANGED <<options, i, jmpbuf, memory, reads, rated, measured, passes>>
    BY <1>1 DEF IInv, TypeOK, Timeout, Landed, CanLand
  <2>2. TypeOK'
    <3>1. /\ trace' \in 0 .. MaxTraces /\ ranges' \in 0 .. MaxTraces
          /\ valid' \in [Traces -> {"unset", "yes", "no"}] /\ interrupted' \subseteq Traces
      BY <2>1 DEF IInv, TypeOK
    <3>2. InRunTests'
      BY <2>1 DEF InRunTests
    <3>3. errors' \in 0 .. MaxTraces + 1
      BY <2>1
    <3> QED
      BY <2>1, <3>1, <3>2, <3>3 DEF IInv, TypeOK
  <2>3. ValidMeansReplayed'
    BY <2>1 DEF IInv, TypeOK, ValidMeansReplayed
  <2>4. OnlyIllTimedAlarmsHarm'
    BY <2>1 DEF IInv, OnlyIllTimedAlarmsHarm
  <2>5. Progress'
    <3>1. /\ (\A k \in Traces : k < i => Finished(k))'
          /\ (\A k \in Traces : k > i => Untouched(k))'
          /\ (trace <= i /\ ranges <= i /\ jmpbuf.trace <= i /\ jmpbuf.ranges <= i)'
          /\ i' <= num_tracefiles'
      BY <1>1, <2>1 DEF IInv, TypeOK, Progress, Finished, Untouched, CanLand, Timeout
    <3>2. /\ Judged'
          /\ record'[i'] # "none" => reads'[i'] = 1 /\ heap' = i'
      BY <1>1, <2>1 DEF IInv, TypeOK, Progress, Current, Untouched, Judged, Held, Timeout, CanLand,
         InRunTests, Ended, AfterRun
    <3>3. ASSUME NoLateAlarm' PROVE (Held /\ Saved)'
      <4>1. pc \notin Late /\ NoLateAlarm
        BY <2>1, <3>3 DEF NoLateAlarm
      <4>2. Held /\ Saved
        BY <1>1, <4>1 DEF IInv, Progress, Current, CanLand, InRunTests, Late, Ended
      <4> QED
        BY <2>1, <4>2 DEF Held, Saved
    <3>4. ASSUME NoTreeLost' PROVE (range_set[i] = "live")'
      <4>1. pc \notin Late \cup TreeGone /\ NoTreeLost
        BY <2>1, <3>4 DEF NoTreeLost
      <4>2. range_set[i] = "live"
        BY <1>1, <4>1 DEF IInv, Progress, Current, CanLand, InRunTests, Late, TreeGone, Ended
      <4> QED
        BY <2>1, <4>2
    <3>5. values' = "freed" => rang' \cap ArrayGone # {}
      BY <1>1, <2>1 DEF IInv, Progress, Current, CanLand, InRunTests, Ended
    <3> QED
      BY <2>1, <3>1, <3>2, <3>3, <3>4, <3>5 DEF Progress, Current, AfterRun
  <2> QED
    BY <2>2, <2>3, <2>4, <2>5 DEF IInv
<1>2. CASE ~ CanLand
  <2>1. /\ pc' = "fault" /\ fault' = "bad_jump" /\ errors' = 1
        /\ rang' = rang \cup {pc} /\ alarm' = FALSE /\ hung' = FALSE
        /\ UNCHANGED <<trace, ranges, valid, interrupted>>
        /\ UNCHANGED <<options, i, jmpbuf, memory, reads, rated, measured, passes>>
    BY <1>2 DEF Timeout, Fault
  <2>2. TypeOK' /\ ValidMeansReplayed'
    <3>1. pc' \in Ended /\ errors' \in 0 .. MaxTraces + 1
      BY <2>1 DEF Ended
    <3>2. TypeOK'
      BY <2>1, <3>1 DEF IInv, TypeOK
    <3> QED
      BY <2>1, <3>2 DEF IInv, ValidMeansReplayed
  <2>3. pc \in Late \/ ~ NoLateAlarm
    <3>1. pc # "reference" /\ pc \notin Ended /\ Progress
      BY DEF IInv, Progress, Current, Timeout
    <3>2. pc \in AfterRun \/ InRunTests
      BY <3>1 DEF IInv, TypeOK
    <3> QED
      BY <1>2, <3>1, <3>2 DEF Progress, Current, Saved, CanLand, InRunTests, Late, Ended, AfterRun
  <2>4. OnlyIllTimedAlarmsHarm'
    BY <2>1, <2>3 DEF NoLateAlarm, OnlyIllTimedAlarmsHarm
  <2> QED
    BY <2>1, <2>2, <2>4 DEF IInv, Ended
<1> QED
  BY <1>1, <1>2

LEMMA StepIInv == IInv /\ (Step \/ Timeout) => IInv'
BY LoopStep, MemInitStep, NewRangeSetStep, ReadTraceStep, SetAlarmStep, SetJmpStep,
   ResetRangesStep, RenewRangesStep, ReplayOKStep, ReplayFailsStep, ReplayHangsStep,
   OneTimeStep, IfValidStep, UtilStep, MeasuringFailsStep, FreeOldValuesStep, NewValuesStep,
   FreeValuesStep, ForgetValuesStep, CleanUpStep, FreeRangesStep, NextTraceStep,
   TimeoutStep DEF Step

LEMMA StutterIInv == IInv /\ UNCHANGED vars => IInv'
BY DEF vars, IInv, TypeOK, ValidMeansReplayed, OnlyIllTimedAlarmsHarm, Progress, Current, InRunTests,
   Untouched, Finished, NotJudged, Held, Saved, Judged, NoLateAlarm, NoTreeLost

(* What each iteration holds is as IInv says, statement by statement. *)
THEOREM Invariant == Spec => []IInv
<1>1. IInv /\ [Next]_vars => IInv'
  BY StepIInv, StutterIInv DEF Next
<1> QED
  BY InitIInv, <1>1, PTL DEF Spec

-----------------------------------------------------------------------------
(* The properties *)

(* At the end of run_tests every iteration is finished, but for the one    *)
(* that -c returned from.                                                  *)
LEMMA AtTheEnd ==
  ASSUME IInv, pc \in AfterRun, NEW k \in Traces
  PROVE  \/ k < i /\ Finished(k)
         \/ k > num_tracefiles /\ Untouched(k)
         \/ k > i /\ onetime_flag /\ Untouched(k)
         \/ k = i /\ onetime_flag /\ record[k] = "freed"
BY DEF IInv, TypeOK, Progress, Current, AfterRun, Ended

LEMMA IInvJudged == IInv => AllJudged
<1> SUFFICES ASSUME IInv, pc \in AfterRun, ~ onetime_flag, NEW k \in 1 .. num_tracefiles
             PROVE  reads[k] = 1 /\ valid[k] # "unset"
  BY DEF AllJudged
<1>1. k \in Traces /\ num_tracefiles \in Nat /\ ~ (k > num_tracefiles)
  BY DEF IInv, TypeOK
<1> QED
  BY <1>1, AtTheEnd DEF Finished

LEMMA IInvGivenBack == IInv => GivenBack
<1> SUFFICES ASSUME IInv, pc \in AfterRun, NEW k \in Traces
             PROVE  /\ record[k] # "live"
                    /\ range_set[k] \in {"live", "torn"} => onetime_flag /\ k = i
                    /\ k \in mapped => onetime_flag /\ k = i
  <2>1. IInv => mapped \subseteq Traces
    BY DEF IInv, TypeOK
  <2> QED
    BY <2>1 DEF GivenBack
<1> QED
  BY AtTheEnd DEF Finished, Untouched

(* TypeOK, for any number of traces *)
THEOREM TypeCorrect == Spec => []TypeOK
<1>1. IInv => TypeOK
  BY DEF IInv
<1> QED
  BY <1>1, Invariant, PTL

(* ValidMeansReplayed: wherever the alarm rings, a trace is called valid   *)
(* only after two replays without error, and never if it was interrupted.  *)
THEOREM NoFalseVerdict == Spec => []ValidMeansReplayed
<1>1. IInv => ValidMeansReplayed
  BY DEF IInv
<1> QED
  BY <1>1, Invariant, PTL

(* AllJudged: a run_tests that comes to the end has judged every trace.    *)
THEOREM EveryTraceJudged == Spec => []AllJudged
BY IInvJudged, Invariant, PTL

(* GivenBack: what the iterations took is given back, whatever timeouts    *)
(* there were.                                                             *)
THEOREM NothingKept == Spec => []GivenBack
BY IInvGivenBack, Invariant, PTL

(* OnlyIllTimedAlarmsHarm: a fault goes back to an alarm that rang in one  *)
(* of the sampler's two windows, while a tree was exchanged, or late, each *)
(* kind of fault to its own.                                               *)
THEOREM TimelyAlarmsAreSafe == Spec => []OnlyIllTimedAlarmsHarm
<1>1. IInv => OnlyIllTimedAlarmsHarm
  BY DEF IInv
<1> QED
  BY <1>1, Invariant, PTL

-----------------------------------------------------------------------------
(* The sums of Scoring *)

Some(s) == CHOOSE x \in s : TRUE

(* What the fold computes for s, if g is what it computes for smaller sets *)
Add(f, g, s) == IF s = {} THEN 0 ELSE f[Some(s)] + g[s \ {Some(s)}]

IsSum(f, g, D) == g = [s \in SUBSET D |-> Add(f, g, s)]

(* For all sets of at most n elements there is such a function. *)
LEMMA SumUpTo ==
  ASSUME NEW f, NEW D, IsFiniteSet(D), NEW n \in Nat
  PROVE  \E g : \A s \in SUBSET D : Cardinality(s) <= n => g[s] = Add(f, g, s)
<1> DEFINE Upto(m, g) == \A s \in SUBSET D : Cardinality(s) <= m => g[s] = Add(f, g, s)
           Bad == {m \in Nat : ~ \E g : Upto(m, g)}
<1>1. ASSUME NEW s \in SUBSET D
      PROVE  /\ IsFiniteSet(s) /\ Cardinality(s) \in Nat /\ (Cardinality(s) = 0 <=> s = {})
             /\ s # {} => s \ {Some(s)} \in SUBSET D
                          /\ Cardinality(s \ {Some(s)}) = Cardinality(s) - 1
  <2>1. IsFiniteSet(s)
    BY FS_Subset
  <2>2. s # {} => Some(s) \in s
    BY DEF Some
  <2>3. Cardinality(s) \in Nat /\ (Cardinality(s) = 0 <=> s = {})
    BY <2>1, FS_CardinalityType, FS_EmptySet
  <2>4. Some(s) \in s => Cardinality(s \ {Some(s)}) = Cardinality(s) - 1
    BY <2>1, FS_RemoveElement
  <2> QED
    BY <2>1, <2>2, <2>3, <2>4
<1>2. 0 \notin Bad
  <2> DEFINE z == [s \in SUBSET D |-> 0]
  <2>1. ASSUME NEW s \in SUBSET D, Cardinality(s) <= 0
        PROVE  z[s] = Add(f, z, s)
    <3>1. s = {}
      <4>1. Cardinality(s) \in Nat /\ (Cardinality(s) = 0 => s = {})
        BY <1>1
      <4> QED
        BY <2>1, <4>1
    <3> QED
      BY <3>1 DEF Add
  <2>2. Upto(0, z)
    BY <2>1
  <2> QED
    BY <2>2
<1>3. ASSUME NEW m \in Nat, m \notin Bad
      PROVE  m + 1 \notin Bad
  <2>1. PICK g : Upto(m, g)
    BY <1>3
  <2> DEFINE h == [s \in SUBSET D |-> IF Cardinality(s) <= m THEN g[s] ELSE Add(f, g, s)]
  <2>2. ASSUME NEW s \in SUBSET D, Cardinality(s) <= m + 1
        PROVE  h[s] = Add(f, h, s)
    <3>1. h[s] = Add(f, g, s)
      BY <2>1
    <3>2. s # {} => h[s \ {Some(s)}] = g[s \ {Some(s)}]
      BY <1>1, <2>2
    <3> QED
      BY <3>1, <3>2 DEF Add
  <2>3. Upto(m + 1, h)
    BY <2>2
  <2> QED
    BY <2>3
<1>4. Bad = {}
  <2> SUFFICES ASSUME Bad # {} PROVE FALSE
    OBVIOUS
  <2>1. PICK k \in Bad : \A m \in Bad : k <= m
    BY LeastNatural
  <2> HIDE DEF Bad
  <2>2. k \in Nat /\ k # 0
    BY <1>2, <2>1 DEF Bad
  <2>3. k - 1 \in Nat /\ k - 1 \notin Bad
    BY <2>1, <2>2
  <2> QED
    BY <1>3, <2>1, <2>2, <2>3
<1> QED
  <2>1. n \notin Bad
    BY <1>4
  <2> QED
    BY <2>1

(* And one for all subsets of the set. *)
LEMMA SumExists ==
  ASSUME NEW f, NEW D, IsFiniteSet(D)
  PROVE  \E g : IsSum(f, g, D)
<1>1. PICK g : \A s \in SUBSET D : Cardinality(s) <= Cardinality(D) => g[s] = Add(f, g, s)
  <2>1. PICK n \in Nat : n = Cardinality(D)
    BY FS_CardinalityType
  <2>2. \E g : \A s \in SUBSET D : Cardinality(s) <= n => g[s] = Add(f, g, s)
    BY ONLY IsFiniteSet(D), SumUpTo
  <2> QED
    BY <2>1, <2>2
<1>2. \A s \in SUBSET D : Cardinality(s) <= Cardinality(D)
  BY FS_Subset
<1> DEFINE h == [s \in SUBSET D |-> g[s]]
<1>3. ASSUME NEW s \in SUBSET D
      PROVE  h[s] = Add(f, h, s)
  <2>1. s # {} => s \ {Some(s)} \in SUBSET D
    OBVIOUS
  <2> QED
    BY <1>1, <1>2, <2>1 DEF Add
<1>4. IsSum(f, h, D)
  BY <1>3 DEF IsSum
<1> QED
  BY <1>4

(* The sum is what such a function gives for the whole set. *)
LEMMA SumIsFold ==
  ASSUME NEW f, IsFiniteSet(DOMAIN f)
  PROVE  \E g : IsSum(f, g, DOMAIN f) /\ SumFunction(f) = g[DOMAIN f]
<1> DEFINE D == DOMAIN f
<1>1. PICK h : IsSum(f, h, D)
  BY SumExists
<1>2. \E g2 : g2 = [s \in SUBSET D |-> IF s = {} THEN 0
                    ELSE f[CHOOSE x \in s : TRUE] + g2[s \ {CHOOSE x \in s : TRUE}]]
  BY <1>1 DEF IsSum, Add, Some
<1> QED
  BY <1>2 DEF IsSum, Add, Some, SumFunction, SumFunctionOnSet, FoldFunctionOnSet, MapThenFoldSet

(* Whatever the order, naturals add up to a natural, and zeros to zero.    *)
LEMMA SumOfNaturals ==
  ASSUME NEW f, IsFiniteSet(DOMAIN f), \A k \in DOMAIN f : f[k] \in Nat
  PROVE  /\ SumFunction(f) \in Nat
         /\ (\A k \in DOMAIN f : f[k] = 0) => SumFunction(f) = 0
<1> DEFINE D == DOMAIN f
           Zeros == \A k \in D : f[k] = 0
<1>1. PICK g : IsSum(f, g, D) /\ SumFunction(f) = g[D]
  BY SumIsFold
<1> DEFINE Good(s) == g[s] \in Nat /\ (Zeros => g[s] = 0)
           Bad == {n \in Nat : \E s \in SUBSET D : Cardinality(s) = n /\ ~ Good(s)}
<1>2. ASSUME Bad # {} PROVE FALSE
  <2>1. PICK n \in Bad : \A m \in Bad : n <= m
    BY <1>2, LeastNatural
  <2>2. PICK s \in SUBSET D : Cardinality(s) = n /\ ~ Good(s)
    BY <2>1
  <2>3. g[s] = Add(f, g, s)
    BY <1>1 DEF IsSum
  <2>4. s # {}
    BY <2>2, <2>3 DEF Add
  <2> DEFINE x == Some(s)
  <2>5. x \in s
    BY <2>4 DEF Some
  <2>6. g[s] = f[x] + g[s \ {x}] /\ f[x] \in Nat
    BY <2>3, <2>4, <2>5 DEF Add
  <2> HIDE DEF x
  <2>7. s \ {x} \in SUBSET D /\ Cardinality(s \ {x}) = n - 1 /\ n - 1 \in Nat
    <3>1. IsFiniteSet(s)
      BY FS_Subset
    <3>2. n \in Nat /\ n # 0
      BY <2>2, <2>4, <3>1, FS_EmptySet
    <3>3. Cardinality(s \ {x}) = n - 1
      BY <2>2, <2>5, <3>1, FS_RemoveElement
    <3> QED
      BY <3>2, <3>3
  <2>8. Good(s \ {x})
    BY <2>1, <2>7
  <2> QED
    BY <2>2, <2>5, <2>6, <2>8
<1>3. Good(D)
  <2>1. Cardinality(D) \in Nat
    BY FS_CardinalityType
  <2> QED
    BY <1>2, <2>1
<1> QED
  BY <1>1, <1>3

-----------------------------------------------------------------------------
(* The averages and the points *)

(* A trace's statistics, as far as the averages read them *)
Stats == [weight : {WNONE, WALL, WUTIL, WPERF}, ops : Nat, util : Nat, msecs : Nat]

LEMMA QuotientIsNat ==
  ASSUME NEW a \in Nat, NEW b \in Nat
  PROVE  b # 0 => a \div b \in Nat /\ (a = 0 => a \div b = 0)
OBVIOUS

(* The averages are naturals, whatever traces count for them; where no     *)
(* utilization and no time were measured they are 0.                       *)
LEMMA AveragesAreNatural ==
  ASSUME NEW ks, IsFiniteSet(ks), NEW stats, \A k \in ks : stats[k] \in Stats
  PROVE  /\ AverageUtil(stats, ks) \in Nat /\ AverageThroughput(stats, ks) \in Nat
         /\ (\A k \in ks : stats[k].util = 0) => AverageUtil(stats, ks) = 0
<1> DEFINE us == UtilTraces(stats, ks)
           ps == PerfTraces(stats, ks)
           utils == [k \in us |-> stats[k].util]
           ops == [k \in ps |-> stats[k].ops]
           msecs == [k \in ps |-> stats[k].msecs]
<1>1. IsFiniteSet(us) /\ Cardinality(us) \in Nat /\ IsFiniteSet(ps)
  <2>1. us \in SUBSET ks /\ ps \in SUBSET ks
    BY DEF UtilTraces, PerfTraces
  <2> HIDE DEF us, ps
  <2> QED
    BY <2>1, FS_Subset, FS_CardinalityType
<1>2. /\ \A k \in us : stats[k].util \in Nat
      /\ \A k \in ps : stats[k].ops \in Nat /\ stats[k].msecs \in Nat
      /\ us \in SUBSET ks
  BY DEF UtilTraces, PerfTraces, Stats
<1> HIDE DEF us, ps
<1>3. /\ SumFunction(utils) \in Nat
      /\ (\A k \in ks : stats[k].util = 0) => SumFunction(utils) = 0
  <2>1. DOMAIN utils = us /\ \A k \in us : utils[k] = stats[k].util
    OBVIOUS
  <2> HIDE DEF utils
  <2> QED
    BY <1>1, <1>2, <2>1, SumOfNaturals
<1>4. SumFunction(ops) \in Nat
  <2>1. DOMAIN ops = ps /\ \A k \in ps : ops[k] = stats[k].ops
    OBVIOUS
  <2> HIDE DEF ops
  <2> QED
    BY <1>1, <1>2, <2>1, SumOfNaturals
<1>5. SumFunction(msecs) \in Nat
  <2>1. DOMAIN msecs = ps /\ \A k \in ps : msecs[k] = stats[k].msecs
    OBVIOUS
  <2> HIDE DEF msecs
  <2> QED
    BY <1>1, <1>2, <2>1, SumOfNaturals
<1>6. /\ AverageUtil(stats, ks) = Average(SumFunction(utils), Cardinality(us))
      /\ AverageThroughput(stats, ks) = Rate(SumFunction(ops), SumFunction(msecs))
  BY DEF AverageUtil, AverageThroughput, us, ps
<1> HIDE DEF utils, ops, msecs
<1> QED
  BY <1>1, <1>3, <1>4, <1>5, <1>6, QuotientIsNat DEF Average, Rate

LEMMA DivideBack ==
  ASSUME NEW n \in Nat PROVE (n * 1000) \div 1000 = n
OBVIOUS

LEMMA PointsAre == Points = 100 * 1000
BY DEF Points, One

LEMMA PointsNat == Points \in Nat
BY DEF Points, One

(* A component is a share: at most everything. *)
LEMMA ComponentIsShare ==
  ASSUME NEW perf \in Nat, NEW min \in Nat, NEW max \in Nat, min < max
  PROVE  ScoreComponent(perf, min, max) \in 0 .. One
<1>1. CASE perf < min \/ perf > max
  BY <1>1 DEF ScoreComponent, One
<1>2. CASE ~ (perf < min \/ perf > max)
  <2> DEFINE a == perf - min
             b == max - min
             q == (a * One) \div b
  <2>1. a \in Nat /\ b \in Nat /\ b > 0 /\ a <= b
    BY <1>2
  <2>2. ScoreComponent(perf, min, max) = q
    BY <1>2 DEF ScoreComponent
  <2> HIDE DEF a, b
  <2>3. q \in Int /\ b * q <= a * One /\ a * One < b * q + b
    BY <2>1 DEF One
  <2> HIDE DEF q
  <2>4. q >= 0
    BY <2>1, <2>3 DEF One
  <2>5. q <= One
    BY <2>1, <2>3 DEF One
  <2> QED
    BY <2>2, <2>3, <2>4, <2>5 DEF One
<1> QED
  BY <1>1, <1>2

(* No checkpoint gives more than its points, whatever the averages and the *)
(* benchmark are; and none gives any below 30 percent of utilization.      *)
LEMMA TargetPointsBounded ==
  ASSUME NEW util \in Nat, NEW tput \in Nat, NEW ref \in Nat \ {0},
         NEW target \in {Checkpoint2(ref), Final(ref)}
  PROVE  /\ TargetPoints(target, util, tput) \in 0 .. Points
         /\ util < 300 => ~ Met(target, util, tput) /\ TargetPoints(target, util, tput) = 0
<1>1. /\ target.min_space \in Nat /\ target.max_space \in Nat
      /\ target.min_space < target.max_space
      /\ target.min_speed \in Nat /\ target.max_speed \in Nat
      /\ target.min_speed < target.max_speed
      /\ target.req_space >= 300 /\ target.req_space \in Nat
  BY DEF Checkpoint2, Final
<1> DEFINE u == ScoreComponent(util, target.min_space, target.max_space)
           t == ScoreComponent(100 * tput, target.min_speed, target.max_speed)
<1>2. u \in 0 .. One
  BY <1>1, ComponentIsShare
<1>3. t \in 0 .. One
  BY <1>1, ComponentIsShare, 100 * tput \in Nat
<1>4. TargetPoints(target, util, tput) =
        IF ~ Met(target, util, tput) THEN 0
        ELSE ((u * UtilWeight + t * (One - UtilWeight)) * (Points \div One)) \div One
  BY DEF TargetPoints
<1> HIDE DEF u, t
<1>5. ((u * UtilWeight + t * (One - UtilWeight)) * (Points \div One)) \div One \in 0 .. Points
  <2>1. Points \div One = 100 /\ One = 1000 /\ UtilWeight = 600 /\ One - UtilWeight = 400
    BY DEF Points, One, UtilWeight
  <2> DEFINE x == 10 * (u * 6 + t * 4)
  <2>2. x \in Nat /\ x <= 100 * 1000
    BY <1>2, <1>3 DEF One
  <2>3. (u * 600 + t * 400) * 100 = x * 1000
    BY <1>2, <1>3 DEF One
  <2>4. ((u * UtilWeight + t * (One - UtilWeight)) * (Points \div One)) \div One
        = (x * 1000) \div 1000
    BY <2>1, <2>3
  <2> HIDE DEF x
  <2>5. (x * 1000) \div 1000 = x
    BY <2>2, DivideBack
  <2>6. x <= Points
    BY <2>2, PointsAre
  <2>7. x \in 0 .. Points
    BY <2>2, <2>6, PointsNat
  <2> QED
    BY <2>4, <2>5, <2>7
<1>6. util < 300 => ~ Met(target, util, tput)
  BY <1>1 DEF Met
<1>7. 0 \in 0 .. Points
  BY PointsNat
<1> QED
  BY <1>4, <1>5, <1>6, <1>7

(* What main computes.  With an error counted there are no points beyond   *)
(* the three for each correct trace, and without any utilization neither.  *)
THEOREM PointsBounded ==
  ASSUME NEW ks, IsFiniteSet(ks), NEW stats, \A k \in ks : stats[k] \in Stats,
         NEW numcorrect \in 0 .. Cardinality(ks), NEW errs, NEW ref \in Nat \ {0},
         NEW s, s = ScoreOf(stats, ks, numcorrect, errs, ref)
  PROVE  /\ (errs # 0 \/ \A k \in ks : stats[k].util = 0) =>
              s.checkpoint1 = Base(numcorrect) /\ s.checkpoint2 = 0 /\ s.final = 0
         /\ Base(Cardinality(ks)) <= Points =>
              \A p \in {s.checkpoint1, s.checkpoint2, s.final} : p \in 0 .. Points
<1> DEFINE util == AverageUtil(stats, ks)
           tput == AverageThroughput(stats, ks)
           c2 == Checkpoint2(ref)
           c3 == Final(ref)
<1>1. /\ util \in Nat /\ tput \in Nat
      /\ (\A k \in ks : stats[k].util = 0) => util = 0
  BY AveragesAreNatural
<1>2. Cardinality(ks) \in Nat /\ numcorrect \in Nat /\ numcorrect <= Cardinality(ks)
  BY FS_CardinalityType
<1>3. /\ Base(numcorrect) = 3000 * numcorrect
      /\ Base(Cardinality(ks)) = 3000 * Cardinality(ks)
  BY <1>2 DEF Base, One
<1>4. CASE errs = 0
  <2>1. /\ s.checkpoint1 = Base(numcorrect)
                           + (IF Met(c2, util, tput) THEN Points - Base(Cardinality(ks)) ELSE 0)
        /\ s.checkpoint2 = TargetPoints(c2, util, tput)
        /\ s.final = TargetPoints(c3, util, tput)
    BY <1>4 DEF ScoreOf, Earned
  <2> HIDE DEF util, tput, c2, c3
  <2>2. /\ TargetPoints(c2, util, tput) \in 0 .. Points
        /\ TargetPoints(c3, util, tput) \in 0 .. Points
        /\ util < 300 => /\ ~ Met(c2, util, tput)
                         /\ TargetPoints(c2, util, tput) = 0 /\ TargetPoints(c3, util, tput) = 0
    BY <1>1, TargetPointsBounded DEF c2, c3
  <2>3. util < 300 => s.checkpoint1 = Base(numcorrect) /\ s.checkpoint2 = 0 /\ s.final = 0
    BY <1>2, <1>3, <2>1, <2>2
  <2>4. Base(Cardinality(ks)) <= Points => s.checkpoint1 \in Nat /\ s.checkpoint1 <= Points
    <3> DEFINE base == Base(numcorrect)
               all == Base(Cardinality(ks))
    <3>1. base \in Nat /\ all \in Nat /\ base <= all /\ Points \in Nat
      BY <1>2, <1>3, PointsNat
    <3>2. s.checkpoint1 = base \/ s.checkpoint1 = base + (Points - all)
      BY <1>2, <1>3, <2>1
    <3> HIDE DEF base, all
    <3>3. all <= Points => s.checkpoint1 \in Nat /\ s.checkpoint1 <= Points
      BY <3>1, <3>2
    <3> QED
      BY <3>3 DEF all
  <2> QED
    BY <1>1, <1>4, <2>1, <2>2, <2>3, <2>4, PointsNat
<1>5. CASE errs # 0
  <2>1. s.checkpoint1 = Base(numcorrect) /\ s.checkpoint2 = 0 /\ s.final = 0
    BY <1>5 DEF ScoreOf
  <2>2. Base(numcorrect) \in Nat /\ Base(numcorrect) <= Base(Cardinality(ks))
        /\ Base(Cardinality(ks)) \in Nat
    BY <1>2, <1>3
  <2>3. Base(Cardinality(ks)) <= Points => Base(numcorrect) \in 0 .. Points
    BY <2>2, PointsNat
  <2>4. 0 \in 0 .. Points
    BY PointsNat
  <2> QED
    BY <1>5, <2>1, <2>3, <2>4
<1> QED
  BY <1>4, <1>5

-----------------------------------------------------------------------------
(* The invariant *)

AfterVerdict == {"ifvalid", "free_trace", "free_tree", "free_ranges", "mem_deinit"} \cup Measuring

(* While no error is counted no alarm has rung, and every trace so far is  *)
(* valid and measured; with -c none is measured.                           *)
CleanSoFar ==
  errors = 0 =>
    /\ interrupted = {}
    /\ \A k \in Traces : k < i => valid[k] = "yes" /\ k \in measured
    /\ pc \in AfterVerdict \cup {"onetime"} => valid[i] = "yes"
    /\ pc \in AfterVerdict \ ({"ifvalid"} \cup Measuring) => i \in measured
    /\ onetime_flag => i = 1 /\ rated = {} /\ measured = {} /\ pc \notin AfterVerdict

(* The variables of main *)
MainState ==
  /\ ref_throughput \in Nat
  /\ pc \notin {"reference"} \cup Ended => ref_throughput # 0
  /\ pc = "printed" =>
       \A k \in Ran : mm_stats[k] \in Stats /\ (onetime_flag /\ errors = 0 => mm_stats[k].util = 0)
  /\ sum_stats # NotPrinted =>
       /\ ~ onetime_flag /\ pc \in {"printed"} \cup Ended
       /\ pc = "printed" => sum_stats = Summary(mm_stats, Valid, errors)
  /\ ReportMatchesScore
  /\ score = NoScore \/ (pc = "exit" /\ ScoreEarned)

DriverIInv == IInv /\ CleanSoFar /\ MainState

mine == <<verbose, ref_throughput, reports>>

USE TestRunAssumption
USE DEF options, locals, signals, memory, results, reports, Goto, Traces

-----------------------------------------------------------------------------
(* The score before there is one, and the score *)

(* The traces are finitely many, and the valid ones are among them. *)
LEMMA RanAndValid ==
  ASSUME TypeOK
  PROVE  /\ IsFiniteSet(Ran) /\ Cardinality(Ran) = num_tracefiles
         /\ Cardinality(Valid) \in 0 .. Cardinality(Ran)
<1>1. num_tracefiles \in Nat /\ Valid \in SUBSET Ran
  BY DEF TypeOK, Valid
<1>2. IsFiniteSet(Ran) /\ Cardinality(Ran) = num_tracefiles
  BY <1>1, FS_Interval DEF Ran
<1>3. IsFiniteSet(Valid) /\ Cardinality(Valid) <= Cardinality(Ran)
  BY <1>1, <1>2, FS_Subset
<1> QED
  BY <1>1, <1>2, <1>3, FS_CardinalityType

(* Without points the score is earned. *)
LEMMA NoPointsAreEarned ==
  ASSUME TypeOK, score = NoScore
  PROVE  ScoreEarned
<1>1. score.checkpoint1 = 0 /\ score.checkpoint2 = 0 /\ score.final = 0
  BY DEF NoScore, ScoreOf, Base, One
<1>2. Base(Cardinality(Valid)) \in Nat
  <2>1. Cardinality(Valid) \in Nat
    BY RanAndValid DEF TypeOK
  <2> QED
    BY <2>1 DEF Base, One
<1>3. 0 \in 0 .. Points
  BY PointsNat
<1> QED
  BY <1>1, <1>2, <1>3 DEF ScoreEarned

(* At the end of run_tests, a run without an error and without -c has      *)
(* earned its points: nothing rang, and all was replayed and measured.     *)
LEMMA CleanRun ==
  ASSUME IInv, CleanSoFar, pc \in AfterRun, errors = 0, ~ onetime_flag
  PROVE  /\ interrupted = {} /\ Valid = Ran
         /\ \A k \in Ran : valid[k] = "yes" /\ passes[k] = 2 /\ k \in measured
<1>1. i > num_tracefiles /\ num_tracefiles \in Traces /\ i \in Nat
  BY DEF IInv, TypeOK, Progress, Current, AfterRun, Ended
<1>2. ASSUME NEW k \in Ran
      PROVE  k \in Traces /\ k < i
  BY <1>1 DEF Ran
<1> QED
  BY <1>2 DEF CleanSoFar, Valid, IInv, ValidMeansReplayed

-----------------------------------------------------------------------------
(* The steps *)

LEMMA InitDriverIInv == DriverInit => DriverIInv
<1> SUFFICES ASSUME DriverInit PROVE DriverIInv
  OBVIOUS
<1>1. PICK args \in CommandLines :
        /\ num_tracefiles = Len(ReadOptions(args).tracefiles)
        /\ set_timeout = (ReadOptions(args).set_timeout > 0)
        /\ onetime_flag = ReadOptions(args).onetime_flag
  BY DEF DriverInit
<1>2. num_tracefiles \in Traces /\ onetime_flag \in BOOLEAN /\ set_timeout \in BOOLEAN
  BY <1>1, DriverAssumption
<1>3. pc \in {"exit", "reference"} /\ NothingRun
  BY DEF DriverInit
<1>4. TypeOK
  <2>1. jmpbuf \in [set : BOOLEAN, trace : 0 .. MaxTraces, ranges : 0 .. MaxTraces]
    BY <1>3 DEF NothingRun
  <2>2. pc \in Ended \cup AfterRun \cup {"reference"}
    BY <1>3 DEF Ended
  <2>3. /\ record \in [Traces -> {"none", "live", "freed"}]
        /\ range_set \in [Traces -> {"none", "live", "torn", "freed"}]
        /\ reads \in [Traces -> 0 .. 1] /\ passes \in [Traces -> 0 .. 2]
        /\ valid \in [Traces -> {"unset", "yes", "no"}]
    BY <1>3 DEF NothingRun
  <2>4. /\ i \in 1 .. num_tracefiles + 1
        /\ trace \in 0 .. MaxTraces /\ ranges \in 0 .. MaxTraces /\ heap \in 0 .. MaxTraces
        /\ errors \in 0 .. MaxTraces + 1
    BY <1>2, <1>3 DEF NothingRun
  <2> QED
    BY <1>2, <1>3, <2>1, <2>2, <2>3, <2>4 DEF NothingRun, TypeOK
<1>5. ValidMeansReplayed /\ OnlyIllTimedAlarmsHarm
  BY <1>3 DEF NothingRun, ValidMeansReplayed, OnlyIllTimedAlarmsHarm
<1>6. pc \in Ended \/ Progress
  BY <1>2, <1>3 DEF NothingRun, Progress, Current, Untouched, AfterRun, Ended
<1>7. CleanSoFar
  BY <1>3 DEF NothingRun, CleanSoFar, AfterVerdict
<1>8. MainState
  BY <1>3 DEF DriverInit, MainState, ReportMatchesScore, Ended
<1> QED
  BY <1>4, <1>5, <1>6, <1>7, <1>8 DEF IInv, DriverIInv

(* measure_ref_throughput lets the tests begin with a benchmark above 0.   *)
LEMMA ReferenceStep == DriverIInv /\ MeasureRefThroughput => DriverIInv'
<1> SUFFICES ASSUME DriverIInv, MeasureRefThroughput PROVE DriverIInv'
  OBVIOUS
<1>1. /\ pc = "reference" /\ pc' \in {"loop", "exit"}
      /\ UNCHANGED <<options, locals, hung, signals, memory, reads, results, fault, verbose, reports>>
  BY DEF MeasureRefThroughput
<1>2. ref_throughput' \in Nat /\ (pc' = "loop" => ref_throughput' # 0)
  <2>1. PICK cpu_file \in CpuFiles, throughput_file \in ThroughputFiles :
          LET ltput == LookupRefThroughput(cpu_file, throughput_file)
          IN  \/ ltput > 0 /\ pc' = "loop" /\ ref_throughput' = ltput
              \/ pc' = "loop" /\ ref_throughput' \in Measured
              \/ pc' = "exit" /\ UNCHANGED ref_throughput
    BY DEF MeasureRefThroughput
  <2>2. LookupRefThroughput(cpu_file, throughput_file) \in Nat /\ Measured \subseteq Nat \ {0}
    BY DriverAssumption, ThroughputAssumption
  <2>3. ref_throughput \in Nat
    BY DEF DriverIInv, MainState
  <2> DEFINE ltput == LookupRefThroughput(cpu_file, throughput_file)
  <2>4. \/ ltput > 0 /\ ref_throughput' = ltput
        \/ ref_throughput' \in Measured
        \/ pc' = "exit" /\ ref_throughput' = ref_throughput
    BY <2>1
  <2>5. ltput \in Nat
    BY <2>2
  <2>6. Measured \subseteq Nat \ {0}
    BY <2>2
  <2> HIDE DEF ltput
  <2>7. CASE ltput > 0 /\ ref_throughput' = ltput
    BY <2>5, <2>7
  <2>8. CASE ref_throughput' \in Measured
    <3>1. ref_throughput' \in Nat \ {0}
      BY <2>6, <2>8, Zenon
    <3> QED
      BY <3>1
  <2>9. CASE pc' = "exit" /\ ref_throughput' = ref_throughput
    BY <2>3, <2>9
  <2> QED
    BY <2>4, <2>7, <2>8, <2>9
<1>3. IInv'
  <2>1. TypeOK'
    BY <1>1 DEF DriverIInv, IInv, TypeOK, InRunTests, Ended
  <2>2. ValidMeansReplayed' /\ OnlyIllTimedAlarmsHarm'
    BY <1>1 DEF DriverIInv, IInv, ValidMeansReplayed, OnlyIllTimedAlarmsHarm
  <2>3. (pc \in Ended \/ Progress)'
    BY <1>1 DEF DriverIInv, IInv, Progress, Current, Untouched, Finished, Ended, AfterRun
  <2> QED
    BY <2>1, <2>2, <2>3 DEF IInv
<1>4. CleanSoFar'
  BY <1>1 DEF DriverIInv, CleanSoFar, AfterVerdict
<1>5. MainState'
  <2>1. sum_stats = NotPrinted /\ score = NoScore
    BY <1>1 DEF DriverIInv, MainState, Ended
  <2> QED
    BY <1>1, <1>2, <2>1 DEF MainState, ReportMatchesScore, Ended
<1> QED
  BY <1>3, <1>4, <1>5 DEF DriverIInv

(* A run that counts no error stays clean, statement by statement.         *)
LEMMA StepClean == IInv /\ CleanSoFar /\ Step => CleanSoFar'
<1> SUFFICES ASSUME IInv, CleanSoFar, Step, errors' = 0 PROVE CleanSoFar'
  BY DEF CleanSoFar
<1>1. errors = 0
  BY DEF IInv, TypeOK, Step, Loop, MemInit, NewRangeSet, ReadTrace, SetAlarm, SetJmp, ResetRanges,
     RenewRanges, ReplayOK, ReplayFails, ReplayHangs, OneTime, IfValid, Util, MeasuringFails,
         FreeOldValues, NewValues, FreeValues, ForgetValues, CleanUp, FreeTree,
     FreeTrace, FreeRanges, NextTrace
<1>2. i \in Traces \/ i = num_tracefiles + 1
  BY DEF IInv, TypeOK
<1>3. CASE Loop \/ MemInit \/ NewRangeSet \/ ReadTrace \/ SetAlarm \/ SetJmp
  BY <1>1, <1>3 DEF CleanSoFar, AfterVerdict, Loop, MemInit, NewRangeSet, ReadTrace, SetAlarm, SetJmp
<1>4. CASE ResetRanges \/ RenewRanges \/ ReplayHangs
  BY <1>1, <1>4 DEF CleanSoFar, AfterVerdict, ResetRanges, FreeTree, Fault, RenewRanges, ReplayHangs
<1>8. CASE ReplayOK
  <2>1. i \in Traces /\ pc' \in {"reset2", "onetime"}
    BY <1>8 DEF IInv, TypeOK, Progress, AfterRun, Ended, ReplayOK
  <2>2. \A k \in Traces : k < i => valid'[k] = valid[k]
    BY <1>8, <2>1 DEF IInv, TypeOK, ReplayOK
  <2>3. pc' = "onetime" => valid'[i] = "yes"
    BY <1>8, <2>1 DEF IInv, TypeOK, ReplayOK
  <2>4. pc \notin AfterVerdict /\ UNCHANGED <<i, rated, measured, interrupted, onetime_flag>>
    BY <1>8 DEF ReplayOK, AfterVerdict
  <2> QED
    BY <1>1, <2>1, <2>2, <2>3, <2>4 DEF CleanSoFar, AfterVerdict
<1>5. CASE ReplayFails
  BY <1>1, <1>5 DEF ReplayFails
<1>6. CASE OneTime \/ IfValid
  BY <1>1, <1>6 DEF IInv, TypeOK, Progress, CleanSoFar, AfterVerdict, AfterRun, Ended,
     OneTime, FreeTrace, Fault, IfValid
<1>10. CASE Util \/ MeasuringFails
  BY <1>1, <1>10 DEF CleanSoFar, AfterVerdict, Util, MeasuringFails
<1>11. CASE FreeOldValues \/ NewValues \/ FreeValues
  BY <1>1, <1>11 DEF CleanSoFar, AfterVerdict, FreeOldValues, NewValues, FreeValues, Fault
<1>12. CASE ForgetValues
  BY <1>1, <1>12 DEF CleanSoFar, AfterVerdict, ForgetValues
<1>7. CASE CleanUp \/ FreeRanges
  BY <1>1, <1>7 DEF CleanSoFar, AfterVerdict, CleanUp, FreeTrace, FreeTree, Fault, FreeRanges
<1>9. CASE NextTrace
  <2>1. valid[i] = "yes" /\ i \in measured /\ ~ onetime_flag
    BY <1>1, <1>9 DEF IInv, TypeOK, CleanSoFar, AfterVerdict, NextTrace
  <2>2. \A k \in Traces : k < i + 1 => k < i \/ k = i
    BY <1>2 DEF IInv, TypeOK
  <2> QED
    BY <1>1, <1>9, <2>1, <2>2 DEF CleanSoFar, AfterVerdict, NextTrace
<1> QED
  BY <1>3, <1>4, <1>5, <1>6, <1>7, <1>8, <1>9, <1>10, <1>11, <1>12 DEF Step

(* In run_tests and when the alarm rings, main's variables stay as they    *)
(* are; an alarm that rings while results are printed ends the program.    *)
LEMMA TestsStep == DriverIInv /\ (Step \/ Timeout) /\ UNCHANGED mine => DriverIInv'
<1> SUFFICES ASSUME DriverIInv, Step \/ Timeout, UNCHANGED mine PROVE DriverIInv'
  OBVIOUS
<1>1. IInv'
  BY StepIInv DEF DriverIInv
<1>2. CleanSoFar'
  <2>1. CASE Step
    BY <2>1, StepClean DEF DriverIInv
  <2>2. CASE Timeout
    BY <2>2 DEF CleanSoFar, Timeout
  <2> QED
    BY <2>1, <2>2
<1>3. /\ pc \notin Ended /\ pc' \notin {"reference", "printed"}
      /\ UNCHANGED onetime_flag
      /\ pc \in {"reference", "printed"} => pc' = "fault"
  <2>1. CASE Step
    <3>1. pc \notin Ended \cup {"reference", "printed"} /\ UNCHANGED onetime_flag
      BY <2>1 DEF Step, Loop, MemInit, NewRangeSet, ReadTrace, SetAlarm, SetJmp, ResetRanges,
         RenewRanges, ReplayOK, ReplayFails, ReplayHangs, OneTime, IfValid, Util, MeasuringFails,
         FreeOldValues, NewValues, FreeValues, ForgetValues, CleanUp,
         FreeTree, FreeTrace, FreeRanges, NextTrace, Ended
    <3>2. pc' \notin {"reference", "printed"}
      BY <2>1 DEF Step, Loop, MemInit, NewRangeSet, ReadTrace, SetAlarm, SetJmp, ResetRanges,
         RenewRanges, ReplayOK, ReplayFails, ReplayHangs, OneTime, IfValid, Util, MeasuringFails,
         FreeOldValues, NewValues, FreeValues, ForgetValues, CleanUp,
         FreeTree, FreeTrace, FreeRanges, NextTrace, Fault
    <3> QED
      BY <3>1, <3>2
  <2>2. CASE Timeout
    <3>1. pc \notin Ended /\ UNCHANGED onetime_flag
      BY <2>2 DEF Timeout
    <3>2. (pc' = "ifvalid" /\ InRunTests) \/ pc' = "fault"
      BY <2>2 DEF Timeout, Landed, CanLand, Fault
    <3> QED
      BY <3>1, <3>2 DEF InRunTests
  <2> QED
    BY <2>1, <2>2
<1>4. MainState'
  <2>1. score = NoScore /\ score' = NoScore
    BY <1>3 DEF DriverIInv, MainState, mine, Ended
  <2>2. sum_stats' # NotPrinted => ~ onetime_flag' /\ pc' = "fault"
    BY <1>3 DEF DriverIInv, MainState, mine
  <2>3. ref_throughput' \in Nat /\ (pc' \notin {"reference"} \cup Ended => ref_throughput' # 0)
    BY <1>3 DEF DriverIInv, MainState, mine, Ended
  <2>4. NotPrinted' = NotPrinted
    BY DEF NotPrinted
  <2> QED
    BY <1>3, <2>1, <2>2, <2>3 DEF MainState, ReportMatchesScore, Ended
<1> QED
  BY <1>1, <1>2, <1>4 DEF DriverIInv

(* Statistics of a trace of which not all was measured *)
LEMMA PartlyMeasured ==
  ASSUME NEW s \in Stats, NEW u \in BOOLEAN, NEW t \in BOOLEAN
  PROVE  LET r == [s EXCEPT !.util = IF u THEN @ ELSE 0, !.msecs = IF t THEN @ ELSE 0]
         IN  r \in Stats /\ (~ u => r.util = 0)
<1> DEFINE v == IF u THEN s.util ELSE 0
           m == IF t THEN s.msecs ELSE 0
           q == [s EXCEPT !.util = v]
<1>1. q \in Stats /\ q.util = v /\ m \in Nat
  BY DEF Stats
<1>2. [s EXCEPT !.util = IF u THEN @ ELSE 0, !.msecs = IF t THEN @ ELSE 0] = [q EXCEPT !.msecs = m]
  BY DEF Stats
<1>3. ~ u => v = 0
  OBVIOUS
<1> HIDE DEF q, m, v
<1>4. [q EXCEPT !.msecs = m] \in Stats /\ [q EXCEPT !.msecs = m].util = v
  BY <1>1 DEF Stats
<1> QED
  BY <1>2, <1>3, <1>4

(* printresults: the statistics are those of the traces, and the averages  *)
(* are over the valid ones.                                                *)
LEMMA PrintStep == DriverIInv /\ PrintResults => DriverIInv'
<1> SUFFICES ASSUME DriverIInv, PrintResults PROVE DriverIInv'
  OBVIOUS
<1>1. /\ pc = "returned" /\ pc' = "printed"
      /\ UNCHANGED <<options, locals, hung, signals, memory, reads, results, fault, verbose,
                     ref_throughput, score>>
      /\ sum_stats' = IF verbose /\ ~ onetime_flag THEN Summary(mm_stats', Valid, errors)
                      ELSE sum_stats
  BY DEF PrintResults
<1>2. PICK m \in Measurements : mm_stats' = [k \in Ran |-> StatsOf(k, m)]
  BY DEF PrintResults
<1>3. ASSUME NEW k \in Ran
      PROVE  mm_stats'[k] \in Stats /\ (onetime_flag /\ errors = 0 => mm_stats'[k].util = 0)
  <2>1. k \in Traces
    BY DEF Ran, DriverIInv, IInv, TypeOK
  <2>2. m[k] \in [weight : {WNONE, WALL, WUTIL, WPERF}, ops : Nat, util : 0 .. One, msecs : Nat]
    BY <2>1, DriverAssumption
  <2>3. m[k] \in Stats /\ NoStats \in Stats
    BY <2>2 DEF Stats, NoStats, One
  <2>4. onetime_flag /\ errors = 0 => rated = {}
    BY DEF DriverIInv, CleanSoFar
  <2>5. mm_stats'[k] = StatsOf(k, m)
    BY <1>2
  <2>6. CASE reads[k] = 0
    BY <2>3, <2>5, <2>6 DEF StatsOf, NoStats
  <2>7. CASE reads[k] # 0
    <3>1. mm_stats'[k] = [m[k] EXCEPT !.util = IF k \in rated THEN @ ELSE 0,
                                      !.msecs = IF k \in measured THEN @ ELSE 0]
      BY <2>5, <2>7 DEF StatsOf
    <3>2. (k \in rated) \in BOOLEAN /\ (k \in measured) \in BOOLEAN
      OBVIOUS
    <3> QED
      BY <2>3, <2>4, <3>1, <3>2, PartlyMeasured
  <2> QED
    BY <2>6, <2>7
<1>4. IInv'
  <2>1. TypeOK'
    BY <1>1 DEF DriverIInv, IInv, TypeOK, AfterRun
  <2>2. ValidMeansReplayed' /\ OnlyIllTimedAlarmsHarm'
    BY <1>1 DEF DriverIInv, IInv, ValidMeansReplayed, OnlyIllTimedAlarmsHarm
  <2>3. (pc \in Ended \/ Progress)'
    BY <1>1 DEF DriverIInv, IInv, Progress, Current, Untouched, Finished, Ended, AfterRun
  <2> QED
    BY <2>1, <2>2, <2>3 DEF IInv
<1>5. CleanSoFar'
  BY <1>1 DEF DriverIInv, CleanSoFar, AfterVerdict
<1>6. MainState'
  <2>1. /\ score' = NoScore /\ sum_stats = NotPrinted
        /\ ref_throughput' \in Nat /\ ref_throughput' # 0
    BY <1>1 DEF DriverIInv, MainState, Ended
  <2>2. Ran' = Ran /\ Valid' = Valid
    BY <1>1 DEF Ran, Valid
  <2>3. sum_stats' # NotPrinted =>
          ~ onetime_flag' /\ sum_stats' = Summary(mm_stats', Valid', errors')
    BY <1>1, <2>1, <2>2
  <2>4. \A k \in Ran' : /\ mm_stats'[k] \in Stats
                        /\ onetime_flag' /\ errors' = 0 => mm_stats'[k].util = 0
    BY <1>1, <1>3, <2>2
  <2> QED
    BY <1>1, <2>1, <2>3, <2>4 DEF MainState, ReportMatchesScore
<1> QED
  BY <1>4, <1>5, <1>6 DEF DriverIInv

(* main's score.  Without an error every trace is valid, so the sums over  *)
(* the valid traces and over all are the same; with -c nothing was         *)
(* measured, and below the required utilization there are no points.       *)
LEMMA ScoreStep == DriverIInv /\ Score => DriverIInv'
<1> SUFFICES ASSUME DriverIInv, Score PROVE DriverIInv'
  OBVIOUS
<1>1. /\ pc = "printed" /\ pc' = "exit"
      /\ score' = ScoreOf(mm_stats, Ran, Cardinality(Valid), errors, ref_throughput)
      /\ UNCHANGED <<options, locals, hung, signals, memory, reads, results, fault, verbose,
                     ref_throughput, mm_stats, sum_stats>>
  BY DEF Score
<1>2. IInv'
  <2>1. TypeOK'
    BY <1>1 DEF DriverIInv, IInv, TypeOK, Ended
  <2>2. ValidMeansReplayed' /\ OnlyIllTimedAlarmsHarm'
    BY <1>1 DEF DriverIInv, IInv, ValidMeansReplayed, OnlyIllTimedAlarmsHarm
  <2> QED
    BY <1>1, <2>1, <2>2 DEF IInv, Ended
<1>3. CleanSoFar'
  BY <1>1 DEF DriverIInv, CleanSoFar, AfterVerdict
<1>4. /\ \A k \in Ran : mm_stats[k] \in Stats /\ (onetime_flag /\ errors = 0 => mm_stats[k].util = 0)
      /\ sum_stats # NotPrinted => ~ onetime_flag /\ sum_stats = Summary(mm_stats, Valid, errors)
      /\ ref_throughput \in Nat \ {0}
  BY <1>1 DEF DriverIInv, MainState, Ended
<1>5. /\ Ran' = Ran /\ Valid' = Valid
      /\ IsFiniteSet(Ran) /\ Cardinality(Ran) = num_tracefiles
      /\ Cardinality(Valid) \in 0 .. Cardinality(Ran)
  BY <1>1, RanAndValid DEF DriverIInv, IInv, Ran, Valid
<1>6. errors = 0 /\ ~ onetime_flag =>
        /\ interrupted = {} /\ Valid = Ran
        /\ \A k \in Ran : valid[k] = "yes" /\ passes[k] = 2 /\ k \in measured
  BY <1>1, CleanRun DEF DriverIInv, AfterRun
<1>7. ScoreEarned'
  <2>1. /\ (errors # 0 \/ onetime_flag) =>
             /\ score'.checkpoint1 = Base(Cardinality(Valid))
             /\ score'.checkpoint2 = 0 /\ score'.final = 0
        /\ Base(num_tracefiles) <= Points =>
             \A p \in {score'.checkpoint1, score'.checkpoint2, score'.final} : p \in 0 .. Points
    BY <1>1, <1>4, <1>5, PointsBounded
  <2>2. Base(Cardinality(Valid)) \in Nat
    BY <1>5, RanAndValid DEF DriverIInv, IInv, TypeOK, Base, One
  <2>3. score'.checkpoint1 > Base(Cardinality(Valid)) \/ score'.checkpoint2 > 0 \/ score'.final > 0
        => errors = 0 /\ ~ onetime_flag
    BY <2>1, <2>2 DEF DriverIInv, IInv, TypeOK
  <2> QED
    BY <1>1, <1>5, <1>6, <2>1, <2>3 DEF ScoreEarned
<1>8. ReportMatchesScore'
  <2>1. ASSUME sum_stats # NotPrinted
        PROVE  sum_stats = [util |-> score'.util, tput |-> score'.tput]
    <3>1. ~ onetime_flag /\ sum_stats = Summary(mm_stats, Valid, errors)
      BY <1>4, <2>1
    <3>2. CASE errors = 0
      BY <1>1, <1>6, <3>1, <3>2 DEF Summary, ScoreOf, Earned
    <3>3. CASE errors # 0
      BY <1>1, <3>1, <3>3 DEF Summary, ScoreOf
    <3> QED
      BY <3>2, <3>3
  <2> QED
    BY <1>1, <2>1 DEF ReportMatchesScore, NotPrinted
<1>9. MainState'
  BY <1>1, <1>4, <1>7, <1>8 DEF MainState, Ended
<1> QED
  BY <1>2, <1>3, <1>9 DEF DriverIInv

LEMMA NextDriverIInv == DriverIInv /\ [DriverNext]_driver_vars => DriverIInv'
<1> SUFFICES ASSUME DriverIInv, [DriverNext]_driver_vars PROVE DriverIInv'
  OBVIOUS
<1>1. CASE DriverNext
  <2>1. ASSUME Step \/ Timeout, UNCHANGED mine PROVE DriverIInv'
    BY <2>1, TestsStep
  <2> QED
    BY <1>1, <2>1, ReferenceStep, PrintStep, ScoreStep DEF DriverNext, MainStep, Ring, mine
<1>2. CASE UNCHANGED driver_vars
  <2>1. UNCHANGED vars /\ UNCHANGED mine
    BY <1>2 DEF driver_vars, mine
  <2>2. IInv'
    BY <2>1, StutterIInv DEF DriverIInv
  <2>3. CleanSoFar'
    BY <2>1 DEF DriverIInv, CleanSoFar, vars
  <2>4. MainState'
    BY <2>1 DEF DriverIInv, MainState, vars, mine, ReportMatchesScore, ScoreEarned, Ran, Valid
  <2> QED
    BY <2>2, <2>3, <2>4 DEF DriverIInv
<1> QED
  BY <1>1, <1>2

-----------------------------------------------------------------------------
(* The properties *)

(* What the tests and main hold, from the command line to the score *)
THEOREM DriverInvariant == DriverSpec => []DriverIInv
BY InitDriverIInv, NextDriverIInv, PTL DEF DriverSpec

(* What run_tests promises holds inside main too: TypeOK,                  *)
(* ValidMeansReplayed, AllJudged, GivenBack and OnlyIllTimedAlarmsHarm.    *)
THEOREM TestsKeepTheirPromises ==
  DriverSpec => [](TypeOK /\ ValidMeansReplayed /\ AllJudged /\ GivenBack /\ OnlyIllTimedAlarmsHarm)
<1>1. DriverIInv => TypeOK /\ ValidMeansReplayed /\ AllJudged /\ GivenBack /\ OnlyIllTimedAlarmsHarm
  BY IInvJudged, IInvGivenBack DEF DriverIInv, IInv
<1> QED
  BY <1>1, DriverInvariant, PTL

(* ScoreEarned: points beyond three for each correct trace are given only  *)
(* if no error was counted, no alarm rang and every trace was replayed     *)
(* twice and measured, and no checkpoint gives more than its points.       *)
THEOREM PointsAreEarned == DriverSpec => []ScoreEarned
<1>1. DriverIInv => ScoreEarned
  BY NoPointsAreEarned DEF DriverIInv, IInv, MainState
<1> QED
  BY <1>1, DriverInvariant, PTL

(* ReportMatchesScore: printresults averages over the valid traces and     *)
(* main over all of them, and what is printed is what is scored.           *)
THEOREM ReportIsScored == DriverSpec => []ReportMatchesScore
<1>1. DriverIInv => ReportMatchesScore
  BY DEF DriverIInv, MainState
<1> QED
  BY <1>1, DriverInvariant, PTL
=============================================================================
