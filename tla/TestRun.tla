------------------------------ MODULE TestRun -------------------------------
(***************************************************************************)
(* run_tests of mdriver.c and the alarm that can interrupt it.  For each   *)
(* trace a heap is mapped, a range set made and the trace read; the trace  *)
(* is replayed twice for correctness, then for utilization and, by fsec of *)
(* fcyc.c, for speed, and everything it used is given back.  With -s the   *)
(* alarm is set once per trace and never cancelled, so it can go off at    *)
(* any later point; its handler jumps to where sigsetjmp last returned.    *)
(*                                                                         *)
(* Of fsec there is what it leaves to the next call, the array that its    *)
(* static variable values points to; what it computes is in module Fcyc.   *)
(*                                                                         *)
(* What happens after undefined behaviour (a record or an array freed      *)
(* twice, a tree used that was freed, a jump to a place never saved or     *)
(* into a function that has returned) is not modelled: the program stops   *)
(* with a fault.  A local variable that is not volatile and was changed    *)
(* since sigsetjmp has, after the jump, either value.  The allocator under *)
(* test may fail, or never return.                                         *)
(***************************************************************************)
EXTENDS Integers

CONSTANT MaxTraces   (* bound on num_tracefiles *)

ASSUME TestRunAssumption == MaxTraces \in Nat \ {0}

Traces == 1 .. MaxTraces

VARIABLES
  num_tracefiles,  (* the number of traces to run                             *)
  set_timeout,     (* -s was given: set_timeout > 0                           *)
  onetime_flag,    (* -c was given                                            *)
  pc,              (* the statement executed next                             *)
  i,               (* the loop's index, volatile; counted from 1              *)
  hung,            (* the allocator under test does not return                *)
  alarm,           (* an alarm is pending                                     *)
  jmpbuf,          (* what timeout_jmpbuf restores: whether it was saved, and *)
                   (* the values of trace and ranges at that time             *)
  trace,           (* the trace record and the range set that the variables   *)
  ranges,          (* point to, named by the iteration that made them, or 0   *)
  record,          (* record[k]: "none", "live" or "freed"                    *)
  range_set,       (* range_set[k]: "none", "live", "torn" (its tree was      *)
                   (* freed and lo_tree still points to it) or "freed"        *)
  heap,            (* the simulated heap that memlib.c's heap points to, or 0 *)
  mapped,          (* the simulated heaps mapped and not unmapped             *)
  values,          (* fcyc.c's array of samples: "null", "live" or "freed"    *)
                   (* (and values still points to it)                         *)
  reads,           (* reads[k]: how often trace k was read                    *)
  valid,           (* mm_stats[k].valid: "unset", "yes" or "no"               *)
  rated,           (* the traces whose util was set                           *)
  measured,        (* the traces whose secs was set                           *)
  passes,          (* passes[k]: how often trace k was replayed without error *)
  rang,            (* where the alarm rang                                    *)
  interrupted,     (* the traces that were the current one when it did        *)
  errors,          (* the driver's error count                                *)
  fault            (* "none", "double_free", "stale_tree", "stale_array" or   *)
                   (* "bad_jump"                                              *)

options == <<num_tracefiles, set_timeout, onetime_flag>>
results == <<valid, rated, measured, passes, errors>>
memory  == <<record, range_set, heap, mapped, values>>
signals == <<alarm, jmpbuf, rang, interrupted>>
locals  == <<i, trace, ranges>>
vars == <<options, pc, locals, hung, signals, memory, reads, results, fault>>

Ended == {"exit", "fault"}

Goto(from, to) == pc = from /\ pc' = to /\ ~ hung

Fault(kind) == pc' = "fault" /\ fault' = kind

-----------------------------------------------------------------------------
(* One iteration, statement by statement. *)

NothingRun ==
  /\ i = 1 /\ hung = FALSE /\ alarm = FALSE
  /\ jmpbuf = [set |-> FALSE, trace |-> 0, ranges |-> 0]
  /\ trace = 0 /\ ranges = 0
  /\ record = [k \in Traces |-> "none"]
  /\ range_set = [k \in Traces |-> "none"]
  /\ heap = 0 /\ mapped = {} /\ values = "null"
  /\ reads = [k \in Traces |-> 0]
  /\ valid = [k \in Traces |-> "unset"]
  /\ rated = {} /\ measured = {}
  /\ passes = [k \in Traces |-> 0]
  /\ rang = {} /\ interrupted = {} /\ errors = 0 /\ fault = "none"

Init ==
  /\ num_tracefiles \in Traces
  /\ set_timeout \in BOOLEAN /\ onetime_flag \in BOOLEAN
  /\ pc = "loop"
  /\ NothingRun

(* Loop_StopsOnErrors is a mutant that leaves the loop after an error. *)
Loop_StopsOnErrors ==
  /\ Goto("loop", IF i <= num_tracefiles /\ errors = 0 THEN "mem_init" ELSE "returned")
  /\ UNCHANGED <<options, locals, hung, signals, memory, reads, results, fault>>

Loop ==
  /\ Goto("loop", IF i <= num_tracefiles THEN "mem_init" ELSE "returned")
  /\ UNCHANGED <<options, locals, hung, signals, memory, reads, results, fault>>

(* mmap may fail, and then the program exits. *)
MemInit ==
  /\ \/ Goto("mem_init", "new_range_set") /\ heap' = i /\ mapped' = mapped \cup {i}
     \/ Goto("mem_init", "exit") /\ UNCHANGED <<heap, mapped>>
  /\ UNCHANGED <<options, locals, hung, signals, record, range_set, values, reads, results, fault>>

NewRangeSet ==
  /\ Goto("new_range_set", "read_trace")
  /\ ranges' = i
  /\ range_set' = [range_set EXCEPT ![i] = "live"]
  /\ UNCHANGED <<options, i, trace, hung, signals, record, heap, mapped, values, reads, results, fault>>

(* A trace file that cannot be opened or is malformed ends the program. *)
ReadTrace ==
  /\ \/ /\ Goto("read_trace", "alarm")
        /\ trace' = i
        /\ record' = [record EXCEPT ![i] = "live"]
        /\ reads' = [reads EXCEPT ![i] = @ + 1]
     \/ Goto("read_trace", "exit") /\ UNCHANGED <<trace, record, reads>>
  /\ UNCHANGED <<options, i, ranges, hung, signals, range_set, heap, mapped, values, results, fault>>

(* SetAlarm_Once is a mutant that sets the alarm for the first trace only. *)
SetAlarm_Once ==
  /\ Goto("alarm", "sigsetjmp")
  /\ alarm' = ((set_timeout /\ i = 1) \/ alarm)
  /\ UNCHANGED <<options, locals, hung, jmpbuf, rang, interrupted, memory, reads, results, fault>>

(* A new alarm replaces the one that is pending. *)
SetAlarm ==
  /\ Goto("alarm", "sigsetjmp")
  /\ alarm' = (set_timeout \/ alarm)
  /\ UNCHANGED <<options, locals, hung, jmpbuf, rang, interrupted, memory, reads, results, fault>>

SetJmp ==
  /\ Goto("sigsetjmp", "reset1")
  /\ jmpbuf' = [set |-> TRUE, trace |-> trace, ranges |-> ranges]
  /\ UNCHANGED <<options, locals, hung, alarm, rang, interrupted, memory, reads, results, fault>>

-----------------------------------------------------------------------------
(* eval_mm_valid(trace, ranges) && eval_mm_valid(trace, ranges): each      *)
(* frees the tree of the last replay, makes an empty one, and replays.     *)

FreeTree(next) ==
  /\ IF ranges # 0 /\ range_set[ranges] = "live"
       THEN /\ pc' = next
            /\ range_set' = [range_set EXCEPT ![ranges] = "torn"]
            /\ UNCHANGED fault
       ELSE Fault("stale_tree") /\ UNCHANGED range_set
  /\ UNCHANGED <<options, locals, hung, signals, record, heap, mapped, values, reads, results>>

ResetRanges ==
  /\ ~ hung
  /\ \/ pc = "reset1" /\ FreeTree("renew1")
     \/ pc = "reset2" /\ FreeTree("renew2")

RenewRanges ==
  /\ Goto("renew1", "valid1") \/ Goto("renew2", "valid2")
  /\ range_set' = [range_set EXCEPT ![ranges] = "live"]
  /\ UNCHANGED <<options, locals, hung, signals, record, heap, mapped, values, reads, results, fault>>

ReplayOK ==
  /\ \/ Goto("valid1", "reset2") /\ UNCHANGED valid
     \/ Goto("valid2", "onetime") /\ valid' = [valid EXCEPT ![i] = "yes"]
  /\ passes' = [passes EXCEPT ![i] = @ + 1]
  /\ UNCHANGED <<options, locals, hung, signals, memory, reads, rated, measured, errors, fault>>

(* malloc_error counts the error. *)
ReplayFails ==
  /\ Goto("valid1", "onetime") \/ Goto("valid2", "onetime")
  /\ valid' = [valid EXCEPT ![i] = "no"]
  /\ errors' = errors + 1
  /\ UNCHANGED <<options, locals, hung, signals, memory, reads, rated, measured, passes, fault>>

(* The allocator under test loops for ever. *)
ReplayHangs ==
  /\ pc \in {"valid1", "valid2", "util", "speed", "sample"} /\ ~ hung
  /\ hung' = TRUE
  /\ UNCHANGED <<options, pc, locals, signals, memory, reads, results, fault>>

-----------------------------------------------------------------------------
(* free_trace: freeing a record that is not allocated is a fault. *)
FreeTrace(next) ==
  /\ IF trace # 0 /\ record[trace] = "live"
       THEN /\ pc' = next
            /\ record' = [record EXCEPT ![trace] = "freed"]
            /\ UNCHANGED fault
       ELSE Fault("double_free") /\ UNCHANGED record
  /\ UNCHANGED <<options, locals, hung, signals, range_set, heap, mapped, values, reads, results>>

(* With -c the function returns here. *)
OneTime ==
  /\ pc = "onetime" /\ ~ hung
  /\ \/ onetime_flag /\ FreeTrace("returned")
     \/ /\ ~ onetime_flag
        /\ pc' = "ifvalid"
        /\ UNCHANGED <<options, locals, hung, signals, memory, reads, results, fault>>

IfValid ==
  /\ Goto("ifvalid", IF valid[i] = "yes" THEN "util" ELSE "free_trace")
  /\ UNCHANGED <<options, locals, hung, signals, memory, reads, results, fault>>

Util ==
  /\ Goto("util", "speed")
  /\ rated' = rated \cup {i}
  /\ UNCHANGED <<options, locals, hung, signals, memory, reads, valid, measured, passes, errors, fault>>

(* An allocation that fails in eval_mm_util or eval_mm_speed ends the      *)
(* program.                                                                *)
MeasuringFails ==
  /\ Goto("util", "exit") \/ Goto("speed", "exit") \/ Goto("sample", "exit")
  /\ UNCHANGED <<options, locals, hung, signals, memory, reads, results, fault>>

(* fsec(eval_mm_speed).  When its first loop has ended, init_sampler frees *)
(* the array that an abandoned call left, ...                              *)
FreeOldValues ==
  /\ pc = "speed" /\ ~ hung
  /\ IF values = "freed"
       THEN Fault("stale_array") /\ UNCHANGED values
       ELSE /\ pc' = "new_values"
            /\ values' = IF values = "live" THEN "freed" ELSE values
            /\ UNCHANGED fault
  /\ UNCHANGED <<options, locals, hung, signals, record, range_set, heap, mapped, reads, results>>

(* ... and makes a new one.                                                *)
NewValues ==
  /\ Goto("new_values", "sample")
  /\ values' = "live"
  /\ UNCHANGED <<options, locals, hung, signals, record, range_set, heap, mapped, reads, results, fault>>

(* When the samples are taken, fsec frees the array, ...                   *)
FreeValues ==
  /\ Goto("sample", "forget")
  /\ values' = "freed"
  /\ UNCHANGED <<options, locals, hung, signals, record, range_set, heap, mapped, reads, results, fault>>

(* ... sets values to NULL and returns.  ForgetValues_Keeps is a mutant    *)
(* that leaves the pointer as it is.                                       *)
ForgetValues_Keeps ==
  /\ Goto("forget", "free_trace")
  /\ measured' = measured \cup {i}
  /\ UNCHANGED <<options, locals, hung, signals, memory, reads, valid, rated, passes, errors, fault>>

ForgetValues ==
  /\ Goto("forget", "free_trace")
  /\ values' = "null"
  /\ measured' = measured \cup {i}
  /\ UNCHANGED <<options, locals, hung, signals, record, range_set, heap, mapped, reads,
                 valid, rated, passes, errors, fault>>

(* free_trace, then free_range_set: tree_free and free *)
CleanUp ==
  /\ ~ hung
  /\ \/ pc = "free_trace" /\ FreeTrace("free_tree")
     \/ pc = "free_tree" /\ FreeTree("free_ranges")

FreeRanges ==
  /\ Goto("free_ranges", "mem_deinit")
  /\ range_set' = [range_set EXCEPT ![ranges] = "freed"]
  /\ UNCHANGED <<options, locals, hung, signals, record, heap, mapped, values, reads, results, fault>>

(* mem_deinit, and on to the next trace.                                   *)
(* NextTrace_Retry is a mutant that goes on only after a valid trace,      *)
(* NextTrace_KeepsHeap one that leaves the simulated heap mapped.          *)
NextTrace_Retry ==
  /\ Goto("mem_deinit", "loop")
  /\ mapped' = mapped \ {heap}
  /\ i' = IF valid[i] = "yes" THEN i + 1 ELSE i
  /\ UNCHANGED <<options, trace, ranges, hung, signals, record, range_set, heap, values, reads, results, fault>>

NextTrace_KeepsHeap ==
  /\ Goto("mem_deinit", "loop")
  /\ i' = i + 1
  /\ UNCHANGED <<options, trace, ranges, hung, signals, memory, reads, results, fault>>

NextTrace ==
  /\ Goto("mem_deinit", "loop")
  /\ mapped' = mapped \ {heap}
  /\ i' = i + 1
  /\ UNCHANGED <<options, trace, ranges, hung, signals, record, range_set, heap, values, reads, results, fault>>

-----------------------------------------------------------------------------
(* The alarm rings: the handler sets errors and jumps.  The jump lands     *)
(* where sigsetjmp returns, this time with 1, in the frame of run_tests.   *)
(* Landed_NotInvalid is a mutant that gives the trace no verdict,          *)
(* Timeout_Silent one that does not set errors.                            *)
InRunTests == pc \in {"loop", "mem_init", "new_range_set", "read_trace", "alarm", "sigsetjmp",
                      "reset1", "renew1", "valid1", "reset2", "renew2", "valid2", "onetime",
                      "ifvalid", "util", "speed", "new_values", "sample", "forget",
                      "free_trace", "free_tree", "free_ranges", "mem_deinit"}

CanLand == jmpbuf.set /\ InRunTests /\ i <= num_tracefiles

Landed_NotInvalid ==
  /\ pc' = "ifvalid"
  /\ trace' \in {trace, jmpbuf.trace} /\ ranges' \in {ranges, jmpbuf.ranges}
  /\ interrupted' = interrupted \cup {i}
  /\ UNCHANGED <<valid, fault>>

Landed ==
  /\ pc' = "ifvalid"
  /\ valid' = [valid EXCEPT ![i] = "no"]
  /\ trace' \in {trace, jmpbuf.trace} /\ ranges' \in {ranges, jmpbuf.ranges}
  /\ interrupted' = interrupted \cup {i}
  /\ UNCHANGED fault

Timeout_Silent ==
  /\ alarm /\ pc \notin Ended
  /\ alarm' = FALSE /\ hung' = FALSE /\ errors' = errors /\ rang' = rang \cup {pc}
  /\ IF CanLand
       THEN Landed
       ELSE Fault("bad_jump") /\ UNCHANGED <<trace, ranges, valid, interrupted>>
  /\ UNCHANGED <<options, i, jmpbuf, memory, reads, rated, measured, passes>>

Timeout ==
  /\ alarm /\ pc \notin Ended
  /\ alarm' = FALSE /\ hung' = FALSE /\ errors' = 1 /\ rang' = rang \cup {pc}
  /\ IF CanLand
       THEN Landed
       ELSE Fault("bad_jump") /\ UNCHANGED <<trace, ranges, valid, interrupted>>
  /\ UNCHANGED <<options, i, jmpbuf, memory, reads, rated, measured, passes>>

Step ==
  \/ Loop \/ MemInit \/ NewRangeSet \/ ReadTrace \/ SetAlarm \/ SetJmp
  \/ ResetRanges \/ RenewRanges \/ ReplayOK \/ ReplayFails \/ ReplayHangs
  \/ OneTime \/ IfValid
  \/ Util \/ MeasuringFails \/ FreeOldValues \/ NewValues \/ FreeValues \/ ForgetValues
  \/ CleanUp \/ FreeRanges \/ NextTrace

Next == Step \/ Timeout

(* A program that is not hung goes on, and the kernel delivers the alarm.  *)
Spec == Init /\ [][Next]_vars /\ WF_vars(Step) /\ WF_vars(Timeout)

-----------------------------------------------------------------------------
(* Properties *)

AfterRun == {"returned", "printed"}

TypeOK ==
  /\ num_tracefiles \in Traces /\ set_timeout \in BOOLEAN /\ onetime_flag \in BOOLEAN
  /\ pc \in Ended \cup AfterRun \cup {"reference"} \/ InRunTests
  /\ i \in 1 .. num_tracefiles + 1
  /\ hung \in BOOLEAN /\ alarm \in BOOLEAN
  /\ jmpbuf \in [set : BOOLEAN, trace : 0 .. MaxTraces, ranges : 0 .. MaxTraces]
  /\ trace \in 0 .. MaxTraces /\ ranges \in 0 .. MaxTraces /\ heap \in 0 .. MaxTraces
  /\ record \in [Traces -> {"none", "live", "freed"}]
  /\ range_set \in [Traces -> {"none", "live", "torn", "freed"}]
  /\ reads \in [Traces -> 0 .. 1]
  /\ valid \in [Traces -> {"unset", "yes", "no"}]
  /\ passes \in [Traces -> 0 .. 2]
  /\ errors \in 0 .. MaxTraces + 1
  /\ values \in {"null", "live", "freed"}
  /\ mapped \subseteq Traces /\ rated \subseteq Traces /\ measured \subseteq Traces
  /\ interrupted \subseteq Traces
  /\ fault \in {"none", "double_free", "stale_tree", "stale_array", "bad_jump"}

(***************************************************************************)
(* A trace is called valid only after two replays without error, and never *)
(* if the alarm rang while it was the current one, wherever in the         *)
(* iteration that was.                                                     *)
(***************************************************************************)
ValidMeansReplayed ==
  \A k \in Traces :
    /\ valid[k] = "yes" => passes[k] = 2
    /\ k \in interrupted => valid[k] = "no"

(***************************************************************************)
(* A timeout costs no other trace its verdict: when run_tests has come to  *)
(* the end of the list, every trace has been read and judged, once.        *)
(***************************************************************************)
AllJudged ==
  (pc \in AfterRun /\ ~ onetime_flag) =>
    \A k \in 1 .. num_tracefiles : reads[k] = 1 /\ valid[k] # "unset"

(***************************************************************************)
(* With a timeout the driver ends although the allocator under test may    *)
(* hang, in any replay of any trace.                                       *)
(***************************************************************************)
TimeoutEndsRun == set_timeout ~> pc \in Ended

(***************************************************************************)
(* Each iteration gives back what it took, whatever timeouts there were:   *)
(* when run_tests returns, every trace record that was read is freed, and  *)
(* with -c alone one range set and one simulated heap are left, those of   *)
(* the trace it ran.                                                       *)
(***************************************************************************)
GivenBack ==
  pc \in AfterRun =>
    /\ \A k \in Traces : record[k] # "live"
    /\ \A k \in Traces : range_set[k] \in {"live", "torn"} => onetime_flag /\ k = i
    /\ \A k \in mapped : onetime_flag /\ k = i

(***************************************************************************)
(* Every fault goes back to an alarm at the wrong time, each kind to its   *)
(* own: an array freed twice to one between the free of the array and the  *)
(* assignment after it, in this measurement or an earlier one; a freed     *)
(* tree used to one while a tree was exchanged, or one that came late; a   *)
(* record freed twice or a bad jump only to one that came late, when the   *)
(* clean-up had begun, before the next sigsetjmp or after run_tests.       *)
(* Anywhere else the alarm does no harm: in a replay, between two, in the  *)
(* measurements but for the sampler's two windows.                         *)
(***************************************************************************)
ArrayGone == {"new_values", "forget"}
TreeGone == {"renew1", "renew2"}
Late == {"free_tree", "free_ranges", "mem_deinit", "loop", "mem_init", "new_range_set",
         "read_trace", "alarm", "sigsetjmp"} \cup AfterRun

OnlyIllTimedAlarmsHarm ==
  /\ fault = "stale_array" => rang \cap ArrayGone # {}
  /\ fault = "stale_tree" => rang \cap (TreeGone \cup Late) # {}
  /\ fault \in {"double_free", "bad_jump"} => rang \cap Late # {}

(***************************************************************************)
(* As free_trace's comment says it, what it frees was allocated in         *)
(* read_trace: it is never called on a record that is not.                 *)
(***************************************************************************)
FreesOnlyLive == fault # "double_free"
=============================================================================
