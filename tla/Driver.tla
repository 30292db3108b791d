------------------------------- MODULE Driver --------------------------------
(***************************************************************************)
(* mdriver.c's main around run_tests: the command line, the benchmark      *)
(* throughput, the tests, the printed results and the score.  An alarm set *)
(* in run_tests may still ring while the results are printed.              *)
(*                                                                         *)
(* What the tests measured is chosen when it is first read, in the report: *)
(* nothing before depends on it.  The comparison with the C library (-l)   *)
(* is in module LibcReplay.                                                *)
(***************************************************************************)
EXTENDS TestRun, Scoring, Options

CONSTANTS
  CommandLines,     (* the command lines main is started with              *)
  CpuFiles,         (* the contents of CPU_FILE, a sequence of lines, each *)
                    (* the sequence of its parts between colons; <<>> if   *)
                    (* there is no such file                               *)
  ThroughputFiles,  (* the contents of THROUGHPUT_FILE                     *)
  Measured,         (* what the reference driver may print                 *)
  Measurements      (* the traces' weights and numbers of operations, with *)
                    (* the utilizations and times measured for them        *)

ASSUME DriverAssumption ==
  /\ \A args \in CommandLines :
       Len(ReadOptions(args).tracefiles) \in Traces /\ ReadOptions(args).onetime_flag \in BOOLEAN
  /\ Measured \subseteq Nat \ {0}
  /\ Measurements \subseteq
       [Traces -> [weight : {WNONE, WALL, WUTIL, WPERF}, ops : Nat, util : 0 .. One, msecs : Nat]]

VARIABLES
  verbose,          (* the verbosity is above 0: results are printed *)
  ref_throughput,   (* the benchmark, in Kops; 0 before it is known  *)
  mm_stats,         (* weight, ops, util and msecs of every trace    *)
  sum_stats,        (* what printresults handed back                 *)
  score             (* what main computed last                       *)

reports == <<mm_stats, sum_stats, score>>
driver_vars == <<vars, verbose, ref_throughput, reports>>

NoStats == [weight |-> WNONE, ops |-> 0, util |-> 0, msecs |-> 0]
NotPrinted == [util |-> -1, tput |-> -1]
NoScore == ScoreOf([k \in {} |-> NoStats], {}, 0, 1, 1)

Ran == 1 .. num_tracefiles
Valid == {k \in Ran : valid[k] = "yes"}

-----------------------------------------------------------------------------
(* lookup_ref_throughput: the CPU type from the first line of CPU_FILE     *)
(* that starts with CPU_KEY, the throughput from the first line of         *)
(* THROUGHPUT_FILE for that type and BENCH_KEY; 0 if there is none.        *)
PLIMIT == 10

cparse(line) == SubSeq(line, 1, IF Len(line) < PLIMIT THEN Len(line) ELSE PLIMIT)

(* The first line of a file that has so many parts and passes a test *)
FirstLine(file, parts, Test(_)) ==
  LET found == SelectSeq(file, LAMBDA line : Len(cparse(line)) >= parts /\ Test(line))
  IN  IF found = <<>> THEN <<>> ELSE found[1]

LookupRefThroughput(cpu_file, throughput_file) ==
  LET cpu   == FirstLine(cpu_file, 2, LAMBDA line : line[1] = "modelname")
      bench == FirstLine(throughput_file, 3,
                         LAMBDA line : line[1] = cpu[2] /\ line[2] = "regular")
  IN  IF cpu = <<>> \/ bench = <<>> THEN 0 ELSE bench[3]

(* A throughput file holds numbers, in whole Kops here. *)
ASSUME ThroughputAssumption ==
  \A cpu_file \in CpuFiles, throughput_file \in ThroughputFiles :
    LookupRefThroughput(cpu_file, throughput_file) \in Nat

(* measure_ref_throughput: what was found if it is above 0, else what the  *)
(* reference driver prints; if it cannot be run the program exits.         *)
MeasureRefThroughput ==
  /\ pc = "reference"
  /\ \E cpu_file \in CpuFiles, throughput_file \in ThroughputFiles :
       LET ltput == LookupRefThroughput(cpu_file, throughput_file)
       IN  IF ltput > 0
             THEN pc' = "loop" /\ ref_throughput' = ltput
             ELSE \/ pc' = "loop" /\ ref_throughput' \in Measured
                  \/ pc' = "exit" /\ UNCHANGED ref_throughput
  /\ UNCHANGED <<options, locals, hung, signals, memory, reads, results, fault, verbose, reports>>

-----------------------------------------------------------------------------
(* What calloc, read_trace and the measurements left in mm_stats *)
StatsOf(k, m) ==
  IF reads[k] = 0 THEN NoStats
  ELSE [m[k] EXCEPT !.util = IF k \in rated THEN @ ELSE 0,
                    !.msecs = IF k \in measured THEN @ ELSE 0]

PrintResults ==
  /\ Goto("returned", "printed")
  /\ \E m \in Measurements : mm_stats' = [k \in Ran |-> StatsOf(k, m)]
  /\ sum_stats' = IF verbose /\ ~ onetime_flag THEN Summary(mm_stats', Valid, errors) ELSE sum_stats
  /\ UNCHANGED <<options, locals, hung, signals, memory, reads, results, fault, verbose,
                 ref_throughput, score>>

Score ==
  /\ Goto("printed", "exit")
  /\ score' = ScoreOf(mm_stats, Ran, Cardinality(Valid), errors, ref_throughput)
  /\ UNCHANGED <<options, locals, hung, signals, memory, reads, results, fault, verbose,
                 ref_throughput, mm_stats, sum_stats>>

DriverInit ==
  \E args \in CommandLines :
    LET o == ReadOptions(args)
    IN  /\ num_tracefiles = Len(o.tracefiles)
        /\ set_timeout = (o.set_timeout > 0)
        /\ onetime_flag = o.onetime_flag
        /\ verbose = (o.verbose > 0)
        /\ pc = IF o.exited THEN "exit" ELSE "reference"
        /\ NothingRun
        /\ ref_throughput = 0 /\ mm_stats = <<>> /\ sum_stats = NotPrinted /\ score = NoScore

MainStep ==
  \/ MeasureRefThroughput
  \/ Step /\ UNCHANGED <<verbose, ref_throughput, reports>>
  \/ PrintResults
  \/ Score

Ring == Timeout /\ UNCHANGED <<verbose, ref_throughput, reports>>

DriverNext == MainStep \/ Ring

DriverSpec ==
  DriverInit /\ [][DriverNext]_driver_vars /\ WF_driver_vars(MainStep) /\ WF_driver_vars(Ring)

-----------------------------------------------------------------------------
(***************************************************************************)
(* Points beyond the three for each correct trace are earned: there are    *)
(* some only if no error was counted, no alarm rang, and every trace was   *)
(* replayed twice without error and measured.  No checkpoint gives more    *)
(* than its points (if the traces' own three points do not).               *)
(***************************************************************************)
ScoreEarned ==
  /\ score.checkpoint1 > Base(Cardinality(Valid)) \/ score.checkpoint2 > 0 \/ score.final > 0 =>
       /\ errors = 0 /\ interrupted = {}
       /\ \A k \in Ran : valid[k] = "yes" /\ passes[k] = 2 /\ k \in measured
  /\ Base(num_tracefiles) <= Points =>
       \A p \in {score.checkpoint1, score.checkpoint2, score.final} : p \in 0 .. Points

(***************************************************************************)
(* The averages printed with the results, over the valid traces, are those *)
(* the score is computed from, over all traces.                            *)
(***************************************************************************)
ReportMatchesScore ==
  (sum_stats # NotPrinted /\ pc = "exit") =>
    sum_stats = [util |-> score.util, tput |-> score.tput]
=============================================================================
