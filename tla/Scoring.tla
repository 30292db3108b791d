------------------------------- MODULE Scoring -------------------------------
(***************************************************************************)
(* The arithmetic of mdriver.c's main: the sums over the traces, the       *)
(* averages, and the points of the three checkpoints, with the thresholds  *)
(* of config.h; and printresults' sums, which the report shows.            *)
(*                                                                         *)
(* Numbers.  The code computes with doubles; here utilizations, parts of a *)
(* score and points are whole thousandths, times are milliseconds and a    *)
(* throughput is in Kops (operations per millisecond), all rounded down.   *)
(* The thresholds of a throughput are hundredths of the benchmark, so they *)
(* are given, and compared, in hundredths of Kops, and never rounded.      *)
(***************************************************************************)
EXTENDS Integers, FiniteSets, Functions

One == 1000   (* thousandths *)

(* weight_t *)
WNONE == 0
WALL  == 1
WUTIL == 2
WPERF == 3

CountsPerf(w) == w \in {WALL, WPERF}
CountsUtil(w) == w \in {WALL, WUTIL}

(* config.h: the points of a checkpoint, and UTIL_WEIGHT *)
Points == 100 * One
UtilWeight == 600

(* config.h and main: what a checkpoint requires, and the utilizations and *)
(* throughputs between which its points rise.  ref is the benchmark.       *)
Checkpoint2(ref) ==
  [req_space |-> 300, min_space |-> 400, max_space |-> 420,
   req_speed |-> 0,   min_speed |-> 0,   max_speed |-> 5 * ref]

Final(ref) ==
  [req_space |-> 400, min_space |-> 500, max_space |-> 740,
   req_speed |-> ref, min_speed |-> 30 * ref, max_speed |-> 90 * ref]

Met(target, util, tput) == util >= target.req_space /\ 100 * tput >= target.req_speed

(* score_component, for min < max *)
ScoreComponent(perf, min, max) ==
  IF perf < min THEN 0
  ELSE IF perf > max THEN One
  ELSE ((perf - min) * One) \div (max - min)

TargetPoints(target, util, tput) ==
  IF ~ Met(target, util, tput) THEN 0
  ELSE ((ScoreComponent(util, target.min_space, target.max_space) * UtilWeight
         + ScoreComponent(100 * tput, target.min_speed, target.max_speed) * (One - UtilWeight))
        * (Points \div One)) \div One

-----------------------------------------------------------------------------
(* stats[k], for k in a finite set ks of traces: what main and             *)
(* printresults read of a stats_t.                                         *)

Average(sum, n) == IF n = 0 THEN 0 ELSE sum \div n

(* secs = 0: no throughput *)
Rate(ops, msecs) == IF msecs = 0 THEN 0 ELSE ops \div msecs

PerfTraces(stats, ks) == {k \in ks : CountsPerf(stats[k].weight)}
UtilTraces(stats, ks) == {k \in ks : CountsUtil(stats[k].weight)}

AverageUtil(stats, ks) ==
  LET counted == UtilTraces(stats, ks)
  IN  Average(SumFunction([k \in counted |-> stats[k].util]), Cardinality(counted))

AverageThroughput(stats, ks) ==
  LET counted == PerfTraces(stats, ks)
  IN  Rate(SumFunction([k \in counted |-> stats[k].ops]),
           SumFunction([k \in counted |-> stats[k].msecs]))

(* Three points for every correct trace *)
Base(n) == 3 * One * n

(* main: the points for the averages util and tput, with no error *)
Earned(util, tput, numcorrect, numtraces, ref) ==
  [util |-> util, tput |-> tput,
   checkpoint1 |-> Base(numcorrect)
                   + (IF Met(Checkpoint2(ref), util, tput) THEN Points - Base(numtraces) ELSE 0),
   checkpoint2 |-> TargetPoints(Checkpoint2(ref), util, tput),
   final       |-> TargetPoints(Final(ref), util, tput)]

(* What main computes over every trace of ks *)
ScoreOf(stats, ks, numcorrect, errors, ref) ==
  IF errors = 0
    THEN Earned(AverageUtil(stats, ks), AverageThroughput(stats, ks),
                numcorrect, Cardinality(ks), ref)
    ELSE [util |-> 0, tput |-> 0, checkpoint1 |-> Base(numcorrect), checkpoint2 |-> 0, final |-> 0]

(* What printresults hands back, over the valid traces only.               *)
(* Summary_AllWeights is a mutant that averages over traces of any weight. *)
Summary_AllWeights(stats, valids, errors) ==
  IF errors = 0
    THEN [util |-> Average(SumFunction([k \in valids |-> stats[k].util]), Cardinality(valids)),
          tput |-> AverageThroughput(stats, valids)]
    ELSE [util |-> 0, tput |-> 0]

Summary(stats, valids, errors) ==
  IF errors = 0
    THEN [util |-> AverageUtil(stats, valids), tput |-> AverageThroughput(stats, valids)]
    ELSE [util |-> 0, tput |-> 0]
=============================================================================
