----------------------------- MODULE MCTestRun ------------------------------
(* Instances of Driver for TLC: three default traces, so that an alarm can *)
(* come late from the first or the second, and command lines for fewer.    *)
EXTENDS Driver

Opt(o, a) == [opt |-> o, arg |-> a]

MCDefaultTracefiles == <<"a.rep", "b.rep", "c.rep">>

MCCommandLines ==
  {<<>>, <<Opt("s", 1)>>, <<Opt("v", 0), Opt("t", "traces/")>>,
   <<Opt("f", "a.rep"), Opt("s", 1), Opt("D", 0)>>,
   <<Opt("c", "a.rep")>>, <<Opt("c", "a.rep"), Opt("c", "b.rep"), Opt("s", 1)>>,
   <<Opt("V", 0), Opt("h", 0)>>}

MCCpuFiles == {<<>>, <<<<"processor", 0>>, <<"modelname", "cpu">>>>}

MCThroughputFiles ==
  {<<>>, <<<<"cpu", "checkpoint", 500>>, <<"comment">>, <<"cpu", "regular", 1000>>>>}

Trace(weight, ops, util, msecs) ==
  [weight |-> weight, ops |-> ops, util |-> util, msecs |-> msecs]

(* Averages below every threshold, between them, exactly on one, and above *)
(* them all; every weight, traces that count for one average only, for     *)
(* none, and no time at all.                                               *)
MCMeasurements ==
  {<<Trace(WALL, 9000, 250, 900), Trace(WALL, 5000, 350, 900), Trace(WPERF, 100, 100, 100)>>,
   <<Trace(WALL, 9000, 650, 20), Trace(WUTIL, 5000, 600, 900), Trace(WPERF, 1000, 100, 5)>>,
   <<Trace(WALL, 5000, 400, 100), Trace(WALL, 9000, 400, 500), Trace(WALL, 4000, 400, 200)>>,
   <<Trace(WNONE, 5000, 100, 0), Trace(WUTIL, 100, 900, 9), Trace(WALL, 9000, 990, 1)>>,
   <<Trace(WPERF, 5000, 900, 0), Trace(WPERF, 100, 900, 0), Trace(WNONE, 9000, 900, 0)>>,
   <<Trace(WALL, 9000, 1000, 1), Trace(WALL, 9000, 900, 1), Trace(WALL, 9000, 800, 1)>>}
=============================================================================
