-------------------------------- MODULE Fcyc --------------------------------
(***************************************************************************)
(* fsec of fcyc.c (fcyc differs from it only in the clock): the K-best     *)
(* measurement of the time a function takes.  First the number of calls    *)
(* per sample is doubled until a sample takes long enough to be measured;  *)
(* then samples are taken until the K smallest agree within epsilon, or    *)
(* there are maxsamples of them.  Before each sample the cache is cleared  *)
(* if the caller wants it.                                                 *)
(*                                                                         *)
(* Times are integers, in a unit of the timer.  The alarm of run_tests can *)
(* jump out of fsec at any point and leaves its static variables as they   *)
(* are.  An array freed twice is a fault, and ends the program.            *)
(***************************************************************************)
EXTENDS Integers, SequencesExt

CONSTANTS
  Defaults,         (* the values of the parameters before any is set     *)
  Settings,         (* what the setters may be called with: <<name, value>> *)
  EpsNum, EpsDen,   (* epsilon = EpsNum / EpsDen                          *)
  Costs,            (* what one call of f may cost when its time is taken *)
  Times             (* the average times a sample may show                *)

Parameters ==
  [kbest : Nat \ {0}, maxsamples : Nat \ {0}, min_reps : Nat \ {0}, min_ticks : Nat,
   clear_cache : BOOLEAN, cache_bytes : Nat, cache_block : Nat]

ASSUME FcycAssumption ==
  /\ Defaults \in Parameters
  /\ Settings \subseteq
       ({"kbest", "maxsamples", "min_reps"} \X (Nat \ {0}))
       \cup ({"min_ticks", "cache_bytes", "cache_block"} \X Nat)
       \cup ({"clear_cache"} \X BOOLEAN)
  /\ EpsNum \in Nat /\ EpsDen \in Nat \ {0}
  /\ Costs \subseteq Nat \ {0} /\ Times \subseteq Nat

LONG == 8   (* sizeof(long int) *)

VARIABLES
  phase,         (* "idle", "calibrate", "renew" (init_sampler has freed  *)
                 (* the old array), "sample", "release" (the loop ended), *)
                 (* "forget" (the array is freed) or "done"               *)
  reps, sec,     (* fsec's local variables                                *)
  result,        (* what it returned last                                 *)
  param,         (* the static parameters                                 *)
  min_time,      (* the static threshold, 0 until the first call          *)
  cache_buf,     (* the bytes of the buffer read to clear the cache, or 0 *)
  values,        (* the static array, << >> when it is the null pointer   *)
  dangling,      (* values points to an array that was freed              *)
  samplecount,   (* the static count                                      *)
  taken,         (* the samples this call of fsec has added, in order     *)
  cut,           (* a call was abandoned with values dangling             *)
  fault          (* an array was freed twice                              *)

settings == <<param, min_time>>
array == <<values, dangling>>
vars == <<phase, reps, sec, result, settings, cache_buf, array, samplecount, taken, cut, fault>>

-----------------------------------------------------------------------------
(* The array with its last element, at pos, moved down to where it belongs. *)
(* InsertFrom_Once is a mutant that moves it one place at most.             *)
InsertFrom_Once(v, pos) ==
  IF pos > 1 /\ v[pos - 1] > v[pos]
  THEN [v EXCEPT ![pos - 1] = v[pos], ![pos] = v[pos - 1]]
  ELSE v

InsertFrom(v, pos) ==
  LET Step[p \in 1 .. pos] ==   (* the array after the moves down to p *)
        IF p = pos THEN v
        ELSE LET u == Step[p + 1]
             IN  IF u[p] > u[p + 1] THEN [u EXCEPT ![p] = u[p + 1], ![p + 1] = u[p]] ELSE u
  IN  Step[1]

add_sample(v, count, val) ==
  IF count < param.kbest THEN InsertFrom([v EXCEPT ![count + 1] = val], count + 1)
  ELSE IF val < v[param.kbest] THEN InsertFrom([v EXCEPT ![param.kbest] = val], param.kbest)
  ELSE v

(* has_converged_Early is a mutant that does not wait for kbest samples.   *)
has_converged_Early(v, count) == (EpsDen + EpsNum) * v[1] >= EpsDen * v[param.kbest]

has_converged(v, count) ==
  count >= param.kbest /\ (EpsDen + EpsNum) * v[1] >= EpsDen * v[param.kbest]

-----------------------------------------------------------------------------
Init ==
  /\ phase = "idle" /\ reps = 0 /\ sec = 0 /\ result = 0
  /\ param = Defaults /\ min_time = 0
  /\ cache_buf = 0
  /\ values = << >> /\ dangling = FALSE /\ samplecount = 0
  /\ taken = << >> /\ cut = FALSE /\ fault = FALSE

Outside == phase \in {"idle", "done"} /\ ~ fault

(* The setters.  Another size of the cache gives its buffer back.          *)
(* Set_KeepsBuffer is a mutant that does not.                              *)
Set_KeepsBuffer(name, value) ==
  /\ Outside
  /\ param' = [param EXCEPT ![name] = value]
  /\ UNCHANGED <<phase, reps, sec, result, min_time, cache_buf, array, samplecount, taken, cut, fault>>

Set(name, value) ==
  /\ Outside
  /\ param' = [param EXCEPT ![name] = value]
  /\ cache_buf' = IF param'.cache_bytes = param.cache_bytes THEN cache_buf ELSE 0
  /\ UNCHANGED <<phase, reps, sec, result, min_time, array, samplecount, taken, cut, fault>>

(* fsec begins; init_min_time takes the threshold from min_ticks once. *)
Call ==
  /\ Outside
  /\ phase' = "calibrate" /\ reps' = param.min_reps /\ sec' = 0
  /\ min_time' = IF min_time = 0 THEN param.min_ticks ELSE min_time
  /\ taken' = << >> /\ result' = 0
  /\ UNCHANGED <<param, cache_buf, array, samplecount, cut, fault>>

(* clear() if the caller wants it: its loop ends if it goes on by a word   *)
(* at least.                                                               *)
LoopEnds == param.clear_cache => param.cache_block \div LONG > 0

ClearCache ==
  /\ LoopEnds
  /\ cache_buf' = IF param.clear_cache /\ cache_buf = 0 THEN param.cache_bytes ELSE cache_buf

(* One turn of the first loop.  Calibrate_SameReps is a mutant that does   *)
(* not double the number of calls.                                         *)
Calibrate_SameReps ==
  /\ phase = "calibrate" /\ sec < min_time
  /\ ClearCache
  /\ \E cost \in Costs : sec' = reps * cost
  /\ UNCHANGED <<phase, reps, result, settings, array, samplecount, taken, cut, fault>>

Calibrate ==
  /\ phase = "calibrate" /\ sec < min_time
  /\ ClearCache
  /\ \E cost \in Costs : sec' = reps * cost
  /\ reps' = IF sec' < min_time THEN reps + reps ELSE reps
  /\ UNCHANGED <<phase, result, settings, array, samplecount, taken, cut, fault>>

(* init_sampler: the array that an earlier call left is freed, ...         *)
FreeOldValues ==
  /\ phase = "calibrate" /\ sec >= min_time
  /\ phase' = "renew"
  /\ dangling' = (values # << >>)
  /\ fault' = dangling
  /\ UNCHANGED <<reps, sec, result, settings, cache_buf, values, samplecount, taken, cut>>

(* ... and a new one made.                                                 *)
StartSampling ==
  /\ phase = "renew" /\ ~ fault
  /\ phase' = "sample"
  /\ values' = [k \in 1 .. param.kbest |-> 0] /\ dangling' = FALSE
  /\ samplecount' = 0
  /\ UNCHANGED <<reps, sec, result, settings, cache_buf, taken, cut, fault>>

(* One turn of the second loop: a sample in which the timer did not move   *)
(* is not added.                                                           *)
Sample(t) ==
  /\ phase = "sample"
  /\ ClearCache
  /\ sec' = t
  /\ values' = IF t > 0 THEN add_sample(values, samplecount, t) ELSE values
  /\ samplecount' = IF t > 0 THEN samplecount + 1 ELSE samplecount
  /\ taken' = IF t > 0 THEN Append(taken, t) ELSE taken
  /\ phase' = IF ~ has_converged(values', samplecount') /\ samplecount' < param.maxsamples
              THEN "sample" ELSE "release"
  /\ UNCHANGED <<reps, result, settings, dangling, cut, fault>>

(* result = values[0]; free(values) *)
Release ==
  /\ phase = "release"
  /\ phase' = "forget"
  /\ result' = values[1]
  /\ dangling' = TRUE
  /\ UNCHANGED <<reps, sec, settings, cache_buf, values, samplecount, taken, cut, fault>>

(* values = NULL; return result *)
Forget ==
  /\ phase = "forget"
  /\ phase' = "done" /\ reps' = 0 /\ sec' = 0
  /\ values' = << >> /\ dangling' = FALSE
  /\ UNCHANGED <<result, settings, cache_buf, samplecount, taken, cut, fault>>

(* siglongjmp from the alarm's handler. *)
Abandon ==
  /\ ~ Outside /\ ~ fault
  /\ phase' = "idle" /\ reps' = 0 /\ sec' = 0
  /\ taken' = << >> /\ result' = 0
  /\ cut' = (cut \/ dangling)
  /\ UNCHANGED <<settings, cache_buf, array, samplecount, fault>>

Run ==
  \/ Calibrate \/ FreeOldValues \/ StartSampling \/ Release \/ Forget
  \/ \E t \in Times : Sample(t)

Next == Call \/ (\E s \in Settings : Set(s[1], s[2])) \/ Run \/ Abandon

(* The measurement goes on, and the timer moves in some sample: the loop   *)
(* has no other bound on the samples it throws away.                       *)
Spec ==
  /\ Init /\ [][Next]_vars
  /\ WF_vars(Run)
  /\ SF_vars(\E t \in Times : t > 0 /\ Sample(t))

-----------------------------------------------------------------------------
(* Properties *)

(***************************************************************************)
(* The static pointers stay sound from call to call, whatever was set and  *)
(* wherever calls were abandoned: values is the null pointer or an array   *)
(* of its own, freed twice only if a call was cut off between a free and   *)
(* the assignment after it; the loop that clears the cache stays in a      *)
(* buffer of the size it believes it has.                                  *)
(***************************************************************************)
BuffersOwned ==
  /\ values \in Seq(Nat) /\ samplecount \in Nat /\ param \in Parameters
  /\ dangling /\ Outside => cut
  /\ fault => cut
  /\ phase \in {"sample", "release"} => ~ dangling /\ Len(values) = param.kbest
  /\ cache_buf \in {0, param.cache_bytes}

(* v[1], ..., v[n] are the n smallest elements of a sequence, each taken   *)
(* from it once, in ascending order.                                       *)
AreSmallest(v, n, seq) ==
  \E from \in Injection(1 .. n, DOMAIN seq) :
    /\ \A k \in 1 .. n : v[k] = seq[from[k]]
    /\ \A k, l \in 1 .. n : k < l => v[k] <= v[l]
    /\ \A m \in DOMAIN seq : (\A k \in 1 .. n : from[k] # m) => \A k \in 1 .. n : v[k] <= seq[m]

(***************************************************************************)
(* In a running or finished measurement the array holds the smallest       *)
(* samples of this call in ascending order, as many as there are up to     *)
(* kbest, even if an earlier call was abandoned halfway.                   *)
(***************************************************************************)
BestAreSmallest ==
  phase \in {"sample", "release"} =>
    /\ samplecount = Len(taken)
    /\ AreSmallest(values, IF samplecount < param.kbest THEN samplecount ELSE param.kbest, taken)

(***************************************************************************)
(* A measurement ends for a reason: either kbest samples lie within        *)
(* epsilon above the result, or maxsamples were taken.  The result is one  *)
(* of them, the smallest.                                                  *)
(***************************************************************************)
WithinEpsilon(t) == EpsDen * t <= (EpsDen + EpsNum) * result

ResultJustified ==
  phase = "forget" =>
    /\ \E k \in DOMAIN taken : taken[k] = result
    /\ \A k \in DOMAIN taken : result <= taken[k]
    /\ \/ Len(taken) = param.maxsamples
       \/ \E S \in SUBSET DOMAIN taken :
            Cardinality(S) = param.kbest /\ \A k \in S : WithinEpsilon(taken[k])

(***************************************************************************)
(* A measurement comes to an end, unless the alarm ends it, or an array    *)
(* was freed twice; the cache must be cleared by whole words.              *)
(***************************************************************************)
MeasurementEnds ==
  (phase = "calibrate" /\ LoopEnds) ~> (phase \in {"done", "idle"} \/ fault)
=============================================================================
