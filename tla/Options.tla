------------------------------- MODULE Options -------------------------------
(***************************************************************************)
(* The command line of mdriver: main's loop over getopt's options, in      *)
(* their order, and the default traces when none was named.                *)
(*                                                                         *)
(* An option is a record [opt, arg].  The names of files and directories   *)
(* are values that are only compared; a number is its value.               *)
(***************************************************************************)
EXTENDS Integers, Sequences, SequencesExt

CONSTANTS
  TraceDir,            (* TRACEDIR, the directory of the default traces *)
  DefaultTracefiles    (* the names in DEFAULT_TRACEFILES               *)

ASSUME OptionsAssumption == DefaultTracefiles # <<>>

DBG_CHEAP     == 1
DBG_EXPENSIVE == 2
Here == "./"

NoOptions ==
  [tracefiles |-> <<>>, tracedir |-> TraceDir, onetime_flag |-> FALSE, run_libc |-> FALSE,
   verbose |-> 1, debug_mode |-> DBG_CHEAP, set_timeout |-> 0, tab_mode |-> FALSE,
   exited |-> FALSE]

add_tracefile(o, name) == [o EXCEPT !.tracefiles = Append(@, name), !.tracedir = Here]

(* One turn of the switch; -h and an unknown option end the program. *)
ReadOption(o, a) ==
  CASE o.exited      -> o
    [] a.opt = "f"   -> add_tracefile(o, a.arg)
    [] a.opt = "c"   -> [add_tracefile(o, a.arg) EXCEPT !.onetime_flag = TRUE]
    [] a.opt = "t"   -> IF Len(o.tracefiles) = 1 THEN o ELSE [o EXCEPT !.tracedir = a.arg]
    [] a.opt = "l"   -> [o EXCEPT !.run_libc = TRUE]
    [] a.opt = "V"   -> [o EXCEPT !.verbose = @ + 1]
    [] a.opt = "v"   -> [o EXCEPT !.verbose = a.arg]
    [] a.opt = "d"   -> [o EXCEPT !.debug_mode = a.arg]
    [] a.opt = "D"   -> [o EXCEPT !.debug_mode = DBG_EXPENSIVE]
    [] a.opt = "s"   -> [o EXCEPT !.set_timeout = a.arg]
    [] a.opt = "T"   -> [o EXCEPT !.tab_mode = TRUE]
    [] OTHER         -> [o EXCEPT !.exited = TRUE]

ReadOptions(args) ==
  LET o == FoldLeft(ReadOption, NoOptions, args)
  IN  IF o.tracefiles = <<>> THEN [o EXCEPT !.tracefiles = DefaultTracefiles] ELSE o
=============================================================================
