---------------------------- MODULE RecordOptions ----------------------------
(***************************************************************************)
(* What handle_record_cmd (src/src/ezcollect.cc) and the Recorder          *)
(* (src/src/record.cc) agree on: RecordCmd computes it, Recorder relies    *)
(* on it.                                                                  *)
(***************************************************************************)
EXTENDS Naturals

\* std::max<uint64_t>(1, n)
AtLeastOne(n) == IF n = 0 THEN 1 ELSE n

\* A process metric enables processes, a thread metric both, and -e names at
\* least one metric.  f is the number of callbacks by class.
Selected(f, cfg) ==
  /\ f.system + f.process + f.thread > 0
  /\ cfg.enable_process <=> f.process + f.thread > 0
  /\ cfg.enable_thread <=> f.thread > 0
=============================================================================
