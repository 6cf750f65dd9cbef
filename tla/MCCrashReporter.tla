---------------------------- MODULE MCCrashReporter ----------------------------
(***************************************************************************)
(* The constants of the run of CrashReporter.                              *)
(***************************************************************************)
EXTENDS CrashReporter

CONSTANTS t1, t2, k1

MCThreads == {t1, t2}
MCKids    == {k1}
MCFlags   == {{}, {"setup_rootful"}, {"verbose"}}
AllFaults == {"exception", "objc", "handler", "step", "platform"}

===============================================================================
