---------------------------- MODULE MCDllThreads ----------------------------
(* The main thread and two discovered threads over three table slots, so   *)
(* that the two can race for the last slots and overshoot the index.       *)
EXTENDS DllThreads
CONSTANTS t1, t2
MCOthers == {t1, t2}
=============================================================================
