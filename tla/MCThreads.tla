----------------------------- MODULE MCThreads -----------------------------
(* Model-checking instance of Threads: the main thread, one worker and    *)
(* one foreign thread.                                                      *)
EXTENDS Threads, TLC

CONSTANTS w1, f1

MCWorkers == {w1}
MCForeign == {f1}
=============================================================================
