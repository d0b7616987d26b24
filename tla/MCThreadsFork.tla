---------------------------- MODULE MCThreadsFork ----------------------------
(* Model-checking instance of ThreadsFork: the main thread, one worker and *)
(* one foreign thread, with one fork.                                       *)
EXTENDS ThreadsFork, TLC

CONSTANTS w1, f1

MCWorkers == {w1}
MCForeign == {f1}
=============================================================================
