----------------------------- MODULE MCMarkLock -----------------------------
(* Three threads on the mark lock: the collector and two mark helpers.     *)
EXTENDS MarkLock

CONSTANTS p1, p2, p3

MCProcs == {p1, p2, p3}
=============================================================================
