------------------------------ MODULE MarkMutex ------------------------------
(***************************************************************************)
(* What the mark lock promises its users (GC_acquire_mark_lock /           *)
(* GC_release_mark_lock, used by GC_stop_world, the mark helpers and the   *)
(* free-list builders): at most one owner, and while some thread is trying *)
(* to acquire a lock nobody holds, some thread eventually gets it.         *)
(***************************************************************************)
CONSTANTS Procs, NoProc

VARIABLES owner,   \* the thread holding the lock, or NoProc
          trying   \* threads inside GC_acquire_mark_lock

vars == <<owner, trying>>

Init == owner = NoProc /\ trying = {}

Request(p) ==
  /\ p \notin trying /\ owner # p
  /\ trying' = trying \cup {p}
  /\ UNCHANGED owner

Acquire(p) ==
  /\ p \in trying /\ owner = NoProc
  /\ owner' = p
  /\ trying' = trying \ {p}

Release(p) ==
  /\ owner = p
  /\ owner' = NoProc
  /\ UNCHANGED trying

Next == \E p \in Procs : Request(p) \/ Acquire(p) \/ Release(p)

(* No deadlock: a free lock with threads waiting for it is taken.          *)
Spec == Init /\ [][Next]_vars /\ WF_vars(\E p \in Procs : Acquire(p))
=============================================================================
