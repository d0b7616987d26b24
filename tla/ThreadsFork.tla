----------------------------- MODULE ThreadsFork -----------------------------
(***************************************************************************)
(* Fork handling of win32_threads.c (CAN_HANDLE_FORK) composed with the    *)
(* explicit-mode registry of Threads.  The atfork handlers (installed by   *)
(* GC_setup_atfork, or called by the client through GC_atfork_prepare,     *)
(* GC_atfork_parent and GC_atfork_child) bracket a fork by any thread:     *)
(* fork_prepare_proc takes the allocation lock, fork_parent_proc releases  *)
(* it, and fork_child_proc runs GC_remove_all_threads_but_me in the child. *)
(* The model follows one process: after the fork it continues either as   *)
(* the parent or as the child, in which only the forking thread exists.    *)
(* Parallel marking is off (GC_parallel FALSE), so the mark lock and       *)
(* GC_wait_for_reclaim are not involved.                                    *)
(***************************************************************************)
EXTENDS Threads

CONSTANT MaxFork   \* bound on the number of forks

VARIABLES
  forkBy,   \* the thread between fork_prepare_proc and its fork_*_proc
  forks,    \* forks so far
  crashed   \* the child dereferenced a NULL record at line 1000

fvars == <<vars, forkBy, forks, crashed>>

(* fork may be called from client code by a running registered thread,     *)
(* including inside the client function of GC_do_blocking, or by a thread  *)
(* that is not registered.                                                 *)
CanFork(t) ==
  \/ pc[t] = "running"
  \/ pc[t] = "unregistered" /\ stack[t] # <<>>

(* fork_prepare_proc: LOCK, then GC_wait_for_gc_completion(TRUE), which    *)
(* returns at once since a collection holds the lock.                      *)
fork_prepare_proc(t) ==
  /\ forkBy = NoThread /\ forks < MaxFork
  /\ CanFork(t) /\ LockFree
  /\ lock' = t
  /\ forkBy' = t
  /\ forks' = forks + 1
  /\ UNCHANGED <<pc, stack, inTable, flags, stackPtr, sects, suspended, gc,
                 toVisit, gcCount, creator, detachAttr, peer, disposed, crashed>>

(* fork_parent_proc: UNLOCK.                                               *)
fork_parent_proc ==
  /\ forkBy # NoThread
  /\ lock' = NoThread
  /\ forkBy' = NoThread
  /\ UNCHANGED <<pc, stack, inTable, flags, stackPtr, sects, suspended, gc,
                 toVisit, gcCount, creator, detachAttr, peer, disposed, forks,
                 crashed>>

(* Mutants of GC_remove_all_threads_but_me: the caller's record not put   *)
(* back into GC_threads; first_thread, which is never freed, left linked.  *)
RemoveAllButMeLosesMe(me) ==
  /\ inTable' = [r \in Threads |-> FALSE]
  /\ flags' = [r \in Threads |-> IF r = me THEN flags[me] ELSE {}]

RemoveAllButMeKeepsFirst(me) ==
  /\ inTable' = [r \in Threads |-> r = me \/ (r = Main /\ inTable[Main])]
  /\ flags' = [r \in Threads |-> IF r = me \/ r = Main THEN flags[r] ELSE {}]

(* The registry left by GC_remove_all_threads_but_me: every record is      *)
(* unlinked (and freed unless it is first_thread) except the first whose   *)
(* pthread_id is the caller's, which is linked again under the child's     *)
(* Win32 id with a newly duplicated handle.  Records are named by thread,  *)
(* so the new id and handle leave the caller's record as it is.            *)
GC_remove_all_threads_but_me(me) ==
  /\ inTable' = [r \in Threads |-> r = me]
  /\ flags' = [r \in Threads |-> IF r = me THEN flags[me] ELSE {}]

(* In the child only the forking thread runs; threads not yet started may  *)
(* still be created by it.  Joins and detaches issued in the parent do not *)
(* concern the child's copy of a thread.                                   *)
Survives(r) == r = forkBy \/ pc[r] = "unborn"

(* fork_child_proc with a record for the caller: GC_remove_all_threads_    *)
(* but_me, then UNLOCK.                                                     *)
fork_child_proc ==
  /\ forkBy # NoThread /\ inTable[forkBy]
  /\ GC_remove_all_threads_but_me(forkBy)
  /\ pc' = [r \in Threads |-> IF Survives(r) THEN pc[r] ELSE "terminated"]
  /\ stack' = [r \in Threads |-> IF Survives(r) THEN stack[r] ELSE <<>>]
  /\ sects' = [r \in Threads |-> IF Survives(r) THEN sects[r] ELSE <<>>]
  /\ peer' = [r \in Threads |-> IF r = forkBy THEN peer[r] ELSE NoThread]
  /\ disposed' = [r \in Threads |-> FALSE]
  /\ lock' = NoThread
  /\ forkBy' = NoThread
  /\ UNCHANGED <<stackPtr, suspended, gc, toVisit, gcCount, creator,
                 detachAttr, forks, crashed>>

(* fork_child_proc for a caller with no record: the loop finds no "me",    *)
(* GC_ASSERT(me != NULL) is compiled out, and me -> id = self_id writes    *)
(* through NULL: the child crashes.                                         *)
ForkChildNoRecord ==
  /\ forkBy # NoThread /\ ~inTable[forkBy]
  /\ crashed' = TRUE
  /\ forkBy' = NoThread
  /\ UNCHANGED <<vars, forks>>

FInit ==
  /\ Init
  /\ forkBy = NoThread
  /\ forks = 0
  /\ crashed = FALSE

(* The process crashed, or every thread has ended: nothing is left to run. *)
Halted ==
  /\ crashed \/ \A t \in Threads : pc[t] \in {"terminated", "unborn"}
  /\ UNCHANGED fvars

FNext ==
  \/ /\ ~crashed
     /\ \/ \E t \in Threads \ {forkBy} : CanStep(t) /\ ThreadStep(t)
        \/ CollectorStep
     /\ UNCHANGED <<forkBy, forks, crashed>>
  \/ ~crashed /\ \E t \in Threads : fork_prepare_proc(t)
  \/ fork_parent_proc
  \/ fork_child_proc
  \/ ForkChildNoRecord
  \/ Halted

FSpec == FInit /\ [][FNext]_fvars

-----------------------------------------------------------------------------
(* fork_child_proc never crashes: the forking thread always finds its own  *)
(* record in GC_remove_all_threads_but_me.                                 *)
NoForkCrash == ~crashed
====
