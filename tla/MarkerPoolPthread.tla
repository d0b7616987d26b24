-------------------------- MODULE MarkerPoolPthread --------------------------
(***************************************************************************)
(* The parallel-marker start-up of win32_threads.c built with              *)
(* GC_PTHREADS_PARAMARK: GC_start_mark_threads_inner re-initialising       *)
(* mark_cv, blocking signals, creating detached helpers with               *)
(* pthread_create until one fails and setting GC_markers_m1 to the number  *)
(* started; GC_mark_thread decrementing GC_fl_builder_count under          *)
(* mark_mutex and broadcasting builder_cv at 0; GC_wait_for_markers_init   *)
(* (mark.c) adding the number of markers and waiting in                    *)
(* GC_wait_for_reclaim; helpers idling in GC_wait_marker on mark_cv until  *)
(* GC_notify_all_marker.                                                   *)
(*                                                                         *)
(* mark_mutex is a pthread mutex, taken atomically.  pthread_cond_wait     *)
(* releases it and joins the condition's wait set in one step, may return  *)
(* spuriously, and re-acquires the mutex before returning; a broadcast     *)
(* wakes every thread of the wait set.  Process ids and GC_parallel are as *)
(* in MarkerPool.                                                          *)
(*                                                                         *)
(* The fork handlers (CAN_HANDLE_FORK) bracket a fork by a client thread,  *)
(* Forker: fork_prepare_proc takes the allocation lock, drains             *)
(* GC_wait_for_reclaim and takes mark_mutex; fork_parent_proc releases     *)
(* both; fork_child_proc releases them and turns parallel marking off,     *)
(* since no helper survives into the child.  As in ThreadsFork, the model  *)
(* follows one process, which after the fork is the parent or the child.   *)
(* The allocation lock is held by the starter (spc # "idle") or by the     *)
(* forker (fpc # "none").                                                  *)
(***************************************************************************)
EXTENDS Integers

CONSTANTS
  Available,  \* available_markers_m1, set by GC_thr_init
  MaxStarts,  \* bound on calls of GC_start_mark_threads_inner that start
  MaxRounds,  \* bound on calls of GC_notify_all_marker
  MaxSpurious,\* bound on spurious returns of pthread_cond_wait
  MaxForks    \* bound on forks

ASSUME Available \in Nat \ {0} /\ MaxStarts \in Nat /\ MaxRounds \in Nat
       /\ MaxSpurious \in Nat /\ MaxForks \in Nat

Markers == 1..Available
NoProc == -1
Forker == 0

VARIABLES
  markersM1,  \* GC_markers_m1
  idx,        \* the loop index i of GC_start_mark_threads_inner
  spc,        \* where the starting thread is
  starts,     \* starts so far
  count,      \* GC_fl_builder_count
  mpc,        \* where each marker is
  mlock,      \* holder of mark_mutex
  rounds,     \* GC_notify_all_marker calls so far
  cvLost,     \* mark_cv was re-initialised while a helper waited on it
  spurious,   \* spurious returns of pthread_cond_wait so far
  fpc,        \* where the forking thread is in the fork handlers
  forks       \* forks so far

vars == <<markersM1, idx, spc, starts, count, mpc, mlock, rounds, cvLost,
          spurious, fpc, forks>>

Init ==
  /\ markersM1 = 0
  /\ idx = 0
  /\ spc = "idle"
  /\ starts = 0
  /\ count = 0
  /\ mpc = [m \in Markers |-> "none"]
  /\ mlock = NoProc
  /\ rounds = 0
  /\ cvLost = FALSE
  /\ spurious = 0
  /\ fpc = "none"
  /\ forks = 0

Parallel == markersM1 # 0
MarkLockFree == mlock = NoProc

(* pthread_cond_broadcast(&builder_cv): the starter, if it waits in        *)
(* GC_wait_builder, leaves the wait set to re-acquire the mutex.           *)
BroadcastBuilder == spc' = IF spc = "reclaimWait" THEN "reclaim" ELSE spc

-----------------------------------------------------------------------------
(* Mutant: the "already started" test dropped.                             *)
StartUnguarded ==
  /\ spc = "idle" /\ fpc = "none" /\ starts < MaxStarts
  /\ cvLost' = (cvLost \/ \E m \in Markers : mpc[m] = "waiting")
  /\ \/ /\ markersM1' = 0
        /\ UNCHANGED <<idx, spc>>
     \/ /\ markersM1' = Available
        /\ idx' = 0
        /\ spc' = "spawn"
  /\ starts' = starts + 1
  /\ UNCHANGED <<count, mpc, mlock, rounds, spurious, fpc, forks>>

(* GC_start_mark_threads_inner up to the start loop: nothing if parallel   *)
(* marking is on; otherwise mark_cv is re-initialised (CAN_HANDLE_FORK),   *)
(* and either pthread_sigmask fails and GC_markers_m1 := 0 is returned     *)
(* with, or GC_markers_m1 := available_markers_m1.                          *)
StartMarkThreads ==
  /\ spc = "idle" /\ fpc = "none" /\ ~Parallel /\ starts < MaxStarts
  /\ cvLost' = (cvLost \/ \E m \in Markers : mpc[m] = "waiting")
  /\ \/ /\ markersM1' = 0
        /\ UNCHANGED <<idx, spc>>
     \/ /\ markersM1' = Available
        /\ idx' = 0
        /\ spc' = "spawn"
  /\ starts' = starts + 1
  /\ UNCHANGED <<count, mpc, mlock, rounds, spurious, fpc, forks>>

(* One iteration of the start loop: pthread_create starts marker idx, or  *)
(* fails, and GC_markers_m1 := i ends the loop.                            *)
SpawnMarker ==
  /\ spc = "spawn" /\ idx < markersM1
  /\ \/ /\ mpc' = [mpc EXCEPT ![idx + 1] = "init"]
        /\ idx' = idx + 1
        /\ UNCHANGED <<markersM1, spc>>
     \/ /\ markersM1' = idx
        /\ spc' = "init"
        /\ UNCHANGED <<mpc, idx>>
  /\ UNCHANGED <<starts, count, mlock, rounds, cvLost, spurious, fpc, forks>>

SpawnLoopDone ==
  /\ spc = "spawn" /\ idx = markersM1
  /\ spc' = "init"
  /\ UNCHANGED <<markersM1, idx, starts, count, mpc, mlock, rounds, cvLost,
                 spurious, fpc, forks>>

(* GC_wait_for_markers_init, as in MarkerPool.                             *)
WaitForMarkersInit ==
  /\ spc = "init"
  /\ IF markersM1 = 0
       THEN /\ spc' = "afterInit"
            /\ UNCHANGED count
       ELSE /\ MarkLockFree
            /\ count' = count + markersM1
            /\ spc' = IF count + markersM1 # 0 THEN "reclaim" ELSE "afterInit"
  /\ UNCHANGED <<markersM1, idx, starts, mpc, mlock, rounds, cvLost, spurious,
                 fpc, forks>>

(* GC_wait_for_reclaim: with mark_mutex held, leave if GC_fl_builder_count *)
(* is 0, else GC_wait_builder releases the mutex into builder_cv's wait    *)
(* set; on return the mutex is held again and the count re-tested.         *)
WaitForReclaim ==
  /\ spc = "reclaim" /\ MarkLockFree
  /\ spc' = IF count = 0 THEN "afterInit" ELSE "reclaimWait"
  /\ UNCHANGED <<markersM1, idx, starts, count, mpc, mlock, rounds, cvLost,
                 spurious, fpc, forks>>

(* pthread_cond_wait(&builder_cv) returns without a broadcast.             *)
SpuriousBuilderWake ==
  /\ spc = "reclaimWait" /\ spurious < MaxSpurious
  /\ spc' = "reclaim"
  /\ spurious' = spurious + 1
  /\ UNCHANGED <<markersM1, idx, starts, count, mpc, mlock, rounds, cvLost,
                 fpc, forks>>

(* The rest of GC_start_mark_threads_inner: the signal mask is restored.   *)
FinishStart ==
  /\ spc = "afterInit"
  /\ spc' = "idle"
  /\ UNCHANGED <<markersM1, idx, starts, count, mpc, mlock, rounds, cvLost,
                 spurious, fpc, forks>>

(* GC_notify_all_marker, by the collector (holding the allocation lock)    *)
(* with mark_mutex: pthread_cond_broadcast(&mark_cv).                      *)
NotifyAllMarker ==
  /\ spc = "idle" /\ fpc = "none" /\ Parallel /\ rounds < MaxRounds
  /\ MarkLockFree
  /\ mpc' = [m \in Markers |->
              IF mpc[m] = "waiting" THEN "reacquire" ELSE mpc[m]]
  /\ rounds' = rounds + 1
  /\ UNCHANGED <<markersM1, idx, spc, starts, count, mlock, cvLost, spurious,
                 fpc, forks>>

(* GC_mark_thread: GC_acquire_mark_lock; if (0 == --GC_fl_builder_count)   *)
(* GC_notify_all_builder; the mutex stays held into GC_help_marker.        *)
MarkerInit(m) ==
  /\ mpc[m] = "init" /\ MarkLockFree
  /\ mlock' = m
  /\ count' = count - 1
  /\ IF count - 1 = 0 THEN BroadcastBuilder ELSE UNCHANGED spc
  /\ mpc' = [mpc EXCEPT ![m] = "help"]
  /\ UNCHANGED <<markersM1, idx, starts, rounds, cvLost, spurious, fpc, forks>>

(* GC_help_marker finds no work and calls GC_wait_marker: pthread_cond_wait *)
(* (&mark_cv) releases the mutex into mark_cv's wait set.                  *)
MarkerWait(m) ==
  /\ mpc[m] = "help"
  /\ mlock' = NoProc
  /\ mpc' = [mpc EXCEPT ![m] = "waiting"]
  /\ UNCHANGED <<markersM1, idx, spc, starts, count, rounds, cvLost, spurious,
                 fpc, forks>>

(* pthread_cond_wait(&mark_cv) returns without a broadcast.                *)
SpuriousMarkerWake(m) ==
  /\ mpc[m] = "waiting" /\ spurious < MaxSpurious
  /\ mpc' = [mpc EXCEPT ![m] = "reacquire"]
  /\ spurious' = spurious + 1
  /\ UNCHANGED <<markersM1, idx, spc, starts, count, mlock, rounds, cvLost,
                 fpc, forks>>

(* pthread_cond_wait re-acquires mark_mutex before GC_wait_marker returns. *)
MarkerReacquire(m) ==
  /\ mpc[m] = "reacquire" /\ MarkLockFree
  /\ mlock' = m
  /\ mpc' = [mpc EXCEPT ![m] = "help"]
  /\ UNCHANGED <<markersM1, idx, spc, starts, count, rounds, cvLost, spurious,
                 fpc, forks>>

-----------------------------------------------------------------------------
(* fork_prepare_proc: LOCK.                                                *)
ForkPrepare ==
  /\ spc = "idle" /\ fpc = "none" /\ forks < MaxForks
  /\ fpc' = "locked"
  /\ forks' = forks + 1
  /\ UNCHANGED <<markersM1, idx, spc, starts, count, mpc, mlock, rounds,
                 cvLost, spurious>>

(* fork_prepare_proc, if GC_parallel: GC_wait_for_reclaim returns once     *)
(* GC_fl_builder_count is 0, then GC_acquire_mark_lock.                    *)
ForkPrepareMark ==
  /\ fpc = "locked"
  /\ IF Parallel THEN MarkLockFree /\ count = 0 /\ mlock' = Forker
                  ELSE UNCHANGED mlock
  /\ fpc' = "prepared"
  /\ UNCHANGED <<markersM1, idx, spc, starts, count, mpc, rounds, cvLost,
                 spurious, forks>>

(* fork_parent_proc: GC_release_mark_lock if GC_parallel, then UNLOCK.     *)
ForkParent ==
  /\ fpc = "prepared"
  /\ mlock' = IF Parallel THEN NoProc ELSE mlock
  /\ fpc' = "none"
  /\ UNCHANGED <<markersM1, idx, spc, starts, count, mpc, rounds, cvLost,
                 spurious, forks>>

(* Mutant of fork_child_proc: GC_parallel left on.                        *)
ForkChildKeepsParallel ==
  /\ fpc = "prepared"
  /\ mlock' = IF Parallel THEN NoProc ELSE mlock
  /\ mpc' = [m \in Markers |-> "none"]
  /\ fpc' = "none"
  /\ UNCHANGED <<markersM1, idx, spc, starts, count, rounds, cvLost,
                 spurious, forks>>

(* fork_child_proc: if GC_parallel, GC_release_mark_lock and GC_parallel   *)
(* := FALSE (GC_markers_m1 := 0); then GC_remove_all_threads_but_me (see   *)
(* ThreadsFork) and UNLOCK.  Only the forker exists in the child: no      *)
(* helper survives, wherever it was.                                       *)
ForkChild ==
  /\ fpc = "prepared"
  /\ IF Parallel THEN mlock' = NoProc /\ markersM1' = 0
                  ELSE UNCHANGED <<mlock, markersM1>>
  /\ mpc' = [m \in Markers |-> "none"]
  /\ fpc' = "none"
  /\ UNCHANGED <<idx, spc, starts, count, rounds, cvLost, spurious, forks>>

ForkStep == ForkPrepareMark \/ ForkParent \/ ForkChild

MarkerStep(m) == MarkerInit(m) \/ MarkerWait(m) \/ MarkerReacquire(m)

StarterStep ==
  \/ SpawnMarker \/ SpawnLoopDone \/ WaitForMarkersInit \/ WaitForReclaim
  \/ FinishStart

Next ==
  \/ StartMarkThreads \/ NotifyAllMarker \/ StarterStep \/ SpuriousBuilderWake
  \/ ForkPrepare \/ ForkStep
  \/ \E m \in Markers : MarkerStep(m) \/ SpuriousMarkerWake(m)

(* Every started thread keeps being scheduled; a spurious return of        *)
(* pthread_cond_wait may happen, finitely often, but is never owed.  A     *)
(* fork, once prepared, is completed by the forking thread.                *)
Spec == Init /\ [][Next]_vars /\ WF_vars(StarterStep) /\ WF_vars(ForkStep)
          /\ \A m \in Markers : WF_vars(MarkerStep(m))

-----------------------------------------------------------------------------
TypeOK ==
  /\ markersM1 \in 0..Available /\ idx \in 0..Available
  /\ spc \in {"idle", "spawn", "init", "reclaim", "reclaimWait", "afterInit"}
  /\ count \in -Available..Available
  /\ mpc \in [Markers -> {"none", "init", "help", "waiting", "reacquire"}]
  /\ mlock \in Markers \cup {NoProc, Forker}
  /\ cvLost \in BOOLEAN
  /\ spurious \in 0..MaxSpurious
  /\ fpc \in {"none", "locked", "prepared"} /\ forks \in 0..MaxForks

(* GC_wait_for_markers_init returns only once every helper started has     *)
(* done its decrement and GC_fl_builder_count is back at 0, even when      *)
(* pthread_cond_wait(&builder_cv) returns spuriously.                      *)
StartedMarkersReady ==
  spc = "afterInit" =>
    /\ \A m \in 1..markersM1 : mpc[m] # "init"
    /\ count = 0

(* The re-initialisation of mark_cv at the start of                        *)
(* GC_start_mark_threads_inner never drops a helper waiting in             *)
(* GC_wait_marker: a start after a failed one (signal mask or the first    *)
(* pthread_create) finds no helper, and after a partly failed one          *)
(* GC_markers_m1 is not 0, so no start follows.                            *)
MarkCvResetSafe == ~cvLost

(* GC_parallel is on only while the helpers it counts exist: when the      *)
(* allocation lock is free, each of the GC_markers_m1 helpers has been     *)
(* started, also in the child of a fork, where none of the parent's       *)
(* helpers runs and a collection would otherwise hand mark work to        *)
(* threads that are gone.                                                  *)
HelpersExist ==
  spc = "idle" /\ fpc = "none" /\ Parallel =>
    \A m \in 1..markersM1 : mpc[m] # "none"

(* The starter leaves GC_start_mark_threads_inner: the builder_cv          *)
(* broadcast is made under mark_mutex, so it cannot fall between the       *)
(* starter's test of the count and its wait.                               *)
StartReturns == spc # "idle" ~> spc = "idle"
=============================================================================
