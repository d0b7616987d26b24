----------------------------- MODULE MarkerPool -----------------------------
(***************************************************************************)
(* The parallel-marker start-up of win32_threads.c (PARALLEL_MARK, Win32   *)
(* events): GC_start_mark_threads_inner creating the per-marker events,    *)
(* starting helpers with _beginthreadex until one fails, shrinking         *)
(* GC_markers_m1 and closing what is unused; GC_mark_thread decrementing   *)
(* GC_fl_builder_count; GC_wait_for_markers_init (mark.c) adding the      *)
(* number of markers and waiting in GC_wait_for_reclaim on the manual-     *)
(* reset builder_cv, woken by GC_notify_all_builder; and helpers idling in *)
(* GC_wait_marker until GC_notify_all_marker.                              *)
(*                                                                         *)
(* Thread 0 is the thread calling GC_start_mark_threads (it holds the      *)
(* allocation lock); marker m (1..Available) runs GC_mark_thread with id   *)
(* m - 1.  The mark lock is taken atomically, as the abstract MarkMutex    *)
(* that MarkLock refines.  GC_parallel is GC_markers_m1 # 0, as the        *)
(* comments beside GC_markers_m1 in GC_start_mark_threads_inner and        *)
(* fork_child_proc say.  ABORT ends the process: no step follows it.       *)
(***************************************************************************)
EXTENDS Integers

CONSTANTS
  Available,  \* available_markers_m1, set by GC_thr_init
  MaxStarts,  \* bound on calls of GC_start_mark_threads_inner that start
  MaxRounds   \* bound on calls of GC_notify_all_marker

ASSUME Available \in Nat \ {0} /\ MaxStarts \in Nat /\ MaxRounds \in Nat

Starter == 0
Markers == 1..Available
NoProc == -1

VARIABLES
  markersM1, \* GC_markers_m1
  idx,       \* the loop index i of GC_start_mark_threads_inner
  spc,       \* where the starting thread is
  starts,    \* starts so far
  cvOpen,    \* GC_marker_cv[m - 1] is an open event handle
  cvSet,     \* GC_marker_cv[m - 1] is signalled
  shared,    \* mark_cv, builder_cv and mark_mutex_event are open
  builderCv, \* builder_cv is signalled
  count,     \* GC_fl_builder_count
  mpc,       \* where each marker is
  mlock,     \* holder of the mark lock
  rounds,    \* GC_notify_all_marker calls so far
  aborted    \* the process called ABORT

vars == <<markersM1, idx, spc, starts, cvOpen, cvSet, shared, builderCv,
          count, mpc, mlock, rounds, aborted>>

(* GC_thr_init created the three shared events when Available > 0.        *)
Init ==
  /\ markersM1 = 0
  /\ idx = 0
  /\ spc = "idle"
  /\ starts = 0
  /\ cvOpen = [m \in Markers |-> FALSE]
  /\ cvSet = [m \in Markers |-> FALSE]
  /\ shared = TRUE
  /\ builderCv = FALSE
  /\ count = 0
  /\ mpc = [m \in Markers |-> "none"]
  /\ mlock = NoProc
  /\ rounds = 0
  /\ aborted = FALSE

Parallel == markersM1 # 0

Live == ~aborted
MarkLockFree == mlock = NoProc

-----------------------------------------------------------------------------
(* GC_start_mark_threads_inner, up to the start loop: nothing is done if   *)
(* parallel marking is on or unavailable; otherwise GC_markers_m1 :=        *)
(* available_markers_m1 and every GC_marker_cv[i] is created.              *)
StartMarkThreads ==
  /\ Live /\ spc = "idle" /\ ~Parallel /\ starts < MaxStarts
  /\ markersM1' = Available
  /\ cvOpen' = [m \in Markers |-> TRUE]
  /\ cvSet' = [m \in Markers |-> FALSE]
  /\ idx' = 0
  /\ spc' = "spawn"
  /\ starts' = starts + 1
  /\ UNCHANGED <<shared, builderCv, count, mpc, mlock, rounds, aborted>>

(* One iteration of the start loop: _beginthreadex succeeds and marker    *)
(* idx starts running GC_mark_thread, or it fails and the loop breaks.     *)
SpawnMarker ==
  /\ Live /\ spc = "spawn" /\ idx < markersM1
  /\ \/ /\ mpc' = [mpc EXCEPT ![idx + 1] = "init"]
        /\ idx' = idx + 1
        /\ UNCHANGED spc
     \/ /\ spc' = "shrink"
        /\ UNCHANGED <<mpc, idx>>
  /\ UNCHANGED <<markersM1, starts, cvOpen, cvSet, shared, builderCv, count,
                 mlock, rounds, aborted>>

SpawnLoopDone ==
  /\ Live /\ spc = "spawn" /\ idx = markersM1
  /\ spc' = "shrink"
  /\ UNCHANGED <<markersM1, idx, starts, cvOpen, cvSet, shared, builderCv,
                 count, mpc, mlock, rounds, aborted>>

(* Mutant: the event closed is the one at the old GC_markers_m1 index      *)
(* before the decrement.                                                   *)
ShrinkClosesLive ==
  /\ Live /\ spc = "shrink" /\ markersM1 > idx
  /\ markersM1' = markersM1 - 1
  /\ cvOpen' = [cvOpen EXCEPT ![markersM1 - 1] = FALSE]
  /\ UNCHANGED <<idx, spc, starts, cvSet, shared, builderCv, count, mpc,
                 mlock, rounds, aborted>>

(* Mutant: the loop test is made after the decrement (do ... while).      *)
ShrinkUnguarded ==
  /\ Live /\ spc = "shrink"
  /\ markersM1' = markersM1 - 1
  /\ cvOpen' = [cvOpen EXCEPT ![markersM1] = FALSE]
  /\ UNCHANGED <<idx, spc, starts, cvSet, shared, builderCv, count, mpc,
                 mlock, rounds, aborted>>

(* while (GC_markers_m1 > i) { GC_markers_m1--; CloseHandle(GC_marker_cv   *)
(* [GC_markers_m1]); }                                                     *)
Shrink ==
  /\ Live /\ spc = "shrink" /\ markersM1 > idx
  /\ markersM1' = markersM1 - 1
  /\ cvOpen' = [cvOpen EXCEPT ![markersM1] = FALSE]
  /\ UNCHANGED <<idx, spc, starts, cvSet, shared, builderCv, count, mpc,
                 mlock, rounds, aborted>>

(* Mutant: the count added leaves out one helper.                         *)
WaitForMarkersInitOffByOne ==
  /\ Live /\ spc = "shrink" /\ markersM1 = idx
  /\ IF markersM1 = 0
       THEN /\ spc' = "afterInit"
            /\ UNCHANGED count
       ELSE /\ MarkLockFree
            /\ count' = count + markersM1 - 1
            /\ spc' = IF count + markersM1 - 1 # 0 THEN "reclaim" ELSE "afterInit"
  /\ UNCHANGED <<markersM1, idx, starts, cvOpen, cvSet, shared, builderCv,
                 mpc, mlock, rounds, aborted>>

(* GC_wait_for_markers_init: nothing when no helper runs; otherwise, under *)
(* the mark lock, GC_fl_builder_count += GC_markers_m1, and a non-zero     *)
(* result sends the thread to GC_wait_for_reclaim.                         *)
WaitForMarkersInit ==
  /\ Live /\ spc = "shrink" /\ markersM1 = idx
  /\ IF markersM1 = 0
       THEN /\ spc' = "afterInit"
            /\ UNCHANGED count
       ELSE /\ MarkLockFree
            /\ count' = count + markersM1
            /\ spc' = IF count + markersM1 # 0 THEN "reclaim" ELSE "afterInit"
  /\ UNCHANGED <<markersM1, idx, starts, cvOpen, cvSet, shared, builderCv,
                 mpc, mlock, rounds, aborted>>

(* One iteration of GC_wait_for_reclaim under the mark lock: leave if     *)
(* GC_fl_builder_count is 0, else ResetEvent(builder_cv) and go to wait.   *)
WaitForReclaim ==
  /\ Live /\ spc = "reclaim" /\ MarkLockFree
  /\ IF count = 0
       THEN /\ spc' = "afterInit"
            /\ UNCHANGED <<builderCv, aborted>>
       ELSE IF ~shared
         THEN aborted' = TRUE /\ UNCHANGED <<spc, builderCv>>
         ELSE /\ builderCv' = FALSE
              /\ spc' = "reclaimWait"
              /\ UNCHANGED aborted
  /\ UNCHANGED <<markersM1, idx, starts, cvOpen, cvSet, shared, count, mpc,
                 mlock, rounds>>

(* WaitForSingleObject(builder_cv) returns.                                *)
ReclaimWake ==
  /\ Live /\ spc = "reclaimWait" /\ builderCv
  /\ spc' = "reclaim"
  /\ UNCHANGED <<markersM1, idx, starts, cvOpen, cvSet, shared, builderCv,
                 count, mpc, mlock, rounds, aborted>>

(* The end of GC_start_mark_threads_inner: if no helper was started,       *)
(* mark_cv, builder_cv and mark_mutex_event are closed.                    *)
FinishStart ==
  /\ Live /\ spc = "afterInit"
  /\ shared' = (shared /\ idx # 0)
  /\ spc' = "idle"
  /\ UNCHANGED <<markersM1, idx, starts, cvOpen, cvSet, builderCv, count, mpc,
                 mlock, rounds, aborted>>

(* GC_notify_all_marker, called with the mark lock held by a thread that   *)
(* is not a helper: SetEvent on every GC_marker_cv[i], i < GC_markers_m1.  *)
NotifyAllMarker ==
  /\ Live /\ spc = "idle" /\ Parallel /\ rounds < MaxRounds /\ MarkLockFree
  /\ IF \E m \in 1..markersM1 : ~cvOpen[m]
       THEN aborted' = TRUE /\ UNCHANGED cvSet
       ELSE /\ cvSet' = [m \in Markers |-> cvSet[m] \/ m <= markersM1]
            /\ UNCHANGED aborted
  /\ rounds' = rounds + 1
  /\ UNCHANGED <<markersM1, idx, spc, starts, cvOpen, shared, builderCv,
                 count, mpc, mlock>>

-----------------------------------------------------------------------------
(* Mutant: the zero test is made before the decrement.                     *)
MarkerInitTestsFirst(m) ==
  /\ Live /\ mpc[m] = "init" /\ MarkLockFree
  /\ mlock' = m
  /\ count' = count - 1
  /\ IF count = 0
       THEN IF shared THEN builderCv' = TRUE /\ UNCHANGED aborted
                      ELSE aborted' = TRUE /\ UNCHANGED builderCv
       ELSE UNCHANGED <<builderCv, aborted>>
  /\ mpc' = [mpc EXCEPT ![m] = "help"]
  /\ UNCHANGED <<markersM1, idx, spc, starts, cvOpen, cvSet, shared, rounds>>

(* GC_mark_thread: GC_acquire_mark_lock; if (0 == --GC_fl_builder_count)   *)
(* GC_notify_all_builder (SetEvent(builder_cv)); the lock stays held into  *)
(* GC_help_marker.                                                         *)
MarkerInit(m) ==
  /\ Live /\ mpc[m] = "init" /\ MarkLockFree
  /\ mlock' = m
  /\ count' = count - 1
  /\ IF count - 1 = 0
       THEN IF shared THEN builderCv' = TRUE /\ UNCHANGED aborted
                      ELSE aborted' = TRUE /\ UNCHANGED builderCv
       ELSE UNCHANGED <<builderCv, aborted>>
  /\ mpc' = [mpc EXCEPT ![m] = "help"]
  /\ UNCHANGED <<markersM1, idx, spc, starts, cvOpen, cvSet, shared, rounds>>

(* GC_help_marker finds no work and calls GC_wait_marker: the helper's own *)
(* event GC_marker_cv[m - 1] (found among the first GC_markers_m1 ids) is  *)
(* reset and the mark lock released.                                       *)
MarkerWait(m) ==
  /\ Live /\ mpc[m] = "help"
  /\ IF ~cvOpen[m]
       THEN aborted' = TRUE /\ UNCHANGED <<cvSet, mlock, mpc>>
       ELSE /\ cvSet' = [cvSet EXCEPT ![m] = FALSE]
            /\ mlock' = NoProc
            /\ mpc' = [mpc EXCEPT ![m] = "waiting"]
            /\ UNCHANGED aborted
  /\ UNCHANGED <<markersM1, idx, spc, starts, cvOpen, shared, builderCv, count,
                 rounds>>

(* WaitForSingleObject(event) returns in GC_wait_marker.                   *)
MarkerWake(m) ==
  /\ Live /\ mpc[m] = "waiting" /\ cvSet[m]
  /\ mpc' = [mpc EXCEPT ![m] = "reacquire"]
  /\ UNCHANGED <<markersM1, idx, spc, starts, cvOpen, cvSet, shared, builderCv,
                 count, mlock, rounds, aborted>>

(* GC_wait_marker ends with GC_acquire_mark_lock.                          *)
MarkerReacquire(m) ==
  /\ Live /\ mpc[m] = "reacquire" /\ MarkLockFree
  /\ mlock' = m
  /\ mpc' = [mpc EXCEPT ![m] = "help"]
  /\ UNCHANGED <<markersM1, idx, spc, starts, cvOpen, cvSet, shared, builderCv,
                 count, rounds, aborted>>

MarkerStep(m) ==
  MarkerInit(m) \/ MarkerWait(m) \/ MarkerWake(m) \/ MarkerReacquire(m)

StarterStep ==
  \/ SpawnMarker \/ SpawnLoopDone \/ Shrink \/ WaitForMarkersInit
  \/ WaitForReclaim \/ ReclaimWake \/ FinishStart

Next ==
  \/ StartMarkThreads \/ NotifyAllMarker \/ StarterStep
  \/ \E m \in Markers : MarkerStep(m)

(* Every started thread keeps being scheduled; starting the markers and    *)
(* the mark phases that notify them are up to the collector.               *)
Spec == Init /\ [][Next]_vars /\ WF_vars(StarterStep)
          /\ \A m \in Markers : WF_vars(MarkerStep(m))

-----------------------------------------------------------------------------
TypeOK ==
  /\ markersM1 \in 0..Available /\ idx \in 0..Available
  /\ spc \in {"idle", "spawn", "shrink", "reclaim", "reclaimWait", "afterInit"}
  /\ cvOpen \in [Markers -> BOOLEAN] /\ cvSet \in [Markers -> BOOLEAN]
  /\ count \in -Available..Available
  /\ mpc \in [Markers -> {"none", "init", "help", "waiting", "reacquire"}]
  /\ mlock \in Markers \cup {NoProc}

(* GC_wait_for_markers_init returns only once every helper that was       *)
(* started has done its decrement of GC_fl_builder_count, whichever of the *)
(* starter and the helpers got the mark lock first, and the count is back  *)
(* at 0.                                                                   *)
StartedMarkersReady ==
  spc = "afterInit" =>
    /\ \A m \in 1..markersM1 : mpc[m] # "init"
    /\ count = 0

(* The process never aborts on an event handle that start-up has closed:  *)
(* SetEvent, ResetEvent and WaitForSingleObject only see open handles.     *)
NoAbort == ~aborted

(* The starter leaves GC_start_mark_threads_inner: the builder broadcast   *)
(* is not lost, whatever the interleaving of ResetEvent and SetEvent.      *)
StartReturns == spc # "idle" ~> spc = "idle"
=============================================================================
