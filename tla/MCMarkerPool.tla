---------------------------- MODULE MCMarkerPool ----------------------------
(***************************************************************************)
(* The two builds of the marker pool, checked in one model: the build is   *)
(* chosen in Init from Builds, as the preprocessor chooses it, and never   *)
(* changes.  "win32" is MarkerPool (Win32 events), "pthread" is            *)
(* MarkerPoolPthread (GC_PTHREADS_PARAMARK).  The two share the variables  *)
(* of the start-up and the helpers; those of one build only are held at    *)
(* their initial values in the other.                                      *)
(***************************************************************************)
EXTENDS Integers

CONSTANTS
  Available,         \* available_markers_m1
  Builds,            \* the builds explored: a subset of {"win32", "pthread"}
  WinMaxStarts,      \* bound on starts in the Win32 build
  PthreadMaxStarts,  \* bound on starts in the pthread build
  MaxRounds,         \* bound on calls of GC_notify_all_marker
  MaxSpurious,       \* bound on spurious returns of pthread_cond_wait
  MaxForks           \* bound on forks, in the pthread build

VARIABLES
  build,
  markersM1, idx, spc, starts, count, mpc, mlock, rounds,  \* both builds
  cvOpen, cvSet, shared, builderCv, aborted,               \* Win32 events
  cvLost, spurious, fpc, forks                             \* pthreads

W == INSTANCE MarkerPool WITH MaxStarts <- WinMaxStarts
P == INSTANCE MarkerPoolPthread WITH MaxStarts <- PthreadMaxStarts

winOnly == <<cvOpen, cvSet, shared, builderCv, aborted>>
pthreadOnly == <<cvLost, spurious, fpc, forks>>
vars == <<build, markersM1, idx, spc, starts, count, mpc, mlock, rounds,
          cvOpen, cvSet, shared, builderCv, aborted, cvLost, spurious, fpc,
          forks>>

Init ==
  /\ build \in Builds
  /\ IF build = "win32"
       THEN /\ W!Init
            /\ cvLost = FALSE /\ spurious = 0 /\ fpc = "none" /\ forks = 0
       ELSE /\ P!Init
            /\ cvOpen = [m \in W!Markers |-> FALSE]
            /\ cvSet = [m \in W!Markers |-> FALSE]
            /\ shared = FALSE /\ builderCv = FALSE /\ aborted = FALSE

(* A step of one build, leaving the other's variables alone.               *)
WinStep(A) == build = "win32" /\ A /\ UNCHANGED <<build, pthreadOnly>>
PthreadStep(A) == build = "pthread" /\ A /\ UNCHANGED <<build, winOnly>>

(* The next-state relations of MarkerPool and MarkerPoolPthread, action   *)
(* by action, so that each is seen to fire.                                *)
WinNext ==
  \/ WinStep(W!StartMarkThreads) \/ WinStep(W!NotifyAllMarker)
  \/ WinStep(W!SpawnMarker) \/ WinStep(W!SpawnLoopDone) \/ WinStep(W!Shrink)
  \/ WinStep(W!WaitForMarkersInit) \/ WinStep(W!WaitForReclaim)
  \/ WinStep(W!ReclaimWake) \/ WinStep(W!FinishStart)
  \/ \E m \in W!Markers :
       \/ WinStep(W!MarkerInit(m)) \/ WinStep(W!MarkerWait(m))
       \/ WinStep(W!MarkerWake(m)) \/ WinStep(W!MarkerReacquire(m))

PthreadNext ==
  \/ PthreadStep(P!StartMarkThreads) \/ PthreadStep(P!NotifyAllMarker)
  \/ PthreadStep(P!SpawnMarker) \/ PthreadStep(P!SpawnLoopDone)
  \/ PthreadStep(P!WaitForMarkersInit) \/ PthreadStep(P!WaitForReclaim)
  \/ PthreadStep(P!SpuriousBuilderWake) \/ PthreadStep(P!FinishStart)
  \/ PthreadStep(P!ForkPrepare) \/ PthreadStep(P!ForkPrepareMark)
  \/ PthreadStep(P!ForkParent) \/ PthreadStep(P!ForkChild)
  \/ \E m \in P!Markers :
       \/ PthreadStep(P!MarkerInit(m)) \/ PthreadStep(P!MarkerWait(m))
       \/ PthreadStep(P!SpuriousMarkerWake(m))
       \/ PthreadStep(P!MarkerReacquire(m))

Next == WinNext \/ PthreadNext

Spec ==
  /\ Init /\ [][Next]_vars
  /\ WF_vars(WinStep(W!StarterStep)) /\ WF_vars(PthreadStep(P!StarterStep))
  /\ WF_vars(PthreadStep(P!ForkStep))
  /\ \A m \in W!Markers : /\ WF_vars(WinStep(W!MarkerStep(m)))
                          /\ WF_vars(PthreadStep(P!MarkerStep(m)))

-----------------------------------------------------------------------------
TypeOK ==
  /\ build \in Builds
  /\ IF build = "win32" THEN W!TypeOK ELSE P!TypeOK

(* In either build, GC_wait_for_markers_init returns only once every       *)
(* started helper has done its decrement and GC_fl_builder_count is 0.     *)
StartedMarkersReady ==
  IF build = "win32" THEN W!StartedMarkersReady ELSE P!StartedMarkersReady

(* The Win32 build never aborts on an event handle start-up has closed.    *)
NoAbort == W!NoAbort

(* The pthread build never re-initialises mark_cv under a waiting helper.  *)
MarkCvResetSafe == P!MarkCvResetSafe

(* In the pthread build GC_parallel is on only while its helpers exist,    *)
(* also in the child of a fork.                                            *)
HelpersExist == build = "pthread" => P!HelpersExist

(* In either build the starter leaves GC_start_mark_threads_inner.         *)
StartReturns == W!StartReturns /\ P!StartReturns
=============================================================================
