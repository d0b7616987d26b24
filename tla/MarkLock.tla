------------------------------ MODULE MarkLock ------------------------------
(***************************************************************************)
(* The Win32 mark lock of win32_threads.c (PARALLEL_MARK without          *)
(* GC_PTHREADS_PARAMARK): GC_mark_mutex_state, changed only by             *)
(* InterlockedExchange (0 unlocked, 1 locked, -1 locked and waiters may    *)
(* exist), and the auto-reset event mark_mutex_event.  Each interlocked    *)
(* exchange, SetEvent and return from WaitForSingleObject is one step.     *)
(* GC_mark_lock_holder is the GC_ASSERTIONS bookkeeping.                   *)
(***************************************************************************)
EXTENDS Integers

CONSTANTS Procs, NoProc

VARIABLES
  state,   \* GC_mark_mutex_state
  event,   \* mark_mutex_event is signalled
  holder,  \* GC_mark_lock_holder
  pc       \* where each thread is in acquire / release

vars == <<state, event, holder, pc>>

(* pc values: "idle" outside the lock; "acq" entering GC_acquire_mark_lock; *)
(* "slow" before an exchange of the retry loop; "wait" blocked in           *)
(* WaitForSingleObject; "cs" holding the lock; "rel" in                     *)
(* GC_release_mark_lock after UNSET_MARK_LOCK_HOLDER; "signal" about to     *)
(* call SetEvent.                                                           *)

Init ==
  /\ state = 0
  /\ event = FALSE
  /\ holder = NoProc
  /\ pc = [p \in Procs |-> "idle"]

(* A thread calls GC_acquire_mark_lock.                                    *)
CallAcquire(p) ==
  /\ pc[p] = "idle"
  /\ pc' = [pc EXCEPT ![p] = "acq"]
  /\ UNCHANGED <<state, event, holder>>

(* The thread has the lock: SET_MARK_LOCK_HOLDER.                          *)
Enter(p) ==
  /\ pc' = [pc EXCEPT ![p] = "cs"]
  /\ holder' = p

(* Mutant: the fast path treats "locked with waiters" as unlocked.        *)
AcquireFastSignTest(p) ==
  /\ pc[p] = "acq"
  /\ state' = 1
  /\ IF state <= 0 THEN Enter(p)
     ELSE pc' = [pc EXCEPT ![p] = "slow"] /\ UNCHANGED holder
  /\ UNCHANGED event

(* The first InterlockedExchange(&GC_mark_mutex_state, 1).                 *)
AcquireFast(p) ==
  /\ pc[p] = "acq"
  /\ state' = 1
  /\ IF state = 0 THEN Enter(p)
     ELSE pc' = [pc EXCEPT ![p] = "slow"] /\ UNCHANGED holder
  /\ UNCHANGED event

(* Mutants of the retry loop: it exchanges 1, so a waiter leaves no mark; *)
(* it decrements instead of exchanging.                                    *)
AcquireSlowNoWaiterMark(p) ==
  /\ pc[p] = "slow"
  /\ state' = 1
  /\ IF state = 0 THEN Enter(p)
     ELSE pc' = [pc EXCEPT ![p] = "wait"] /\ UNCHANGED holder
  /\ UNCHANGED event

AcquireSlowDecrements(p) ==
  /\ pc[p] = "slow"
  /\ state' = state - 1
  /\ IF state = 0 THEN Enter(p)
     ELSE pc' = [pc EXCEPT ![p] = "wait"] /\ UNCHANGED holder
  /\ UNCHANGED event

(* One InterlockedExchange(&GC_mark_mutex_state, -1) of the retry loop.    *)
AcquireSlow(p) ==
  /\ pc[p] = "slow"
  /\ state' = -1
  /\ IF state = 0 THEN Enter(p)
     ELSE pc' = [pc EXCEPT ![p] = "wait"] /\ UNCHANGED holder
  /\ UNCHANGED event

(* WaitForSingleObject(mark_mutex_event) returns, resetting the event.     *)
WaitReturn(p) ==
  /\ pc[p] = "wait" /\ event
  /\ event' = FALSE
  /\ pc' = [pc EXCEPT ![p] = "slow"]
  /\ UNCHANGED <<state, holder>>

(* GC_release_mark_lock: UNSET_MARK_LOCK_HOLDER.                           *)
UnsetHolder(p) ==
  /\ pc[p] = "cs"
  /\ holder' = NoProc
  /\ pc' = [pc EXCEPT ![p] = "rel"]
  /\ UNCHANGED <<state, event>>

(* InterlockedExchange(&GC_mark_mutex_state, 0); a negative old value      *)
(* means a waiter may exist and must be woken.                             *)
ReleaseExchange(p) ==
  /\ pc[p] = "rel"
  /\ state' = 0
  /\ pc' = [pc EXCEPT ![p] = IF state < 0 THEN "signal" ELSE "idle"]
  /\ UNCHANGED <<event, holder>>

(* SetEvent(mark_mutex_event).                                             *)
Signal(p) ==
  /\ pc[p] = "signal"
  /\ event' = TRUE
  /\ pc' = [pc EXCEPT ![p] = "idle"]
  /\ UNCHANGED <<state, holder>>

Step(p) ==
  \/ AcquireFast(p) \/ AcquireSlow(p) \/ WaitReturn(p)
  \/ UnsetHolder(p) \/ ReleaseExchange(p) \/ Signal(p)

Next == \E p \in Procs : CallAcquire(p) \/ Step(p)

(* Every thread that has called acquire or holds the lock keeps being      *)
(* scheduled; a thread may stay outside the lock for ever.                 *)
Spec == Init /\ [][Next]_vars /\ \A p \in Procs : WF_vars(Step(p))

-----------------------------------------------------------------------------
TypeOK ==
  /\ state \in {-1, 0, 1}
  /\ event \in BOOLEAN
  /\ holder \in Procs \cup {NoProc}
  /\ pc \in [Procs -> {"idle", "acq", "slow", "wait", "cs", "rel", "signal"}]

InLock(p) == pc[p] \in {"cs", "rel"}

(* At most one thread is between a successful exchange in                  *)
(* GC_acquire_mark_lock and the exchange of its GC_release_mark_lock, and  *)
(* the GC_ASSERTions on GC_mark_lock_holder in both functions hold.        *)
MutualExclusion ==
  /\ \A p, q \in Procs : InLock(p) /\ InLock(q) => p = q
  /\ \A p \in Procs : pc[p] = "cs" => holder = p

(* The refinement mapping: the owner is the thread between its successful  *)
(* exchange and its releasing exchange; the threads trying are those       *)
(* inside GC_acquire_mark_lock.                                            *)
Owner == IF \E p \in Procs : InLock(p)
         THEN CHOOSE p \in Procs : InLock(p) ELSE NoProc

Abstract == INSTANCE MarkMutex
              WITH owner <- Owner,
                   trying <- {p \in Procs : pc[p] \in {"acq", "slow", "wait"}}

(* The exchange protocol with the auto-reset event implements the mutex,   *)
(* no wakeup is lost: a waiter whose -1 is overwritten by the fast path of *)
(* another thread is still woken or overtaken.                             *)
ImplementsMarkMutex == Abstract!Spec
=============================================================================
