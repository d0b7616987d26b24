------------------------------- MODULE Threads -------------------------------
(***************************************************************************)
(* The thread registry of win32_threads.c in its explicit mode             *)
(* (GC_win32_dll_threads = FALSE, GC_PTHREADS build): the GC_threads hash   *)
(* table under the allocation lock, thread creation, exit, join and detach, *)
(* the blocking brackets GC_do_blocking_inner / GC_call_with_gc_active, and *)
(* one collection by the thread holding the lock: GC_stop_world,           *)
(* GC_push_all_stacks (GC_push_stack_for per thread) and GC_start_world.    *)
(*                                                                         *)
(* Records are indexed by thread: Windows does not reuse a thread id while *)
(* a handle to the thread is open, and every record owns a handle          *)
(* duplicated at registration and closed only when the record is deleted.  *)
(*                                                                         *)
(* A thread's stack is a sequence of frames, depth 1 being the cold end    *)
(* (stack_end).  A depth stands for an address: depth k+1 is hotter than k. *)
(*   "gc"     managed code that may hold heap pointers                     *)
(*   "direct" GC_call_with_gc_active called outside GC_do_blocking         *)
(*   "ext"    the client function run by GC_do_blocking (no heap pointers) *)
(*   "sect"   the GC_call_with_gc_active frame holding a stack section     *)
(***************************************************************************)
EXTENDS Integers, Sequences, FiniteSets

CONSTANTS
  Main,      \* the thread that ran GC_thr_init (record first_thread)
  Workers,   \* threads created through GC_pthread_create
  Foreign,   \* threads created elsewhere that call GC_register_my_thread
  MaxDepth,  \* bound on the depth of a thread stack
  MaxGC,     \* bound on the number of collections
  NoThread   \* NO_THREAD: the allocation lock is free

Threads == {Main} \cup Workers \cup Foreign

ASSUME Main \notin Workers \cup Foreign /\ Workers \cap Foreign = {}
ASSUME MaxDepth \in Nat /\ MaxGC \in Nat /\ NoThread \notin Threads

Managed == {"gc", "direct"}
Flag == {"DETACHED", "FINISHED", "DO_BLOCKING", "IS_SUSPENDED"}

VARIABLES
  pc,         \* control point of each thread
  stack,      \* the thread's frames
  inTable,    \* the thread has a record linked in GC_threads
  flags,      \* the record's flags field
  stackPtr,   \* the record's stack_ptr (depth saved by GC_do_blocking)
  sects,      \* the traced_stack_sect chain, innermost last
  suspended,  \* the OS suspend state set by SuspendThread/ResumeThread
  lock,       \* holder of the allocation lock GC_allocate_ml
  gc,         \* the collection in progress: phase, initiator, in_thread_creation
  toVisit,    \* records GC_stop_world has still to look at
  gcCount,    \* collections started so far (bounded by MaxGC)
  creator,    \* the thread that called GC_pthread_create for a worker
  detachAttr, \* si->detached: the worker was created detached
  peer,       \* target of a GC_pthread_join / GC_pthread_detach in progress
  disposed    \* a join or detach has been called for the worker

vars == <<pc, stack, inTable, flags, stackPtr, sects, suspended, lock, gc,
          toVisit, gcCount, creator, detachAttr, peer, disposed>>

Top(t) == stack[t][Len(stack[t])]
Pop(s) == SubSeq(s, 1, Len(s) - 1)
LockFree == lock = NoThread
InGC(t) == gc.phase # "idle" /\ gc.by = t

(* A thread's own step: it is not frozen by SuspendThread and is not busy  *)
(* running a collection.                                                   *)
CanStep(t) == ~suspended[t] /\ ~InGC(t)

(* Flags set by the caller of GC_register_my_thread_inner: a worker is    *)
(* DETACHED when created detached; an explicitly registered thread always. *)
RegFlags(t) == IF t \in Foreign \/ (t \in Workers /\ detachAttr[t])
               THEN {"DETACHED"} ELSE {}

(* GC_delete_thread / GC_delete_gc_thread_no_free: unlink the record.     *)
Unlink(t) == /\ inTable' = [inTable EXCEPT ![t] = FALSE]
             /\ flags' = [flags EXCEPT ![t] = {}]

-----------------------------------------------------------------------------
(* Thread creation and registration.                                       *)

(* GC_pthread_create: allocate the start_info (under the allocation lock)  *)
(* and start the OS thread, which runs GC_pthread_start.                   *)
GC_pthread_create(j, t) ==
  /\ pc[j] = "running" /\ Top(j) \in Managed /\ LockFree
  /\ pc[t] = "unborn"
  /\ \E det \in BOOLEAN : detachAttr' = [detachAttr EXCEPT ![t] = det]
  /\ pc' = [pc EXCEPT ![t] = "starting"]
  /\ creator' = [creator EXCEPT ![t] = j]
  /\ UNCHANGED <<stack, inTable, flags, stackPtr, sects, suspended, lock, gc,
                 toVisit, gcCount, peer, disposed>>

(* A thread not created by the collector comes into existence.             *)
ForeignStart(t) ==
  /\ t \in Foreign /\ pc[t] = "unborn"
  /\ pc' = [pc EXCEPT ![t] = "unregistered"]
  /\ stack' = [stack EXCEPT ![t] = <<"gc">>]
  /\ UNCHANGED <<inTable, flags, stackPtr, sects, suspended, lock, gc,
                 toVisit, gcCount, creator, detachAttr, peer, disposed>>

(* The effect of GC_register_my_thread_inner (GC_new_thread links a new    *)
(* record at the head of its bucket, GC_record_stack_base) followed by the *)
(* caller's setting of DETACHED; fl is the flags table it starts from.     *)
LinkRecord(t, fl) ==
  /\ inTable' = [inTable EXCEPT ![t] = TRUE]
  /\ flags' = [fl EXCEPT ![t] = RegFlags(t)]
  /\ sects' = [sects EXCEPT ![t] = <<>>]
  /\ stack' = [stack EXCEPT ![t] = <<"gc">>]
  /\ pc' = [pc EXCEPT ![t] = "running"]

(* GC_pthread_start_inner: LOCK, GC_register_my_thread_inner, DETACHED if *)
(* si->detached, UNLOCK; then the start routine runs.                      *)
GC_pthread_start_inner(t) ==
  /\ pc[t] = "starting" /\ LockFree
  /\ LinkRecord(t, flags)
  /\ UNCHANGED <<stackPtr, suspended, lock, gc, toVisit, gcCount, creator,
                 detachAttr, peer, disposed>>

(* GC_register_my_thread: LOCK; a thread without a record gets a new one  *)
(* (DETACHED); one whose record is FINISHED revives it (GC_record_stack_   *)
(* base, FINISHED cleared, DETACHED kept); UNLOCK.  The GC_DUPLICATE       *)
(* answer to a running registered thread changes nothing.                   *)
GC_register_my_thread(t) ==
  /\ pc[t] = "unregistered" /\ LockFree /\ stack[t] = <<"gc">>
  /\ \/ /\ ~inTable[t]
        /\ LinkRecord(t, flags)
     \/ /\ inTable[t] /\ "FINISHED" \in flags[t]
        /\ flags' = [flags EXCEPT ![t] = @ \ {"FINISHED"}]
        /\ pc' = [pc EXCEPT ![t] = "running"]
        /\ UNCHANGED <<inTable, sects, stack>>
  /\ UNCHANGED <<stackPtr, suspended, lock, gc, toVisit, gcCount, creator,
                 detachAttr, peer, disposed>>

(* GC_unregister_my_thread (explicit mode): LOCK; GC_wait_for_gc_          *)
(* completion; a record that is not DETACHED is marked FINISHED, a         *)
(* DETACHED one is deleted; UNLOCK.  Only explicitly registered threads    *)
(* and the main thread may call it.                                        *)
GC_unregister_my_thread(t) ==
  /\ t \in {Main} \cup Foreign
  /\ pc[t] = "running" /\ stack[t] = <<"gc">> /\ LockFree
  /\ IF "DETACHED" \in flags[t]
       THEN Unlink(t)
       ELSE /\ flags' = [flags EXCEPT ![t] = @ \cup {"FINISHED"}]
            /\ UNCHANGED inTable
  /\ pc' = [pc EXCEPT ![t] = "unregistered"]
  /\ UNCHANGED <<stack, stackPtr, sects, suspended, lock, gc, toVisit,
                 gcCount, creator, detachAttr, peer, disposed>>

(* An unregistered foreign thread ends.                                    *)
ForeignExit(t) ==
  /\ t \in Foreign /\ pc[t] = "unregistered" /\ ~inTable[t]
  /\ pc' = [pc EXCEPT ![t] = "terminated"]
  /\ stack' = [stack EXCEPT ![t] = <<>>]
  /\ UNCHANGED <<inTable, flags, stackPtr, sects, suspended, lock, gc,
                 toVisit, gcCount, creator, detachAttr, peer, disposed>>

(* The start routine of a worker returns; GC_thread_exit_proc runs next.   *)
StartRoutineReturn(t) ==
  /\ t \in Workers /\ pc[t] = "running" /\ stack[t] = <<"gc">>
  /\ pc' = [pc EXCEPT ![t] = "exiting"]
  /\ UNCHANGED <<stack, inTable, flags, stackPtr, sects, suspended, lock, gc,
                 toVisit, gcCount, creator, detachAttr, peer, disposed>>

(* GC_thread_exit_proc: LOCK; GC_wait_for_gc_completion; a DETACHED record *)
(* is deleted, another is marked FINISHED to be freed by the join; UNLOCK. *)
(* The OS thread then terminates.                                          *)
(* Mutants of GC_thread_exit_proc: the DETACHED test ignored one way or   *)
(* the other.                                                               *)
ExitProcIgnoresDetached(t) ==
  /\ pc[t] = "exiting" /\ LockFree
  /\ flags' = [flags EXCEPT ![t] = @ \cup {"FINISHED"}]
  /\ pc' = [pc EXCEPT ![t] = "terminated"]
  /\ stack' = [stack EXCEPT ![t] = <<>>]
  /\ UNCHANGED <<inTable, stackPtr, sects, suspended, lock, gc, toVisit,
                 gcCount, creator, detachAttr, peer, disposed>>

ExitProcAlwaysDeletes(t) ==
  /\ pc[t] = "exiting" /\ LockFree
  /\ Unlink(t)
  /\ pc' = [pc EXCEPT ![t] = "terminated"]
  /\ stack' = [stack EXCEPT ![t] = <<>>]
  /\ UNCHANGED <<stackPtr, sects, suspended, lock, gc, toVisit, gcCount,
                 creator, detachAttr, peer, disposed>>

GC_thread_exit_proc(t) ==
  /\ pc[t] = "exiting" /\ LockFree
  /\ IF "DETACHED" \in flags[t]
       THEN Unlink(t)
       ELSE /\ flags' = [flags EXCEPT ![t] = @ \cup {"FINISHED"}]
            /\ UNCHANGED inTable
  /\ pc' = [pc EXCEPT ![t] = "terminated"]
  /\ stack' = [stack EXCEPT ![t] = <<>>]
  /\ UNCHANGED <<stackPtr, sects, suspended, lock, gc, toVisit, gcCount,
                 creator, detachAttr, peer, disposed>>

-----------------------------------------------------------------------------
(* Join and detach.  Both first spin on GC_lookup_by_pthread (which takes  *)
(* the lock) until the target has registered; the caller here is the      *)
(* creator of the target, so no two joins or detaches meet one thread.     *)

(* Mutant: the join remembers the wrong thread.                            *)
LookupRecordsCaller(j, t, next) ==
  /\ pc[j] = "running" /\ Top(j) \in Managed /\ LockFree
  /\ t \in Workers /\ creator[t] = j /\ ~detachAttr[t] /\ ~disposed[t]
  /\ inTable[t]
  /\ pc' = [pc EXCEPT ![j] = next]
  /\ peer' = [peer EXCEPT ![j] = j]
  /\ disposed' = [disposed EXCEPT ![t] = TRUE]
  /\ UNCHANGED <<stack, inTable, flags, stackPtr, sects, suspended, lock, gc,
                 toVisit, gcCount, creator, detachAttr>>

LookupByPthread(j, t, next) ==
  /\ pc[j] = "running" /\ Top(j) \in Managed /\ LockFree
  /\ t \in Workers /\ creator[t] = j /\ ~detachAttr[t] /\ ~disposed[t]
  /\ inTable[t]
  /\ pc' = [pc EXCEPT ![j] = next]
  /\ peer' = [peer EXCEPT ![j] = t]
  /\ disposed' = [disposed EXCEPT ![t] = TRUE]
  /\ UNCHANGED <<stack, inTable, flags, stackPtr, sects, suspended, lock, gc,
                 toVisit, gcCount, creator, detachAttr>>

(* GC_pthread_join: the lookup, then pthread_join, which returns once the  *)
(* target has terminated; then LOCK, a FINISHED record is deleted and     *)
(* freed, UNLOCK.                                                          *)
JoinLookup(j, t) == LookupByPthread(j, t, "joining")

GC_pthread_join(j) ==
  /\ pc[j] = "joining" /\ LockFree
  /\ pc[peer[j]] = "terminated"
  /\ IF "FINISHED" \in flags[peer[j]]
       THEN Unlink(peer[j])
       ELSE UNCHANGED <<inTable, flags>>
  /\ pc' = [pc EXCEPT ![j] = "running"]
  /\ peer' = [peer EXCEPT ![j] = NoThread]
  /\ UNCHANGED <<stack, stackPtr, sects, suspended, lock, gc, toVisit,
                 gcCount, creator, detachAttr, disposed>>

(* GC_pthread_detach: the lookup, pthread_detach, then LOCK, DETACHED is   *)
(* set and a record already FINISHED is deleted and freed, UNLOCK.         *)
DetachLookup(j, t) == LookupByPthread(j, t, "detaching")

(* Mutant: detach only sets DETACHED, never frees a FINISHED record.      *)
DetachNeverFrees(j) ==
  /\ pc[j] = "detaching" /\ LockFree
  /\ flags' = [flags EXCEPT ![peer[j]] = @ \cup {"DETACHED"}]
  /\ pc' = [pc EXCEPT ![j] = "running"]
  /\ peer' = [peer EXCEPT ![j] = NoThread]
  /\ UNCHANGED <<stack, inTable, stackPtr, sects, suspended, lock, gc,
                 toVisit, gcCount, creator, detachAttr, disposed>>

GC_pthread_detach(j) ==
  /\ pc[j] = "detaching" /\ LockFree
  /\ IF "FINISHED" \in flags[peer[j]]
       THEN Unlink(peer[j])
       ELSE /\ flags' = [flags EXCEPT ![peer[j]] = @ \cup {"DETACHED"}]
            /\ UNCHANGED inTable
  /\ pc' = [pc EXCEPT ![j] = "running"]
  /\ peer' = [peer EXCEPT ![j] = NoThread]
  /\ UNCHANGED <<stack, stackPtr, sects, suspended, lock, gc, toVisit,
                 gcCount, creator, detachAttr, disposed>>

-----------------------------------------------------------------------------
(* Blocking brackets.                                                      *)

(* GC_do_blocking_inner, up to the call of fn: LOCK; stack_ptr := the     *)
(* current sp; DO_BLOCKING set; UNLOCK; the client function starts.        *)
(* Mutant: stack_ptr saved one frame too cold (the caller's frame lost).  *)
DoBlockingEnterSpTooCold(t) ==
  /\ pc[t] = "running" /\ Top(t) \in Managed /\ LockFree
  /\ "DO_BLOCKING" \notin flags[t]
  /\ Len(stack[t]) < MaxDepth
  /\ stackPtr' = [stackPtr EXCEPT ![t] = Len(stack[t]) - 1]
  /\ flags' = [flags EXCEPT ![t] = @ \cup {"DO_BLOCKING"}]
  /\ stack' = [stack EXCEPT ![t] = Append(@, "ext")]
  /\ UNCHANGED <<pc, inTable, sects, suspended, lock, gc, toVisit, gcCount,
                 creator, detachAttr, peer, disposed>>

DoBlockingEnter(t) ==
  /\ pc[t] = "running" /\ Top(t) \in Managed /\ LockFree
  /\ "DO_BLOCKING" \notin flags[t]
  /\ Len(stack[t]) < MaxDepth
  /\ stackPtr' = [stackPtr EXCEPT ![t] = Len(stack[t])]
  /\ flags' = [flags EXCEPT ![t] = @ \cup {"DO_BLOCKING"}]
  /\ stack' = [stack EXCEPT ![t] = Append(@, "ext")]
  /\ UNCHANGED <<pc, inTable, sects, suspended, lock, gc, toVisit, gcCount,
                 creator, detachAttr, peer, disposed>>

(* The client function of GC_do_blocking returns (no lock needed).         *)
BlockingFnReturn(t) ==
  /\ pc[t] = "running" /\ Top(t) = "ext"
  /\ stack' = [stack EXCEPT ![t] = Pop(@)]
  /\ pc' = [pc EXCEPT ![t] = "leaving"]
  /\ UNCHANGED <<inTable, flags, stackPtr, sects, suspended, lock, gc,
                 toVisit, gcCount, creator, detachAttr, peer, disposed>>

(* GC_do_blocking_inner after fn: LOCK (blocks while the world is          *)
(* stopped); DO_BLOCKING cleared; UNLOCK.                                  *)
DoBlockingLeave(t) ==
  /\ pc[t] = "leaving" /\ LockFree
  /\ flags' = [flags EXCEPT ![t] = @ \ {"DO_BLOCKING"}]
  /\ pc' = [pc EXCEPT ![t] = "running"]
  /\ UNCHANGED <<stack, inTable, stackPtr, sects, suspended, lock, gc,
                 toVisit, gcCount, creator, detachAttr, peer, disposed>>

(* GC_call_with_gc_active from inside the client function of              *)
(* GC_do_blocking: LOCK; a new stack section saves stack_ptr and links to  *)
(* the previous traced_stack_sect; DO_BLOCKING cleared; UNLOCK; fn runs    *)
(* as managed code above the section.                                      *)
(* Mutant: the section is linked but DO_BLOCKING is left set.             *)
GcActiveEnterKeepsBlocking(t) ==
  /\ pc[t] = "running" /\ Top(t) = "ext" /\ LockFree
  /\ "DO_BLOCKING" \in flags[t]
  /\ Len(stack[t]) + 2 <= MaxDepth
  /\ sects' = [sects EXCEPT ![t] =
                 Append(@, [at |-> Len(stack[t]) + 1, saved |-> stackPtr[t]])]
  /\ stack' = [stack EXCEPT ![t] = @ \o <<"sect", "gc">>]
  /\ UNCHANGED <<pc, inTable, flags, stackPtr, suspended, lock, gc, toVisit,
                 gcCount, creator, detachAttr, peer, disposed>>

GcActiveEnter(t) ==
  /\ pc[t] = "running" /\ Top(t) = "ext" /\ LockFree
  /\ "DO_BLOCKING" \in flags[t]
  /\ Len(stack[t]) + 2 <= MaxDepth
  /\ sects' = [sects EXCEPT ![t] =
                 Append(@, [at |-> Len(stack[t]) + 1, saved |-> stackPtr[t]])]
  /\ flags' = [flags EXCEPT ![t] = @ \ {"DO_BLOCKING"}]
  /\ stack' = [stack EXCEPT ![t] = @ \o <<"sect", "gc">>]
  /\ UNCHANGED <<pc, inTable, stackPtr, suspended, lock, gc, toVisit,
                 gcCount, creator, detachAttr, peer, disposed>>

(* fn called by GC_call_with_gc_active returns into the section frame.     *)
GcActiveFnReturn(t) ==
  /\ pc[t] = "running" /\ Top(t) = "gc"
  /\ Len(stack[t]) >= 2 /\ stack[t][Len(stack[t]) - 1] = "sect"
  /\ stack' = [stack EXCEPT ![t] = Pop(@)]
  /\ pc' = [pc EXCEPT ![t] = "gcReturn"]
  /\ UNCHANGED <<inTable, flags, stackPtr, sects, suspended, lock, gc,
                 toVisit, gcCount, creator, detachAttr, peer, disposed>>

(* GC_call_with_gc_active after fn: LOCK; traced_stack_sect := prev;       *)
(* DO_BLOCKING set again; stack_ptr := the saved one; UNLOCK; back in the  *)
(* client function of GC_do_blocking.                                      *)
GcActiveLeave(t) ==
  /\ pc[t] = "gcReturn" /\ LockFree
  /\ sects' = [sects EXCEPT ![t] = Pop(@)]
  /\ flags' = [flags EXCEPT ![t] = @ \cup {"DO_BLOCKING"}]
  /\ stackPtr' = [stackPtr EXCEPT ![t] = sects[t][Len(sects[t])].saved]
  /\ stack' = [stack EXCEPT ![t] = Pop(@)]
  /\ pc' = [pc EXCEPT ![t] = "running"]
  /\ UNCHANGED <<inTable, suspended, lock, gc, toVisit, gcCount, creator,
                 detachAttr, peer, disposed>>

(* GC_call_with_gc_active outside GC_do_blocking: LOCK; DO_BLOCKING is    *)
(* clear, so UNLOCK and call fn directly.                                  *)
GcActiveDirect(t) ==
  /\ pc[t] = "running" /\ Top(t) \in Managed /\ LockFree
  /\ "DO_BLOCKING" \notin flags[t]
  /\ Len(stack[t]) < MaxDepth
  /\ stack' = [stack EXCEPT ![t] = Append(@, "direct")]
  /\ UNCHANGED <<pc, inTable, flags, stackPtr, sects, suspended, lock, gc,
                 toVisit, gcCount, creator, detachAttr, peer, disposed>>

GcActiveDirectReturn(t) ==
  /\ pc[t] = "running" /\ Top(t) = "direct"
  /\ stack' = [stack EXCEPT ![t] = Pop(@)]
  /\ UNCHANGED <<pc, inTable, flags, stackPtr, sects, suspended, lock, gc,
                 toVisit, gcCount, creator, detachAttr, peer, disposed>>

-----------------------------------------------------------------------------
(* The collection, run by the thread that holds the allocation lock.       *)

StartCollection(t, creating) ==
  /\ LockFree /\ gcCount < MaxGC
  /\ lock' = t
  /\ gc' = [phase |-> "stopping", by |-> t, creating |-> creating]
  /\ toVisit' = {r \in Threads : inTable[r]}
  /\ gcCount' = gcCount + 1
  /\ UNCHANGED <<pc, stack, inTable, flags, stackPtr, sects, suspended,
                 creator, detachAttr, peer, disposed>>

(* A registered thread allocates and the allocation collects: GC_stop_world *)
(* is entered with the allocation lock held.                               *)
CollectFromMutator(t) ==
  /\ pc[t] = "running" /\ Top(t) \in Managed
  /\ StartCollection(t, FALSE)

(* The allocation of the new record in GC_new_thread collects, with        *)
(* GC_in_thread_creation set by GC_register_my_thread_inner: the           *)
(* collecting thread has no record yet.                                    *)
(* Mutant: GC_in_thread_creation not set around GC_new_thread.            *)
CollectInCreationUnflagged(t) ==
  /\ \/ pc[t] = "starting"
     \/ pc[t] = "unregistered" /\ ~inTable[t]
  /\ StartCollection(t, FALSE)

CollectInThreadCreation(t) ==
  /\ \/ pc[t] = "starting"
     \/ pc[t] = "unregistered" /\ ~inTable[t]
  /\ StartCollection(t, TRUE)

(* GC_stop_world skips a record that is the caller's, FINISHED or in      *)
(* DO_BLOCKING; stack_end is never NULL for a linked record in this mode.  *)
ShouldSuspend(r) ==
  /\ r # gc.by
  /\ flags[r] \cap {"FINISHED", "DO_BLOCKING"} = {}

(* One iteration of the GC_threads loop of GC_stop_world: GC_suspend calls *)
(* SuspendThread and sets IS_SUSPENDED.  (Its GetExitCodeThread branch is *)
(* not reachable here: a linked record that is not FINISHED belongs to a   *)
(* live thread, since a thread leaves only through the lock.)              *)
StopWorldVisit(r) ==
  /\ gc.phase = "stopping" /\ r \in toVisit
  /\ IF ShouldSuspend(r)
       THEN /\ suspended' = [suspended EXCEPT ![r] = TRUE]
            /\ flags' = [flags EXCEPT ![r] = @ \cup {"IS_SUSPENDED"}]
       ELSE UNCHANGED <<suspended, flags>>
  /\ toVisit' = toVisit \ {r}
  /\ UNCHANGED <<pc, stack, inTable, stackPtr, sects, lock, gc, gcCount,
                 creator, detachAttr, peer, disposed>>

StopWorldDone ==
  /\ gc.phase = "stopping" /\ toVisit = {}
  /\ gc' = [gc EXCEPT !.phase = "stopped"]
  /\ UNCHANGED <<pc, stack, inTable, flags, stackPtr, sects, suspended, lock,
                 toVisit, gcCount, creator, detachAttr, peer, disposed>>

(* GC_push_all_stacks: pushes, for every linked record that is not        *)
(* FINISHED, the stack ranges computed below (Pushed) and aborts with      *)
(* "Collecting from unknown thread" if the caller's record was not among   *)
(* them outside thread creation (NoUnknownCollector states it never does). *)
PushAllStacks ==
  /\ gc.phase = "stopped"
  /\ gc' = [gc EXCEPT !.phase = "pushed"]
  /\ UNCHANGED <<pc, stack, inTable, flags, stackPtr, sects, suspended, lock,
                 toVisit, gcCount, creator, detachAttr, peer, disposed>>

(* GC_start_world: ResumeThread every record with IS_SUSPENDED and clear   *)
(* it; the collector then unlocks.  A collection from GC_new_thread        *)
(* returns into the registration, which links the record before UNLOCK.    *)
GC_start_world ==
  /\ gc.phase = "pushed"
  /\ suspended' = [r \in Threads |->
                     IF "IS_SUSPENDED" \in flags[r] THEN FALSE ELSE suspended[r]]
  /\ gc' = [phase |-> "idle", by |-> NoThread, creating |-> FALSE]
  /\ lock' = NoThread
  /\ LET resumed == [r \in Threads |-> flags[r] \ {"IS_SUSPENDED"}] IN
       IF gc.creating
         THEN LinkRecord(gc.by, resumed)
         ELSE /\ flags' = resumed
              /\ UNCHANGED <<pc, stack, inTable, sects>>
  /\ UNCHANGED <<stackPtr, toVisit, gcCount, creator, detachAttr, peer, disposed>>

-----------------------------------------------------------------------------
(* GC_thr_init has registered the main thread in first_thread.             *)
Init ==
  /\ pc = [t \in Threads |-> IF t = Main THEN "running" ELSE "unborn"]
  /\ stack = [t \in Threads |-> IF t = Main THEN <<"gc">> ELSE <<>>]
  /\ inTable = [t \in Threads |-> t = Main]
  /\ flags = [t \in Threads |-> {}]
  /\ stackPtr = [t \in Threads |-> 0]
  /\ sects = [t \in Threads |-> <<>>]
  /\ suspended = [t \in Threads |-> FALSE]
  /\ lock = NoThread
  /\ gc = [phase |-> "idle", by |-> NoThread, creating |-> FALSE]
  /\ toVisit = {}
  /\ gcCount = 0
  /\ creator = [t \in Threads |-> NoThread]
  /\ detachAttr = [t \in Threads |-> FALSE]
  /\ peer = [t \in Threads |-> NoThread]
  /\ disposed = [t \in Threads |-> FALSE]

ThreadStep(t) ==
  \/ \E w \in Workers : GC_pthread_create(t, w) \/ JoinLookup(t, w)
                        \/ DetachLookup(t, w)
  \/ ForeignStart(t) \/ GC_pthread_start_inner(t) \/ GC_register_my_thread(t)
  \/ GC_unregister_my_thread(t) \/ ForeignExit(t) \/ StartRoutineReturn(t)
  \/ GC_thread_exit_proc(t) \/ GC_pthread_join(t) \/ GC_pthread_detach(t)
  \/ DoBlockingEnter(t) \/ BlockingFnReturn(t) \/ DoBlockingLeave(t)
  \/ GcActiveEnter(t) \/ GcActiveFnReturn(t) \/ GcActiveLeave(t)
  \/ GcActiveDirect(t) \/ GcActiveDirectReturn(t)
  \/ CollectFromMutator(t) \/ CollectInThreadCreation(t)

CollectorStep ==
  \/ \E r \in Threads : StopWorldVisit(r)
  \/ StopWorldDone \/ PushAllStacks \/ GC_start_world

Next == (\E t \in Threads : CanStep(t) /\ ThreadStep(t)) \/ CollectorStep

(* The collecting thread runs to the end of the collection, and a thread  *)
(* in pthread_join or pthread_detach whose answer is available gets the    *)
(* allocation lock once it is free: the OS schedules every runnable        *)
(* thread.  Collections are bounded by MaxGC, so the lock is eventually    *)
(* free for good and weak fairness suffices.                               *)
Fairness ==
  /\ WF_vars(CollectorStep)
  /\ \A j \in Threads : WF_vars(CanStep(j) /\ GC_pthread_join(j))
  /\ \A j \in Threads : WF_vars(CanStep(j) /\ GC_pthread_detach(j))

Spec == Init /\ [][Next]_vars /\ Fairness

-----------------------------------------------------------------------------
(* Properties.                                                             *)

TypeOK ==
  /\ pc \in [Threads -> {"unborn", "starting", "unregistered", "running",
                         "leaving", "gcReturn", "joining", "detaching",
                         "exiting", "terminated"}]
  /\ stack \in [Threads -> Seq({"gc", "direct", "ext", "sect"})]
  /\ inTable \in [Threads -> BOOLEAN]
  /\ flags \in [Threads -> SUBSET Flag]
  /\ stackPtr \in [Threads -> 0..MaxDepth]
  /\ sects \in [Threads -> Seq([at : 1..MaxDepth, saved : 0..MaxDepth])]
  /\ suspended \in [Threads -> BOOLEAN]
  /\ lock \in Threads \cup {NoThread}
  /\ gc.phase \in {"idle", "stopping", "stopped", "pushed"}
  /\ toVisit \subseteq Threads
  /\ gcCount \in 0..MaxGC
  /\ peer \in [Threads -> Workers \cup {NoThread}]

(* The stack pointer GC_push_stack_for starts from: the caller's own sp,   *)
(* the saved stack_ptr of a thread in DO_BLOCKING, otherwise the sp of the *)
(* context of the suspended thread.                                        *)
ScanSp(t) ==
  IF t = gc.by THEN Len(stack[t])
  ELSE IF "DO_BLOCKING" \in flags[t] THEN stackPtr[t]
  ELSE Len(stack[t])

(* GC_push_all_stack_sections(sp, stack_end, traced_stack_sect): push     *)
(* [lo, sect) for each section from the innermost, continue from its       *)
(* saved_stack_ptr, and finally push [lo, stack_end).  In depths, [lo,     *)
(* sect) is the frames hotter than the section frame up to lo.             *)
RECURSIVE PushSections(_, _)
PushSections(lo, secs) ==
  IF secs = <<>> THEN 1..lo
  ELSE LET s == secs[Len(secs)]
       IN ((s.at + 1)..lo) \cup PushSections(s.saved, Pop(secs))

Pushed(t) == PushSections(ScanSp(t), sects[t])

(* GC_push_all_stacks visits the linked records that are not FINISHED.     *)
Scanned(t) == inTable[t] /\ "FINISHED" \notin flags[t]

(* A thread executing managed code, where heap pointers live in its       *)
(* registers and frames.                                                   *)
InManagedCode(t) ==
  /\ pc[t] \in {"running", "gcReturn", "joining", "detaching", "exiting"}
  /\ Top(t) \in Managed \cup {"sect"}

(* While the world is stopped, no thread other than the collector runs    *)
(* managed code: every such thread was suspended by GC_stop_world, and     *)
(* the ones it skipped (DO_BLOCKING, FINISHED) are in client code of a     *)
(* blocking call or unregistered.  It takes the blocking brackets and the  *)
(* lock discipline of every flag update to hold.                           *)
StoppedWorldQuiescent ==
  gc.phase = "stopped" =>
    \A t \in Threads \ {gc.by} : InManagedCode(t) => suspended[t]

(* Every frame of managed code of every registered thread lies in a range *)
(* that GC_push_all_stacks pushes: stack sections skip only the client     *)
(* frames of blocking calls.                                               *)
RootsComplete ==
  gc.phase = "stopped" =>
    \A t \in Threads :
      Scanned(t) =>
        {k \in 1..Len(stack[t]) : stack[t][k] \in Managed} \subseteq Pushed(t)

(* GC_push_all_stacks never aborts with "Collecting from unknown thread":  *)
(* the collector's record is scanned unless it is still being created.     *)
NoUnknownCollector ==
  gc.phase = "stopped" => gc.creating \/ Scanned(gc.by)

(* The registry holds one active record exactly for each live registered  *)
(* thread, and the record of a terminated thread stays only while it is    *)
(* FINISHED, not DETACHED, and waiting for its join.                       *)
RegistryMatchesLifecycle ==
  \A t \in Threads :
    /\ (inTable[t] /\ "FINISHED" \notin flags[t])
         <=> pc[t] \in {"running", "leaving", "gcReturn", "joining",
                        "detaching", "exiting"}
    /\ (pc[t] = "terminated" /\ inTable[t])
         => flags[t] = {"FINISHED"} /\ (disposed[t] => \E j \in Threads : peer[j] = t)

(* A join or detach never touches a freed record: from the lookup to the  *)
(* final LOCK, the record found stays linked.                              *)
NoUseAfterFree ==
  \A j \in Threads : pc[j] \in {"joining", "detaching"} => inTable[peer[j]]

(* Every terminated worker that was joined, detached or created detached  *)
(* eventually has its record deleted.                                      *)
ReclaimedEventually ==
  \A t \in Workers :
    (pc[t] = "terminated" /\ (disposed[t] \/ detachAttr[t])) ~> ~inTable[t]
=============================================================================
