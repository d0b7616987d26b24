---------------------------- MODULE Win32Create ----------------------------
(***************************************************************************)
(* Thread creation without pthreads and without DllMain (explicit mode):   *)
(* GC_CreateThread hands the child a win32_start_info block (psi) holding  *)
(* the start routine and the client's argument; the child, in              *)
(* GC_win32_start_inner, reads the block, registers itself, frees the      *)
(* block, runs the start routine and unregisters in a __finally block, or  *)
(* leaves through GC_ExitThread.  GC_beginthreadex and GC_endthreadex have *)
(* the same control as GC_CreateThread and GC_ExitThread.                  *)
(*                                                                         *)
(* A collection may run between any two steps.  It reclaims the client's   *)
(* argument unless a root reaches it: the block while it is allocated      *)
(* (uncollectable, so always traced), the creating thread until            *)
(* GC_CreateThread returns, or the child's stack, scanned only once the    *)
(* child is registered.  Every lock-protected operation (allocation,       *)
(* GC_free, registration, unregistration, a collection) is one atomic      *)
(* step, since each runs entirely under the allocation lock.               *)
(***************************************************************************)
EXTENDS Naturals

CONSTANTS
  Kids,      \* threads created through GC_CreateThread by the main thread
  NoKid,     \* no creation in progress
  MaxGC      \* bound on the number of collections

VARIABLES
  creating,    \* the child whose GC_CreateThread is in progress, or NoKid
  cstate,      \* creation of each child: "idle", "alloc" (psi held), "done"
  psi,         \* its win32_start_info block (see Block)
  arg,         \* the client's argument object: "live" or "reclaimed"
  parentRef,   \* the creating thread still holds the argument
  pc,          \* the child thread's position
  gotArg,      \* the child read a valid start_arg from psi
  registered,  \* the child has a record in GC_threads
  needToLock,  \* GC_need_to_lock
  gcCount

vars == <<creating, cstate, psi, arg, parentRef, pc, gotArg, registered,
          needToLock, gcCount>>

(* "none": not allocated; "uncoll"/"coll": allocated uncollectable or      *)
(* collectable; "freed": released by GC_free; "reclaimed": taken by a      *)
(* collection; "corrupt": GC_free applied to a block not allocated.        *)
Block == {"none", "uncoll", "coll", "freed", "reclaimed", "corrupt"}
Allocated(b) == b \in {"uncoll", "coll"}
ChildPc == {"none", "start", "register", "free", "run", "finally", "done",
            "aborted"}

(* GC_free of the block: releasing one that is not allocated corrupts the *)
(* heap.                                                                   *)
Free(b) == IF Allocated(b) THEN "freed" ELSE "corrupt"

Init ==
  /\ creating = NoKid
  /\ cstate = [c \in Kids |-> "idle"]
  /\ psi = [c \in Kids |-> "none"]
  /\ arg = [c \in Kids |-> "live"]
  /\ parentRef = [c \in Kids |-> TRUE]
  /\ pc = [c \in Kids |-> "none"]
  /\ gotArg = [c \in Kids |-> FALSE]
  /\ registered = [c \in Kids |-> FALSE]
  /\ needToLock \in BOOLEAN    \* TRUE after GC_allow_register_threads
  /\ gcCount = 0

Aborted == \E c \in Kids : pc[c] = "aborted"

-----------------------------------------------------------------------------
(* GC_CreateThread, parent side.                                           *)

(* Mutant: the block taken from the collectable heap (GC_malloc).          *)
StartInfoKindCollectable == "coll"

(* GC_malloc_uncollectable: the block is traced but never reclaimed.       *)
StartInfoKind == "uncoll"

(* GC_malloc_uncollectable of the block and the filling of its fields; on *)
(* allocation failure GC_CreateThread returns NULL and the client drops   *)
(* its argument.                                                           *)
CreateAlloc(c) ==
  /\ creating = NoKid /\ cstate[c] = "idle"
  /\ \/ /\ psi' = [psi EXCEPT ![c] = StartInfoKind]
        /\ cstate' = [cstate EXCEPT ![c] = "alloc"]
        /\ creating' = c
        /\ UNCHANGED parentRef
     \/ /\ cstate' = [cstate EXCEPT ![c] = "done"]
        /\ parentRef' = [parentRef EXCEPT ![c] = FALSE]
        /\ UNCHANGED <<psi, creating>>
  /\ UNCHANGED <<arg, pc, gotArg, registered, needToLock, gcCount>>

(* Mutants: the `0 == thread_h` test dropped, so the block is freed on     *)
(* success too; the GC_free dropped, so it is never freed on failure.      *)
FreeOnFailureAlways(ok, b) == Free(b)
FreeOnFailureNever(ok, b) == b

(* if (0 == thread_h) GC_free(psi)                                         *)
FreeOnFailure(ok, b) == IF ok THEN b ELSE Free(b)

(* set_need_to_lock, then CreateThread (ok: it succeeded) starting the     *)
(* child in GC_win32_start; on failure the block is freed.  GC_CreateThread *)
(* then returns and the client, in the worst case, drops its argument.     *)
CreateStart(c, ok) ==
  /\ creating = c /\ cstate[c] = "alloc"
  /\ needToLock' = TRUE
  /\ pc' = IF ok THEN [pc EXCEPT ![c] = "start"] ELSE pc
  /\ psi' = [psi EXCEPT ![c] = FreeOnFailure(ok, @)]
  /\ cstate' = [cstate EXCEPT ![c] = "done"]
  /\ creating' = NoKid
  /\ parentRef' = [parentRef EXCEPT ![c] = FALSE]
  /\ UNCHANGED <<arg, gotArg, registered, gcCount>>

-----------------------------------------------------------------------------
(* GC_win32_start_inner, child side.                                       *)

(* The child copies start_routine and start_arg out of the block into its *)
(* locals; a block already reclaimed yields garbage.                       *)
StartInnerRead(c) ==
  /\ pc[c] = "start"
  /\ gotArg' = [gotArg EXCEPT ![c] = Allocated(psi[c])]
  /\ pc' = [pc EXCEPT ![c] = "register"]
  /\ UNCHANGED <<creating, cstate, psi, arg, parentRef, registered, needToLock,
                 gcCount>>

(* GC_register_my_thread: ABORT unless GC_need_to_lock; then, under the    *)
(* lock (so after any collection in progress), a new record.               *)
GC_register_my_thread(c) ==
  /\ pc[c] = "register"
  /\ IF needToLock
     THEN /\ registered' = [registered EXCEPT ![c] = TRUE]
          /\ pc' = [pc EXCEPT ![c] = "free"]
     ELSE /\ pc' = [pc EXCEPT ![c] = "aborted"]
          /\ UNCHANGED registered
  /\ UNCHANGED <<creating, cstate, psi, arg, parentRef, gotArg, needToLock,
                 gcCount>>

(* GC_free(arg): the block is handed back; start_arg now lives only in the *)
(* child's locals.                                                         *)
FreeStartInfo(c) ==
  /\ pc[c] = "free"
  /\ psi' = [psi EXCEPT ![c] = Free(@)]
  /\ pc' = [pc EXCEPT ![c] = "run"]
  /\ UNCHANGED <<creating, cstate, arg, parentRef, gotArg, registered,
                 needToLock, gcCount>>

(* The start routine returns into the __finally block.                     *)
RoutineReturn(c) ==
  /\ pc[c] = "run"
  /\ pc' = [pc EXCEPT ![c] = "finally"]
  /\ UNCHANGED <<creating, cstate, psi, arg, parentRef, gotArg, registered,
                 needToLock, gcCount>>

(* GC_unregister_my_thread, explicit mode without pthreads: GC_delete_thread *)
(* of the caller's record under the lock.                                  *)
Unregister(c) == registered' = [registered EXCEPT ![c] = FALSE]

(* The __finally block: GC_unregister_my_thread, then the thread returns. *)
FinallyUnregister(c) ==
  /\ pc[c] = "finally"
  /\ Unregister(c)
  /\ pc' = [pc EXCEPT ![c] = "done"]
  /\ UNCHANGED <<creating, cstate, psi, arg, parentRef, gotArg, needToLock,
                 gcCount>>

(* Mutant: GC_ExitThread calling ExitThread without unregistering.         *)
GC_ExitThreadNoUnregister(c) ==
  /\ pc[c] = "run"
  /\ pc' = [pc EXCEPT ![c] = "done"]
  /\ UNCHANGED <<creating, cstate, psi, arg, parentRef, gotArg, registered,
                 needToLock, gcCount>>

(* GC_ExitThread (or GC_endthreadex) called by the start routine:          *)
(* GC_unregister_my_thread, then ExitThread, which runs no __finally block. *)
GC_ExitThread(c) ==
  /\ pc[c] = "run"
  /\ Unregister(c)
  /\ pc' = [pc EXCEPT ![c] = "done"]
  /\ UNCHANGED <<creating, cstate, psi, arg, parentRef, gotArg, needToLock,
                 gcCount>>

-----------------------------------------------------------------------------
(* A collection, with the world stopped under the allocation lock: the     *)
(* block is traced while it is uncollectable or held by the creating       *)
(* thread; the argument is kept if the block, the creating thread or a     *)
(* registered child's stack reaches it.                                    *)
BlockRooted(c) == psi[c] = "uncoll" \/ (psi[c] = "coll" /\ creating = c)

Collect ==
  /\ gcCount < MaxGC
  /\ psi' = [c \in Kids |-> IF psi[c] = "coll" /\ ~BlockRooted(c)
                            THEN "reclaimed" ELSE psi[c]]
  /\ arg' = [c \in Kids |->
               IF BlockRooted(c) \/ parentRef[c] \/ registered[c]
               THEN arg[c] ELSE "reclaimed"]
  /\ gcCount' = gcCount + 1
  /\ UNCHANGED <<creating, cstate, parentRef, pc, gotArg, registered,
                 needToLock>>

Parent == \E c \in Kids : CreateAlloc(c) \/ \E ok \in BOOLEAN : CreateStart(c, ok)

Child(c) ==
  \/ StartInnerRead(c) \/ GC_register_my_thread(c) \/ FreeStartInfo(c)
  \/ RoutineReturn(c) \/ FinallyUnregister(c) \/ GC_ExitThread(c)

(* The process aborted, or every creation returned and every child ended. *)
Terminated ==
  /\ \/ Aborted
     \/ \A c \in Kids : cstate[c] = "done" /\ pc[c] \in {"none", "done"}
  /\ UNCHANGED vars

Next ==
  \/ ~Aborted /\ (Parent \/ (\E c \in Kids : Child(c)) \/ Collect)
  \/ Terminated

(* The OS schedules every thread; the client's start routine is assumed to *)
(* return or call GC_ExitThread.  Collections need no fairness.            *)
Spec ==
  /\ Init /\ [][Next]_vars
  /\ WF_vars(~Aborted /\ Parent)
  /\ \A c \in Kids : WF_vars(~Aborted /\ Child(c))

-----------------------------------------------------------------------------
(* The start routine runs with the argument the client passed, still live: *)
(* the block and the argument survive every collection between             *)
(* GC_CreateThread returning and the child registering, and the argument   *)
(* survives the GC_free of the block (GC_win32_start_inner).               *)
ArgSafe == \A c \in Kids : pc[c] = "run" => gotArg[c] /\ arg[c] = "live"

(* The block is released once and only while allocated, by the child on   *)
(* success or by GC_CreateThread when CreateThread fails, never by both.   *)
NoHeapCorruption == \A c \in Kids : psi[c] # "corrupt"

(* Every thread started by GC_CreateThread ends with its record removed,   *)
(* whether its start routine returns (the __finally block) or calls        *)
(* GC_ExitThread.                                                          *)
ThreadCleanup ==
  \A c \in Kids : pc[c] = "start" ~> (pc[c] = "done" /\ ~registered[c])

(* Every uncollectable start block is eventually freed, on the success and *)
(* on the failure path of CreateThread.                                    *)
InfoReleased == \A c \in Kids : Allocated(psi[c]) ~> psi[c] = "freed"

====
