----------------------------- MODULE DllThreads -----------------------------
(***************************************************************************)
(* Thread discovery mode of win32_threads.c (GC_win32_dll_threads): every *)
(* thread registers itself, lock-free, from GC_DllMain in the fixed array  *)
(* dll_thread_table, claiming a slot by InterlockedExchange on in_use and  *)
(* raising GC_max_thread_index by InterlockedIncrement; it deletes itself  *)
(* on DLL_THREAD_DETACH.  A collecting thread holds the allocation lock    *)
(* and runs GC_stop_world, GC_push_all_stacks, the marker's check of       *)
(* GC_attached_thread (mark.c, from the spec) and GC_start_world over the  *)
(* slots up to GC_get_max_thread_index(), concurrently with registrations  *)
(* and deletions.                                                          *)
(*                                                                         *)
(* A thread's handle is named by the thread: hOpen[t] says whether the     *)
(* handle duplicated at registration is still open.  osSusp is the OS      *)
(* suspend state.  Memory is sequentially consistent.  ABORT stops all.    *)
(***************************************************************************)
EXTENDS Integers, FiniteSets

CONSTANTS
  Main,        \* the thread that initialised the collector
  Others,      \* threads started later, discovered by GC_DllMain
  NoThread,    \* id 0, an unset handle
  MaxThreads,  \* MAX_THREADS, the size of dll_thread_table
  MaxGC        \* bound on collections

Threads == {Main} \cup Others
Slots == 0..(MaxThreads - 1)

VARIABLES
  pc,          \* where each thread is
  ci,          \* the slot index i of a registering or deleting thread
  inUse,       \* dll_thread_table[i].tm.in_use
  handle,      \* dll_thread_table[i].handle
  stackEnd,    \* dll_thread_table[i].stack_end # NULL
  id,          \* dll_thread_table[i].id
  susp,        \* IS_SUSPENDED in dll_thread_table[i].flags
  maxIdx,      \* GC_max_thread_index
  hOpen,       \* the thread's duplicated handle is open
  osSusp,      \* the thread is suspended by SuspendThread
  pleaseStop,  \* GC_please_stop
  attached,    \* GC_attached_thread
  announced,   \* the thread stored GC_attached_thread after the last reset
  phase,       \* where the collection is
  by,          \* the collecting thread
  myMax,       \* my_max of GC_stop_world
  si,          \* the loop index of GC_stop_world
  sh,          \* the handle GC_suspend works on
  pushed,      \* the ids whose stacks the last GC_push_all_stacks pushed
  gcCount,     \* collections so far
  aborted      \* the process called ABORT

vars == <<pc, ci, inUse, handle, stackEnd, id, susp, maxIdx, hOpen, osSusp,
          pleaseStop, attached, announced, phase, by, myMax, si, sh, pushed,
          gcCount, aborted>>
slotVars == <<inUse, handle, stackEnd, id, susp>>
gcVars == <<phase, by, myMax, si, sh, pushed, gcCount>>

(* GC_thr_init registered the main thread in slot 0.                       *)
Init ==
  /\ pc = [t \in Threads |-> IF t = Main THEN "running" ELSE "unborn"]
  /\ ci = [t \in Threads |-> 0]
  /\ inUse = [i \in Slots |-> i = 0]
  /\ handle = [i \in Slots |-> IF i = 0 THEN Main ELSE NoThread]
  /\ stackEnd = [i \in Slots |-> i = 0]
  /\ id = [i \in Slots |-> IF i = 0 THEN Main ELSE NoThread]
  /\ susp = [i \in Slots |-> FALSE]
  /\ maxIdx = 0
  /\ hOpen = [t \in Threads |-> t = Main]
  /\ osSusp = [t \in Threads |-> FALSE]
  /\ pleaseStop = FALSE
  /\ attached = FALSE
  /\ announced = [t \in Threads |-> FALSE]
  /\ phase = "idle" /\ by = NoThread /\ myMax = 0 /\ si = 0
  /\ sh = NoThread /\ pushed = {} /\ gcCount = 0
  /\ aborted = FALSE

Live == ~aborted

(* A thread runs only while it is not suspended.                           *)
CanStep(t) == Live /\ ~osSusp[t]

(* GC_get_max_thread_index: the index, clamped to the table.               *)
GetMaxThreadIndex == IF maxIdx >= MaxThreads THEN MaxThreads - 1 ELSE maxIdx

Goto(t, l) == pc' = [pc EXCEPT ![t] = l]

Abort == aborted' = TRUE

-----------------------------------------------------------------------------
(* GC_DllMain(DLL_THREAD_ATTACH) of an initialised collector calls         *)
(* GC_register_my_thread_inner: the claiming loop starts at slot 0.        *)
ThreadAttach(t) ==
  /\ pc[t] = "unborn"
  /\ Goto(t, "claim") /\ ci' = [ci EXCEPT ![t] = 0]
  /\ UNCHANGED <<slotVars, maxIdx, hOpen, osSusp, pleaseStop, attached,
                 announced, gcVars, aborted>>

(* One turn of the claiming loop: InterlockedExchange(&in_use, 1) returns  *)
(* 0 and the slot is ours, or the next slot is tried; "Too many threads"   *)
(* at the last slot.                                                       *)
Claim(t) ==
  /\ pc[t] = "claim"
  /\ inUse' = [inUse EXCEPT ![ci[t]] = TRUE]
  /\ IF ~inUse[ci[t]]
       THEN Goto(t, "raise") /\ UNCHANGED <<ci, aborted>>
     ELSE IF ci[t] = MaxThreads - 1
       THEN Abort /\ UNCHANGED <<pc, ci>>
     ELSE ci' = [ci EXCEPT ![t] = ci[t] + 1] /\ UNCHANGED <<pc, aborted>>
  /\ UNCHANGED <<handle, stackEnd, id, susp, maxIdx, hOpen, osSusp,
                 pleaseStop, attached, announced, gcVars>>

(* Mutant: the loop goes on while i >= GC_max_thread_index.               *)
RaiseTestGe(t) ==
  /\ pc[t] = "raise"
  /\ Goto(t, IF ci[t] >= maxIdx THEN "increment" ELSE "clamp")
  /\ UNCHANGED <<ci, slotVars, maxIdx, hOpen, osSusp, pleaseStop, attached,
                 announced, gcVars, aborted>>

(* while (i > GC_max_thread_index): the test.                              *)
RaiseTest(t) ==
  /\ pc[t] = "raise"
  /\ Goto(t, IF ci[t] > maxIdx THEN "increment" ELSE "clamp")
  /\ UNCHANGED <<ci, slotVars, maxIdx, hOpen, osSusp, pleaseStop, attached,
                 announced, gcVars, aborted>>

(* Mutant: the test is made once ("if" for "while").                       *)
RaiseIncrementOnce(t) ==
  /\ pc[t] = "increment"
  /\ maxIdx' = maxIdx + 1
  /\ Goto(t, "clamp")
  /\ UNCHANGED <<ci, slotVars, hOpen, osSusp, pleaseStop, attached,
                 announced, gcVars, aborted>>

(* InterlockedIncrement(&GC_max_thread_index), back to the test.           *)
RaiseIncrement(t) ==
  /\ pc[t] = "increment"
  /\ maxIdx' = maxIdx + 1
  /\ Goto(t, "raise")
  /\ UNCHANGED <<ci, slotVars, hOpen, osSusp, pleaseStop, attached,
                 announced, gcVars, aborted>>

(* An overshoot from simultaneous increments is set back to              *)
(* MAX_THREADS - 1.                                                        *)
Clamp(t) ==
  /\ pc[t] = "clamp"
  /\ maxIdx' = IF maxIdx >= MaxThreads THEN MaxThreads - 1 ELSE maxIdx
  /\ Goto(t, "record")
  /\ UNCHANGED <<ci, slotVars, hOpen, osSusp, pleaseStop, attached,
                 announced, gcVars, aborted>>

(* DuplicateHandle into me->handle, GC_record_stack_base (stack_end), and  *)
(* me->id = id: from here the slot is a valid thread.                      *)
Record(t) ==
  /\ pc[t] = "record"
  /\ handle' = [handle EXCEPT ![ci[t]] = t]
  /\ hOpen' = [hOpen EXCEPT ![t] = TRUE]
  /\ stackEnd' = [stackEnd EXCEPT ![ci[t]] = TRUE]
  /\ id' = [id EXCEPT ![ci[t]] = t]
  /\ Goto(t, "announce")
  /\ UNCHANGED <<ci, inUse, susp, maxIdx, osSusp, pleaseStop, attached,
                 announced, gcVars, aborted>>

(* if (GC_please_stop) AO_store(&GC_attached_thread, TRUE); then the       *)
(* thread leaves GC_DllMain and runs client code.                          *)
Announce(t) ==
  /\ pc[t] = "announce"
  /\ attached' = (attached \/ pleaseStop)
  /\ announced' = [announced EXCEPT ![t] = announced[t] \/ pleaseStop]
  /\ Goto(t, "running")
  /\ UNCHANGED <<ci, slotVars, maxIdx, hOpen, osSusp, pleaseStop, gcVars,
                 aborted>>

-----------------------------------------------------------------------------
(* GC_DllMain(DLL_THREAD_DETACH) calls GC_delete_thread: GC_lookup_thread  *)
(* finds the slot with our id among the first GC_get_max_thread_index()+1 *)
(* in use (a miss only warns), and GC_delete_gc_thread_no_free closes the  *)
(* handle first.                                                           *)
DetachClose(t) ==
  /\ pc[t] = "running" /\ t # Main
  /\ LET found == {i \in 0..GetMaxThreadIndex : inUse[i] /\ id[i] = t}
     IN IF found = {}
          THEN Goto(t, "gone") /\ UNCHANGED <<ci, hOpen>>
          ELSE /\ ci' = [ci EXCEPT ![t] = CHOOSE i \in found : TRUE]
               /\ hOpen' = [hOpen EXCEPT ![t] = FALSE]
               /\ Goto(t, "clearing")
  /\ UNCHANGED <<slotVars, maxIdx, osSusp, pleaseStop, attached, announced,
                 gcVars, aborted>>

(* stack_end = NULL; id = 0; flags = 0 (not IS_SUSPENDED).                 *)
DetachClear(t) ==
  /\ pc[t] = "clearing"
  /\ stackEnd' = [stackEnd EXCEPT ![ci[t]] = FALSE]
  /\ id' = [id EXCEPT ![ci[t]] = NoThread]
  /\ susp' = [susp EXCEPT ![ci[t]] = FALSE]
  /\ Goto(t, "releasing")
  /\ UNCHANGED <<ci, inUse, handle, maxIdx, hOpen, osSusp, pleaseStop,
                 attached, announced, gcVars, aborted>>

(* AO_store_release(&in_use, FALSE); the thread then ends.                 *)
DetachRelease(t) ==
  /\ pc[t] = "releasing"
  /\ inUse' = [inUse EXCEPT ![ci[t]] = FALSE]
  /\ Goto(t, "gone")
  /\ UNCHANGED <<ci, handle, stackEnd, id, susp, maxIdx, hOpen, osSusp,
                 pleaseStop, attached, announced, gcVars, aborted>>

(* TerminateThread: the thread ends without DLL_THREAD_DETACH, and its     *)
(* slot stays in use.                                                      *)
Terminate(t) ==
  /\ pc[t] = "running" /\ t # Main
  /\ Goto(t, "dead")
  /\ UNCHANGED <<ci, slotVars, maxIdx, hOpen, osSusp, pleaseStop, attached,
                 announced, gcVars, aborted>>

-----------------------------------------------------------------------------
(* A thread has ended: after DLL_THREAD_DETACH or by TerminateThread.      *)
Exited(t) == pc[t] \in {"gone", "dead"}

(* GC_delete_gc_thread_no_free on slot i by another thread.                *)
DeleteSlot(i) ==
  /\ hOpen' = [hOpen EXCEPT ![handle[i]] = FALSE]
  /\ stackEnd' = [stackEnd EXCEPT ![i] = FALSE]
  /\ id' = [id EXCEPT ![i] = NoThread]
  /\ susp' = [susp EXCEPT ![i] = FALSE]
  /\ inUse' = [inUse EXCEPT ![i] = FALSE]

(* A registered thread allocates and collects: it takes the allocation    *)
(* lock and GC_stop_world sets GC_please_stop.                             *)
StartCollection(t) ==
  /\ pc[t] = "running" /\ phase = "idle" /\ gcCount < MaxGC
  /\ Goto(t, "collecting")
  /\ by' = t /\ phase' = "clear" /\ gcCount' = gcCount + 1
  /\ pleaseStop' = TRUE
  /\ UNCHANGED <<ci, slotVars, maxIdx, hOpen, osSusp, attached, announced,
                 myMax, si, sh, pushed, aborted>>

(* AO_store(&GC_attached_thread, FALSE); my_max = GC_get_max_thread_index. *)
StopClear ==
  /\ phase = "clear"
  /\ attached' = FALSE
  /\ announced' = [t \in Threads |-> FALSE]
  /\ myMax' = GetMaxThreadIndex
  /\ si' = 0 /\ phase' = "visit"
  /\ UNCHANGED <<pc, ci, slotVars, maxIdx, hOpen, osSusp, pleaseStop, by, sh,
                 pushed, gcCount, aborted>>

(* Mutant: the loop ends one slot early (i < my_max).                      *)
StopDoneEarly ==
  /\ phase = "visit" /\ si >= myMax
  /\ phase' = "stopped"
  /\ UNCHANGED <<pc, ci, slotVars, maxIdx, hOpen, osSusp, pleaseStop,
                 attached, announced, by, myMax, si, sh, pushed, gcCount,
                 aborted>>

(* One turn of the loop of GC_stop_world: a slot with a stack, not ours,   *)
(* goes to GC_suspend.  No thread here is inside GC_do_blocking, so the    *)
(* DO_BLOCKING test always passes.                                         *)
StopVisit ==
  /\ phase = "visit" /\ si <= myMax
  /\ IF stackEnd[si] /\ id[si] # by
       THEN phase' = "check" /\ UNCHANGED si
       ELSE si' = si + 1 /\ UNCHANGED phase
  /\ UNCHANGED <<pc, ci, slotVars, maxIdx, hOpen, osSusp, pleaseStop,
                 attached, announced, by, myMax, sh, pushed, gcCount, aborted>>

StopDone ==
  /\ phase = "visit" /\ si > myMax
  /\ phase' = "stopped"
  /\ UNCHANGED <<pc, ci, slotVars, maxIdx, hOpen, osSusp, pleaseStop,
                 attached, announced, by, myMax, si, sh, pushed, gcCount,
                 aborted>>

(* GC_suspend: GetExitCodeThread(t->handle) says the thread has ended: the *)
(* slot is deleted; otherwise (or if the call fails on a closed handle)    *)
(* SuspendThread follows.                                                  *)
SuspendCheck ==
  /\ phase = "check"
  /\ LET h == handle[si] IN
       IF hOpen[h] /\ Exited(h)
         THEN /\ DeleteSlot(si)
              /\ si' = si + 1 /\ phase' = "visit"
              /\ UNCHANGED <<sh, handle>>
         ELSE /\ sh' = h /\ phase' = "suspend"
              /\ UNCHANGED <<si, slotVars, hOpen>>
  /\ UNCHANGED <<pc, ci, maxIdx, osSusp, pleaseStop, attached, announced, by,
                 myMax, pushed, gcCount, aborted>>

(* SuspendThread(t->handle); "SuspendThread failed" on a closed handle; on *)
(* a thread that has just ended it may fail or not.  Then                  *)
(* t->flags |= IS_SUSPENDED.                                               *)
SuspendDo ==
  /\ phase = "suspend"
  /\ \/ /\ ~hOpen[sh] \/ Exited(sh)
        /\ Abort
        /\ UNCHANGED <<susp, osSusp, si, phase>>
     \/ /\ hOpen[sh]
        /\ osSusp' = [osSusp EXCEPT ![sh] = ~Exited(sh)]
        /\ susp' = [susp EXCEPT ![si] = TRUE]
        /\ si' = si + 1 /\ phase' = "visit"
        /\ UNCHANGED aborted
  /\ UNCHANGED <<pc, ci, inUse, handle, stackEnd, id, maxIdx, hOpen,
                 pleaseStop, attached, announced, by, myMax, sh, pushed,
                 gcCount>>

(* GC_push_all_stacks: every slot up to GC_get_max_thread_index() in use   *)
(* with a stack is pushed; "Collecting from unknown thread" if the         *)
(* collector's own is not among them.                                      *)
PushAllStacks ==
  /\ phase = "stopped"
  /\ LET ids == {id[i] : i \in {j \in 0..GetMaxThreadIndex :
                                   inUse[j] /\ stackEnd[j]}}
     IN /\ pushed' = ids
        /\ IF by \in ids THEN phase' = "pushed" /\ UNCHANGED aborted
                         ELSE Abort /\ UNCHANGED phase
  /\ UNCHANGED <<pc, ci, slotVars, maxIdx, hOpen, osSusp, pleaseStop,
                 attached, announced, by, myMax, si, sh, gcCount>>

(* The marker asks GC_started_thread_while_stopped (mark.c): a thread      *)
(* attached since the reset makes marking restart from the roots.          *)
MarkCheck ==
  /\ phase = "pushed"
  /\ attached' = FALSE
  /\ phase' = IF attached THEN "stopped" ELSE "marked"
  /\ UNCHANGED <<pc, ci, slotVars, maxIdx, hOpen, osSusp, pleaseStop,
                 announced, by, myMax, si, sh, pushed, gcCount, aborted>>

(* Mutant: the resume loop stops below my_max.                            *)
StartWorldBelowMax ==
  /\ phase = "marked"
  /\ LET S == {i \in 0..(GetMaxThreadIndex - 1) : susp[i]}
     IN IF \E i \in S : ~hOpen[handle[i]]
          THEN Abort /\ UNCHANGED <<pc, susp, osSusp, pleaseStop, phase, by>>
          ELSE /\ osSusp' = [t \in Threads |->
                               osSusp[t] /\ ~\E i \in S : handle[i] = t]
               /\ susp' = [i \in Slots |-> susp[i] /\ i \notin S]
               /\ pleaseStop' = FALSE
               /\ Goto(by, "running")
               /\ phase' = "idle" /\ by' = NoThread
               /\ UNCHANGED aborted
  /\ UNCHANGED <<ci, inUse, handle, stackEnd, id, maxIdx, hOpen, attached,
                 announced, myMax, si, sh, pushed, gcCount>>

(* GC_start_world: ResumeThread on every slot up to                        *)
(* GC_get_max_thread_index() flagged IS_SUSPENDED, then                    *)
(* GC_please_stop = FALSE; the collector returns to client code.           *)
StartWorld ==
  /\ phase = "marked"
  /\ LET S == {i \in 0..GetMaxThreadIndex : susp[i]}
     IN IF \E i \in S : ~hOpen[handle[i]]
          THEN Abort /\ UNCHANGED <<pc, susp, osSusp, pleaseStop, phase, by>>
          ELSE /\ osSusp' = [t \in Threads |->
                               osSusp[t] /\ ~\E i \in S : handle[i] = t]
               /\ susp' = [i \in Slots |-> susp[i] /\ i \notin S]
               /\ pleaseStop' = FALSE
               /\ Goto(by, "running")
               /\ phase' = "idle" /\ by' = NoThread
               /\ UNCHANGED aborted
  /\ UNCHANGED <<ci, inUse, handle, stackEnd, id, maxIdx, hOpen, attached,
                 announced, myMax, si, sh, pushed, gcCount>>

-----------------------------------------------------------------------------
ThreadStep(t) ==
  \/ ThreadAttach(t) \/ Claim(t) \/ RaiseTest(t) \/ RaiseIncrement(t)
  \/ Clamp(t) \/ Record(t) \/ Announce(t)
  \/ DetachClose(t) \/ DetachClear(t) \/ DetachRelease(t)
  \/ StartCollection(t)

CollectorStep ==
  \/ StopClear \/ StopVisit \/ StopDone \/ SuspendCheck \/ SuspendDo
  \/ PushAllStacks \/ MarkCheck \/ StartWorld

(* The process has aborted, or every thread is in client code, has ended  *)
(* or is past the bounds, with no collection running: nothing is left to  *)
(* model.                                                                  *)
Halted ==
  /\ aborted \/ /\ phase = "idle"
                /\ \A t \in Threads : pc[t] \in {"unborn", "running", "gone", "dead"}
  /\ UNCHANGED vars

Next ==
  \/ \E t \in Threads : CanStep(t) /\ ThreadStep(t)
  \/ \E t \in Others : Live /\ Terminate(t)
  \/ Live /\ CollectorStep
  \/ Halted

(* The collecting thread holds the allocation lock and runs the           *)
(* collection to its end; client threads need no fairness.                 *)
Spec == Init /\ [][Next]_vars /\ WF_vars(Live /\ CollectorStep)

-----------------------------------------------------------------------------
TypeOK ==
  /\ pc \in [Threads -> {"unborn", "claim", "raise", "increment", "clamp",
                         "record", "announce", "running", "collecting",
                         "clearing", "releasing", "gone", "dead"}]
  /\ ci \in [Threads -> Slots]
  /\ inUse \in [Slots -> BOOLEAN] /\ stackEnd \in [Slots -> BOOLEAN]
  /\ handle \in [Slots -> Threads \cup {NoThread}]
  /\ id \in [Slots -> Threads \cup {NoThread}]
  /\ maxIdx \in 0..MaxThreads
  /\ phase \in {"idle", "clear", "visit", "check", "suspend", "stopped",
                "pushed", "marked"}
  /\ si \in 0..MaxThreads

(* Every slot holding a thread's stack lies below GC_get_max_thread_index, *)
(* so GC_stop_world, GC_push_all_stacks and GC_start_world visit it,       *)
(* however the registering threads' increments interleave and however the  *)
(* overshoot is clamped.                                                   *)
MaxIndexCovers == \A i \in Slots : stackEnd[i] => i <= GetMaxThreadIndex

(* Once GC_stop_world has been through the table, a thread running client  *)
(* code that it did not suspend has announced itself through               *)
(* GC_attached_thread after the reset, so that marking restarts.           *)
LateThreadAnnounced ==
  Live /\ phase \in {"stopped", "pushed", "marked"} =>
    \A t \in Threads \ {by} :
      pc[t] = "running" /\ ~osSusp[t] => announced[t]

(* Every thread GC_stop_world suspended is resumed again.                  *)
SuspendedResumed == \A t \in Threads : osSusp[t] ~> (~osSusp[t] \/ aborted)

(* The process never aborts in the thread code.                            *)
NoAbort == ~aborted

(* When the world is restarted, every thread running client code was      *)
(* either stopped or had its stack pushed by the mark pass that ends: the  *)
(* mark pass is restarted rather than trusted to have seen every thread.   *)
MarkSawEveryThread ==
  [][phase = "marked" /\ phase' = "idle" =>
       \A t \in Threads \ {by} :
         pc[t] = "running" /\ ~osSusp[t] => t \in pushed]_vars
=============================================================================
