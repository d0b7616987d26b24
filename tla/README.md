# TLA+ models of the Boehm GC Win32 thread support (`src/win32_threads.c`)

This directory holds TLA+ models of the thread support that the Boehm
collector uses on Windows. They are checked with TLC. Each model is translated from
`src/win32_threads.c`. The only exceptions are a few routines of other files
(`mark.c`, `mark_rts.c`), which are modelled from `spec.md` and marked
`spec_modelled` in `PROJECT.json`.

## The system

`win32_threads.c` keeps the collector informed of every thread that may hold
heap pointers, and it stops those threads while a collection marks.

* **Thread registry.** There are two modes. In *explicit* mode
  (`GC_win32_dll_threads` false, always in a `GC_PTHREADS` build), records live
  in the hash table `GC_threads`, protected by the allocation lock. The main
  thread's record is the static `first_thread`. In *discovery* mode, `GC_DllMain`
  registers every thread lock-free in `dll_thread_table`. It claims a slot with
  `InterlockedExchange` on `in_use` and raises `GC_max_thread_index`.
* **Lifecycle.** `GC_pthread_create` hands a `start_info` to
  `GC_pthread_start_inner`. That function registers the child under the lock and
  installs `GC_thread_exit_proc` as a cleanup handler. On exit, a record is deleted
  if it is `DETACHED`. Otherwise it is marked `FINISHED`, and the later
  `GC_pthread_join` or `GC_pthread_detach` frees it. Foreign threads call
  `GC_register_my_thread` and `GC_unregister_my_thread`.
* **Blocking brackets.** `GC_do_blocking_inner` saves `stack_ptr`, sets
  `DO_BLOCKING` and runs client code that must not touch the heap.
  `GC_call_with_gc_active` reverses this for a nested call. It links a
  `traced_stack_sect` that remembers the saved `stack_ptr`, and then clears
  `DO_BLOCKING`.
* **Stopping the world.** The thread that holds the allocation lock calls
  `GC_stop_world`. That function suspends every record except its own, the
  `FINISHED` ones and the `DO_BLOCKING` ones. It sets `IS_SUSPENDED` on each
  record it suspends. `GC_push_all_stacks` then pushes each live record's stack
  from the right stack pointer, skipping the client parts between stack sections.
  It aborts with "Collecting from unknown thread" if the collector's own record
  was not among them, unless `GC_in_thread_creation` is set. Finally,
  `GC_start_world` resumes the suspended threads.
* **Parallel marking.** Windows has its own mark lock. `GC_mark_mutex_state` is
  0, 1 or -1 and changes only by exchange; `mark_mutex_event` is an auto-reset
  event. Manual-reset events emulate condition variables for builders
  (`GC_wait_for_reclaim`) and markers (`GC_wait_marker`).
  `GC_start_mark_threads_inner` starts the markers (`GC_mark_thread`).
  A build with `GC_PTHREADS_PARAMARK` uses a pthread mutex and condition
  variables instead (lines 1971-2135), starts the markers with
  `pthread_create`, and re-initialises `mark_cv` at each start.
* **Stack bounds.** `GC_get_stack_min`, `may_be_in_stack` and the
  `last_stack_min` cache walk memory regions with `VirtualQuery`.
* **Fork.** When fork can be handled, the child keeps only the record of the
  forking thread.

## Modules

| module | models | source |
|---|---|---|
| `Threads` | explicit-mode registry, pthreads lifecycle, blocking brackets, one collection (stop, push, start) | `GC_new_thread` … `GC_start_world`, `GC_push_stack_for`, `GC_push_all_stacks`, `GC_pthread_*`, `GC_thread_exit_proc` |
| `MarkMutex` | the abstract mark lock: one owner, and no deadlock | the contract of `GC_acquire_mark_lock`/`GC_release_mark_lock` |
| `MarkLock` | the Win32 mark lock: exchanges, the event, `GC_mark_lock_holder` | `GC_acquire_mark_lock`, `GC_release_mark_lock` |
| `DllThreads` | discovery mode: lock-free registration in `dll_thread_table`, deletion, and a collection over the table | `GC_register_my_thread_inner` (discovery branch), `GC_get_max_thread_index`, `GC_lookup_thread`, `GC_delete_gc_thread_no_free`, `GC_DllMain`, the discovery branches of `GC_stop_world`, `GC_suspend`, `GC_push_all_stacks`, `GC_start_world`, `GC_started_thread_while_stopped` |
| `MarkerPool` | marker start-up, the builder countdown, the builder and marker events | `GC_start_mark_threads_inner`, `GC_mark_thread`, `GC_wait_for_reclaim`, `GC_notify_all_builder`, `GC_wait_marker`, `GC_notify_all_marker`; `GC_wait_for_markers_init` (mark.c, from the spec) |
| `MarkerPoolPthread` | the same start-up and handshake in the `GC_PTHREADS_PARAMARK` build: `mark_mutex`, `builder_cv`, `mark_cv`, spurious wakeups, the re-initialisation of `mark_cv`, and the `GC_parallel` parts of the fork handlers | the `GC_PTHREADS_PARAMARK` branches of `GC_start_mark_threads_inner`, `GC_acquire_mark_lock`, `GC_wait_builder`, `GC_wait_for_reclaim`, `GC_notify_all_builder`, `GC_wait_marker`, `GC_notify_all_marker`; `GC_mark_thread`; `fork_prepare_proc`, `fork_parent_proc`, `fork_child_proc` |
| `ThreadsFork` | fork handling composed with the `Threads` registry: a fork by any thread, followed as parent or as child | `fork_prepare_proc`, `fork_parent_proc`, `fork_child_proc`, `GC_remove_all_threads_but_me` |
| `StackMin` | the hot end of a thread stack: the `VirtualQuery` probes and their cache, the `last_stack_min` hint, the pushed range, and the stack bounds given to root registration | `GC_get_stack_min`, `may_be_in_stack`, `GC_push_stack_for` (lines 1593-1666), `GC_get_next_stack` |
| `Win32Create` | thread creation without pthreads in explicit mode: the hand-off of the start block and the client's argument, registration in the child, both ways out, collections at any point | `GC_CreateThread`, `GC_win32_start_inner`, `GC_ExitThread` (`GC_beginthreadex` and `GC_endthreadex` have the same control), `GC_register_my_thread`, `GC_delete_thread` |
| `MCThreads`, `MCThreadsFork`, `MCWin32Create`, `MCDllThreads`, `MCMarkLock` | TLC instances (model values, bounds) | — |
| `MCMarkerPool` | both builds of the marker pool in one model, the build chosen at `Init` | — |

### Threads

*State.* Each record is indexed by its thread. Windows does not reuse a thread
id while a handle to the thread is open, and a record owns a handle from
registration until deletion. So no id is ever recycled while a record still exists.

* `pc`: the control point of the thread.
* `inTable`, `flags`, `stackPtr`, `sects`: the fields of the record. `sects` is
  the `traced_stack_sect` chain, innermost last; each entry stores the depth of
  its section frame and the `stack_ptr` it saved.
* `stack`: the thread's frames, from the cold end to the hot end. A frame is
  `"gc"` (managed code), `"direct"` (`GC_call_with_gc_active` called outside a
  blocking call), `"ext"` (the client function of `GC_do_blocking`) or `"sect"`
  (the frame of `GC_call_with_gc_active` that holds a section). A depth stands
  for an address.
* `suspended`: the OS suspend state.
* `lock`: the holder of the allocation lock.
* `gc`: the running collection. It has a phase, an initiator, and the
  `GC_in_thread_creation` flag.
* `toVisit`: the records that `GC_stop_world` still has to visit.
* `creator`, `detachAttr`, `peer`, `disposed`: the client's calls to join and
  detach.

*Actions.* Every lock-protected block is one action, guarded by a free lock. A
mutator's `LOCK … UNLOCK` section touches nothing else, so it is atomic. The
collector keeps the lock across several steps: `StartCollection`,
`StopWorldVisit` once per record, `StopWorldDone`, `PushAllStacks` and
`GC_start_world`. The code returns a pointer found by `GC_lookup_by_pthread`
and later uses it again under the lock. That gap is a separate step
(`JoinLookup`/`DetachLookup`, then `GC_pthread_join`/`GC_pthread_detach`). The
return of a client function is also its own step (`BlockingFnReturn`,
`GcActiveFnReturn`), followed by the `LOCK` that restores the flags.

A collection can start from any registered thread that runs managed code
(`CollectFromMutator`). It can also start inside `GC_new_thread`, from a thread
that has no record yet (`CollectInThreadCreation`). After that collection,
`GC_start_world` returns into the registration, which links the record.

`PushSections` is `GC_push_all_stack_sections` of `mark_rts.c`, modelled from
the spec. It gives, as a set of depths, the ranges that `GC_push_stack_for`
pushes.

The model is not incremental. `GC_wait_for_gc_completion` then does nothing,
because `GC_collection_in_progress()` is false outside a collection.

### MarkLock and MarkMutex

`MarkLock` makes each interlocked exchange, each `SetEvent` and each return from
`WaitForSingleObject` one step. It splits `GC_release_mark_lock` into
`UnsetHolder`, `ReleaseExchange` and `Signal`. `MarkMutex` is the abstract lock.
Its owner is the thread between its successful exchange and its releasing
exchange. The threads trying are those inside `GC_acquire_mark_lock`.
`ImplementsMarkMutex` checks `Abstract!Spec` through `INSTANCE MarkMutex WITH`.
This checks the safety part and the abstract weak fairness on `Acquire`, which
says no deadlock and no lost wakeup.

### DllThreads

Threads are `Main`, which `GC_thr_init` put in slot 0, and `Others`, which
`GC_DllMain` discovers. A slot has the fields `inUse`, `handle`, `stackEnd`,
`id` and `susp` (`IS_SUSPENDED`). A handle is named by its thread, and `hOpen`
says whether it is still open. `osSusp` is the OS suspend state, and a suspended
thread takes no step. Memory is sequentially consistent.

* *Registration* (`DLL_THREAD_ATTACH`) is one step per shared access:
  * `Claim` is one `InterlockedExchange` of the claiming loop.
  * `RaiseTest` and `RaiseIncrement` are the two halves of the
    `GC_max_thread_index` loop, so concurrent registrations can overshoot.
  * `Clamp` sets an overshoot back to `MAX_THREADS - 1`.
  * `Record` stores the handle, `stack_end` and `id`.
  * `Announce` stores `GC_attached_thread` if `GC_please_stop` is set.
* *Deletion* (`DLL_THREAD_DETACH`) has three steps, in the code's order:
  `DetachClose` (the lookup, then `CloseHandle`), `DetachClear` and
  `DetachRelease`.
* *Termination.* `Terminate` is `TerminateThread`: the thread ends and its
  slot stays in use.
* *Collection.* Any running thread may collect. The steps are:
  * `StartCollection`, which sets `GC_please_stop`;
  * `StopClear`, which resets `GC_attached_thread` and reads `my_max`;
  * `StopVisit` and `StopDone`, one per slot of the loop;
  * the two halves of `GC_suspend`: `SuspendCheck`, the exit-code test that
    deletes an ended thread's slot, and `SuspendDo`, the `SuspendThread` call;
  * `PushAllStacks`;
  * `MarkCheck`, the marker's `GC_started_thread_while_stopped`, which restarts
    marking from the roots;
  * `StartWorld`.
* *Halting.* `Halted` is stuttering once the process has aborted or nothing is
  left to model.

### ThreadsFork

`ThreadsFork` extends `Threads` with three variables:

* `forkBy` is the thread between `fork_prepare_proc` and the handler that runs
  after `fork`.
* `forks` counts forks, up to `MaxFork`.
* `crashed` is set when the child crashes.

The model follows one process. After the fork, it continues either as the
parent or as the child. Every step of `Threads` runs as before, except that the
forking thread takes no step while it is inside `fork`.

* `fork_prepare_proc(t)`: a running thread (including one inside the client
  function of `GC_do_blocking`) or an unregistered thread takes the allocation
  lock. A collection holds that lock, so `GC_wait_for_gc_completion` returns
  at once.
* `fork_parent_proc`: unlocks.
* `fork_child_proc`: the other threads are gone (`terminated`), and threads
  not yet started may still be created. `GC_remove_all_threads_but_me` unlinks
  every record except the caller's, whose id and handle are rebound. A record
  is named by its thread, so rebinding leaves it unchanged. Joins and
  detaches issued in the parent are forgotten. Then it unlocks.
* `ForkChildNoRecord`: the caller has no record, so `me` stays NULL and line
  1000 writes through it.

### Win32Create

This module models a build without pthreads, with threads registering
themselves explicitly (no DllMain). The main thread creates the children
`Kids` one at a time.

The state:

* `psi[c]` is the child's `win32_start_info` block. It is one of: not
  allocated, allocated uncollectable, freed, reclaimed by a collection, or
  corrupt (`GC_free` applied to a block that is not allocated).
* `arg[c]` is the client's argument: live or reclaimed.
* `parentRef[c]` says the creating thread still holds the argument.
* `pc[c]` is the child's position.
* `gotArg[c]` says the child read a valid `start_arg`.
* `registered[c]` says the child has a record.
* `needToLock` is `GC_need_to_lock`.

`GC_CreateThread` takes two actions:

* `CreateAlloc`: `GC_malloc_uncollectable`, which may fail and then returns
  NULL.
* `CreateStart`: `set_need_to_lock`, then `CreateThread`. On failure it
  frees the block. Either way `GC_CreateThread` returns and the client may
  drop its argument.

The child's actions follow `GC_win32_start_inner`:

* `StartInnerRead`: copy the start routine and the argument out of the
  block.
* `GC_register_my_thread`: ABORT unless `GC_need_to_lock` is set.
* `FreeStartInfo`: `GC_free` of the block.
* Then either `RoutineReturn` followed by `FinallyUnregister`, or
  `GC_ExitThread`, which unregisters and exits without running `__finally`.

`Collect` stops the world and reclaims what no root reaches. The roots are:

* the block, while it is uncollectable (or, if collectable, while the
  creating thread still holds it);
* the creating thread, until it returns;
* the stack of a registered child.

An unregistered child's stack is not scanned.

### StackMin

Memory holds two stack reservations, separated by a free page:

* `co`, pages `1..H-1`, is a coroutine stack.
* `own`, pages `H+1..N-1`, is the thread's own stack.

Page 0 is the null page, and page `N` lies above the own stack. Each page has two addresses, so the
`bottom - 1` that `GC_get_stack_min` queries is an unaligned address, as it is
in the code. `VirtualQuery(a)` answers with the page of `a`: its base address
(`BaseAddress` is the page containing `a`) and its protection. Below the
committed (`rw`) pages is the `guard` page, and below that are `reserved`
pages. `IsStackPage` is the code's test: `PAGE_READWRITE` set and
`PAGE_GUARD` clear.

* *State.*
  * `guard` maps each stack to its guard page.
  * `cur` is the stack the thread runs on.
  * `stackEnd` is `thread->stack_end`.
  * `sp` is the thread's stack pointer.
  * `lastStackMin` is `thread->last_stack_min`.
  * `cache` is the static pair `last_address`/`last_info`, shared by both
    probes.
  * `push` and `next` record the last `GC_push_stack_for` and the last
    `GC_get_next_stack`, for the properties.
* *Probes.* These are operators that return their result and the new cache.
  * `CachedQuery` is the `s != last_address` test.
  * `ProbeDown` is the do-while loop of `GC_get_stack_min`, written
    `RECURSIVE`.
  * `may_be_in_stack`.
  * `StackMinFor` is lines 1593-1631 with `traced_stack_sect` NULL.
  * `NextStackFor` is `GC_get_next_stack` for the one stack.
* *Actions.*
  * The thread steps: `SpDown` (this may enter the untouched guard page),
    `SpUp`, `TouchGuard` (the OS commits the guard page and guards the next
    page down) and `Restart` (the thread exits, and a new thread registers
    over the same reservation with `last_stack_min = ADDR_LIMIT`, line 360;
    the cache survives).
  * `GC_set_stackbottom(r)`: the thread switches to the other stack and
    tells the collector. This sets `stack_end` and resets `last_stack_min`
    to `ADDR_LIMIT` (line 881). The old stack stays committed. Without the
    reset, a push for the thread would walk down the old stack and miss the
    new one (mutant `SetStackBottomKeepsHint`).
  * The collector steps: `PushStackFor(isSelf)` and `GetNextStack(start,
    limit)`, with page-aligned region bounds. Each runs under the allocation
    lock, so it is one step.
* `TrueStackMin` is the reference: the lowest committed page, from a fresh look
  at memory.

### MarkerPool

Thread 0 calls `GC_start_mark_threads_inner` with the allocation lock held;
marker `m` runs `GC_mark_thread` with id `m - 1`. The mark lock is one atomic
acquire (`mlock`), which `MarkLock` justifies by refining `MarkMutex`.

* *State.* `markersM1` is `GC_markers_m1` and `idx` the loop index `i`;
  `cvOpen`/`cvSet` say whether each `GC_marker_cv[i]` is open and signalled;
  `shared` whether `mark_cv`, `builder_cv` and `mark_mutex_event` are open;
  `builderCv` whether `builder_cv` is signalled; `count` is
  `GC_fl_builder_count`, which may go negative; `aborted` is an `ABORT` on a
  failed `SetEvent`/`ResetEvent` of a closed handle, after which nothing runs.
* *Starter.* `StartMarkThreads` (the guard of `START_MARK_THREADS` and of the
  function, with `GC_parallel` read as `GC_markers_m1 # 0` as the comments at
  lines 1046 and 2012 say), `SpawnMarker` (a `_beginthreadex` that succeeds, or
  fails and breaks the loop), `SpawnLoopDone`, `Shrink` (one turn of the
  closing loop), `WaitForMarkersInit`, `WaitForReclaim` (one turn of its loop)
  and `ReclaimWake`, then `FinishStart` (closing the shared events when `i` is
  0). `NotifyAllMarker` is a mark phase waking the helpers.
* *Markers.* `MarkerInit` (decrement, broadcast at 0, keep the lock into
  `GC_help_marker`), then the three steps of `GC_wait_marker`: reset own event
  and release, wake, re-acquire.

### MarkerPoolPthread, and the composition of the two builds

`MarkerPoolPthread` has the process ids, `markersM1`, `idx`, `count`, `mpc`
and `mlock` of `MarkerPool`. `mlock` is now the holder of `mark_mutex`, and
there are no handles to close.

* *Condition variables.* `pthread_cond_wait` releases the mutex and joins
  the wait set in one step. For the starter that is `spc = "reclaimWait"`; for
  a helper it is `mpc[m] = "waiting"`. A broadcast moves every waiter to a
  state where it re-acquires the mutex. `SpuriousBuilderWake` and
  `SpuriousMarkerWake` are returns without a broadcast, which POSIX allows.
  They are bounded by `MaxSpurious` and have no fairness.
* *Starter.* `StartMarkThreads` is the `GC_parallel` guard, the
  re-initialisation of `mark_cv`, and then one of two outcomes:
  * `pthread_sigmask` fails, and the function returns with `GC_markers_m1`
    set to 0;
  * `GC_markers_m1` is set to `available_markers_m1`.

  `cvLost` records a re-initialisation made while a helper waited on
  `mark_cv`. That is undefined behaviour, so the model does not guess what
  follows.
  `SpawnMarker` is one `pthread_create`; on failure it sets
  `GC_markers_m1 = i`. After it come `SpawnLoopDone`, `WaitForMarkersInit`
  (as in `MarkerPool`), `WaitForReclaim` (one test of the `while` under the
  mutex, then leave or wait) and `FinishStart`. `NotifyAllMarker` broadcasts
  `mark_cv`.
* *Markers.* `MarkerInit` is `GC_mark_thread` as in `MarkerPool`, with the
  broadcast on `builder_cv` (`BroadcastBuilder`). `MarkerWait` and
  `MarkerReacquire` are the two halves of `GC_wait_marker`.
* *Fork.* The fork handlers (`CAN_HANDLE_FORK`) are run by a client thread,
  `Forker`. `fpc` tracks it through the handlers and `forks` counts forks, up
  to `MaxForks`. The allocation lock is held by the starter
  (`spc # "idle"`) or by the forker (`fpc # "none"`), so a start, a notify
  round and a fork exclude each other. The handlers are four actions:
  * `ForkPrepare` is the `LOCK` of `fork_prepare_proc`.
  * `ForkPrepareMark` is its `GC_parallel` part: `GC_wait_for_reclaim`, then
    `GC_acquire_mark_lock`.
  * `ForkParent` releases the mark lock.
  * `ForkChild` releases the mark lock and sets `GC_markers_m1` to 0. No
    helper survives into the child, so every `mpc[m]` becomes `"none"`.

  As in `ThreadsFork`, the model follows one process. In the child, a later
  start runs `GC_start_mark_threads_inner` again. It re-initialises
  `mark_cv`, which the `CAN_HANDLE_FORK` code does for exactly this case.

`MCMarkerPool` checks both builds in one run. Its variable `build` is chosen
from the constant `Builds` in `Init` and never changes. Each build's steps
(`WinStep`, `PthreadStep`) leave the other build's own variables at their
initial values. The properties are those of the build in force. Each build
has its own start bound (`WinMaxStarts`, `PthreadMaxStarts`).

## Runs

| run | cfg | checks | shows |
|---|---|---|---|
| `threads_safety` | `MCThreads.cfg` | `TypeOK`, `StoppedWorldQuiescent`, `RootsComplete`, `NoUnknownCollector`, `RegistryMatchesLifecycle`, `NoUseAfterFree`, `ReclaimedEventually` | while the world is stopped, no thread runs managed code unsuspended, every managed frame of a scanned thread lies in a pushed range, and the collector is known; the registry matches the threads' lives, and join/detach never use a freed record; every terminated worker that is joined, detached or created detached loses its record, whatever the order of exit and join/detach |
| `dll_threads` | `MCDllThreads.cfg` | `TypeOK`, `MaxIndexCovers`, `LateThreadAnnounced`, `SuspendedResumed` | racing registrations never leave a slot above the clamped `GC_max_thread_index`; every thread still running after the stop loop announced itself after the reset of `GC_attached_thread`; every suspended thread is resumed |
| `dll_suspend_race` (violation) | `MCDllThreadsAbort.cfg` | `NoAbort` | a detaching thread closes its handle after `GC_stop_world` read its `stack_end`, so `SuspendThread` fails and the process aborts |
| `dll_late_attach` (violation) | `MCDllThreadsLate.cfg` | `MarkSawEveryThread` | a thread attaching after the marker's last check of `GC_attached_thread` is neither stopped nor pushed when the world restarts |
| `markers_start` | `MCMarkerPool.cfg` | `TypeOK`, `StartedMarkersReady`, `NoAbort`, `MarkCvResetSafe`, `HelpersExist`, `StartReturns` | in both builds, the starter leaves only when every started helper has counted down and the count is 0, and it always leaves. In the Win32 build (one start of three helpers, any spawn may fail), no broadcast on `builder_cv` is lost to a late `ResetEvent`, and no closed event is touched. In the pthread build (three starts and two forks, the signal mask or any `pthread_create` may fail, spurious wakeups), `mark_cv` is never re-initialised under a waiting helper. After a fork, in the parent or in the child (which restarts helpers), `GC_parallel` is on only while every helper it counts exists, and the restart in the child returns |
| `markers_restart` (violation) | `MCMarkerPoolRestart.cfg` | `NoAbort` | in the Win32 build (`Builds = {"win32"}`), a start in which no helper spawns closes the shared events but leaves `available_markers_m1` positive; a second start passes the guard, and its first helper's `SetEvent(builder_cv)` (or the starter's `ResetEvent`) hits the closed handle |
| `fork_child` | `MCThreadsFork.cfg` | `RegistryMatchesLifecycle`, `NoUnknownCollector` | whichever thread forks, at whatever point the other threads are in their join, detach, exit or blocking call, the child's registry holds just the forking thread's record (FINISHED if it had unregistered) and any later collection in the child finds its collector |
| `fork_unregistered` (violation) | `MCThreadsForkCrash.cfg` | `NoForkCrash` | a foreign thread that never registered calls `fork`, and the child crashes at line 1000 |
| `create_thread` | `MCWin32Create.cfg` | `ArgSafe`, `NoHeapCorruption`, `ThreadCleanup`, `InfoReleased` | with allocation or `CreateThread` failing, and collections between any two steps, the start routine always runs with the client's live argument; the start block is freed exactly once, by the child or on failure by the parent; every thread ends unregistered, by return or by `GC_ExitThread`; no block leaks |
| `stack_min` | `MCStackMin.cfg` | `TypeOK`, `StackMinAssert`, `PushedLiveStack` | whatever the stack did since the hint and the cached query were taken (growth, a replaced thread, a switch to a coroutine stack through `GC_set_stackbottom`, probes of root regions in between), the assertion of lines 1637-1642 holds and the pushed range is exactly the live committed stack: from `sp`, or from the lowest committed page when `sp` is on the guard page |
| `stack_next_stale` (violation) | `MCStackMinNext.cfg` | `NextStackContract` | `GC_get_next_stack` answers `may_be_in_stack(limit)` from a cache entry taken when `limit` was the guard page; after the stack grew it reports no stack below `limit` |
| `marklock` | `MCMarkLock.cfg` | `TypeOK`, `MutualExclusion`, `ImplementsMarkMutex` | the mark lock excludes, its debug holder is right, and it refines the abstract mutex with no lost wakeup |

Every property of these runs has a mutant in `PROJECT.json`: an operator with
a plausible bug that replaces one mapped action, and that TLC then finds
violating the property. Examples are `GC_call_with_gc_active` leaving
`DO_BLOCKING` set, `stack_ptr` saved one frame too cold, `GC_in_thread_creation`
not set, exit ignoring `DETACHED`, detach never freeing a `FINISHED` record, and
the retry loop exchanging 1 instead of -1.

## Findings

* `dll_suspend_race` (a code bug): `GC_delete_gc_thread_no_free` closes the
  handle (line 542) before it clears `stack_end` (line 552), and it runs with
  no lock. `GC_stop_world` may already have seen the slot. `GC_suspend` then
  calls `SuspendThread` on a closed handle, which fails, and the process aborts
  at line 1209.
* `dll_late_attach` (a spec gap): `GC_attached_thread` makes marking restart
  only if it is set before the marker's last check. A thread that attaches
  between that check and `GC_start_world` is neither suspended nor scanned.

* `fork_unregistered` (a spec gap): the spec's fork rule assumes the forking
  thread has a record to keep. The atfork handlers run for every thread that
  forks. For a foreign thread that never registered, or one that has
  unregistered, `GC_remove_all_threads_but_me` finds no `me`. Only a
  `GC_ASSERT` guards this, so in a release build line 1000 writes through NULL
  in the child.

* `stack_next_stale` (a divergence from the comment at lines 1739-1743): the
  `last_address`/`last_info` cache is never invalidated when memory changes.
  If `GC_get_next_stack` last probed `limit` while it was the guard page, and
  the stack has since grown below it, the cached "not a stack page" makes it
  skip the stack (line 1820) although committed stack pages lie in
  `[start, limit)`. The caller that picks the regions is in `os_dep.c`, which
  is not in this repository, so whether it ever passes such a `limit` is not
  known here. `GC_push_stack_for` is immune to the same staleness, as
  `stack_min` shows: its walk always re-queries below the cached page.

* `markers_restart`: the spec's failure policy says that if no helper starts,
  parallel marking stays off for the life of the process. The code closes the
  three shared events (line 2215) but clears nothing that `START_MARK_THREADS`
  tests, so a later thread creation starts helpers again over closed handles.

### Bounds

* `threads_safety`: the main thread, one worker (`w1`) and one foreign thread
  (`f1`), with `MaxDepth = 4` and `MaxGC = 1`. This takes about 4 million
  states and 2.5 minutes, the liveness check included.
  * Depth 4 is the least depth that fits the deepest frame chain: managed code,
    then `GC_do_blocking`, then `GC_call_with_gc_active`, then managed code.
  * The one collection can fall after a record has been revived, joined or
    detached, since its position is free. A second collection found no
    mutant that one does not, and with the liveness check it took the run to
    the edge of five minutes.
  * The foreign thread covers `GC_register_my_thread`, unregistering and
    re-registering.
  * The worker covers creation, detached creation, join and detach, each
    racing its own exit, which is what `ReclaimedEventually` is about.
  * The main thread can collect while the worker is starting, so the
    `GC_in_thread_creation` case happens.
* `dll_threads`: `Main` and two discovered threads over three slots
  (`MaxThreads = 3`), with two collections. Both threads can race for slots 1
  and 2, so `GC_max_thread_index` overshoots to 3 and is clamped. A thread can
  detach and its slot be taken again. A thread can be terminated and its slot
  deleted by `GC_suspend`, and a thread can attach during a stop and force a
  restart. Probes confirmed that each of these cases is reached. The run takes
  about 135 000 states.
* `fork_child`: the main thread, one worker and one foreign thread, with
  `MaxDepth = 3`, `MaxGC = 1` and one fork. The forker can be any of the three,
  at any point in its life or the others' lives. The one collection can happen
  in the child after the fork. The run takes about 1.5 million states and 30
  seconds. Depth 3 allows a fork from inside `GC_do_blocking`. The nested
  `GC_call_with_gc_active` frames need depth 4, and they are checked by
  `threads_safety`.
* `create_thread`: two children and `MaxGC = 2`, giving 473 states. Each child
  can fail at allocation or at `CreateThread`, or start. Two collections let
  one fall in the window between `GC_CreateThread` returning and the child
  registering, and another after `GC_free` of the block. `needToLock` starts
  either way: TRUE means `GC_allow_register_threads` was called.
* `stack_min`: `N = 8` and `H = 3`, with 18 addresses.
  * The own stack has pages 4-7 and the same shape as the single stack of
    earlier versions: it starts with one committed page, its guard can move
    down twice, and it can be replaced. Probes on that shape reached every
    branch of lines 1616-1631, including the "stack shrunk?" branch, which is
    reached through a stale cache or a replaced stack.
  * The coroutine stack has pages 1-2, one committed page below a free page.
    A switch to it leaves a `last_stack_min` pointing into the own stack.
  * `start` takes two values, one below both stack bases and one above. It
    enters only through `stack_end > start`.
  * The run takes about 237 000 states and 40 seconds. `stack_next_stale`
    uses the same bounds; its violation needs the own stack to grow twice
    past a cached `limit`.
* `markers_start`: three helpers (`Available = 3`), one start in the Win32
  build (`WinMaxStarts = 1`), and two notify rounds. More than one helper lets
  the countdown go negative (a helper runs before the starter's add). It also
  lets a spawn fail after a success, so `Shrink` closes an event while another
  helper runs. Three helpers let a spawn fail in the middle, with helpers
  running on both sides of the failed index. Two rounds let a helper wait a
  second time on an event it reset. `markers_restart` allows a second start,
  with two helpers.
  * The pthread build has three starts (`PthreadMaxStarts = 3`). A start that
    failed at the signal mask or at the first `pthread_create` is followed by
    another, and a child of a fork can start again after that.
  * With two spurious wakeups (`MaxSpurious = 2`), the starter can return from
    `pthread_cond_wait` with the count still positive, and a helper can wake
    without a broadcast, in the same run.
  * Two forks (`MaxForks = 2`) can come before, between or after the starts.
    A child that had helpers can start new ones and then fork again.
  * The two builds together give 15 979 states, in about 3 seconds.
* `marklock`: three threads, so that a waiter can be overtaken by a fast-path
  exchange while a third thread holds the lock.

### Fairness

* `Threads`:
  * Weak fairness on the collector's steps: the collecting thread holds the lock
    and runs the collection to the end.
  * Weak fairness on the final locked step of `GC_pthread_join` and
    `GC_pthread_detach`: the OS schedules a runnable thread.
  * The lock is eventually free for good, because collections are bounded by
    `MaxGC` and every mutator section is one step.
  * Client code has no fairness: a thread may stay in its start routine for ever.
* `DllThreads`: weak fairness on the collector's steps only. The collecting
  thread holds the allocation lock and is never suspended. Client threads need
  no fairness.
* `MarkerPool`: weak fairness on the starter's steps and on every helper's
  steps, since they are OS threads; none on starting or on the notify rounds,
  which the collector decides. Deadlock is not checked: helpers block in
  `GC_wait_marker` for good once the bounded mark phases are over.
* `MarkerPoolPthread`: the same fairness as `MarkerPool`, and weak fairness
  on the forker's steps after `ForkPrepare`: once `fork` is under way, its
  handlers run to the end. A spurious return
  of `pthread_cond_wait` may happen but is never owed. Spurious returns are
  bounded, since an endless stream of them is not a behaviour of a real
  system. Without the bound, a helper that spuriously wakes and re-takes the
  mutex over and over could starve the starter under weak fairness.
* `Win32Create`: weak fairness on the creating thread's steps and on each
  child's steps, since these are OS threads. The child's steps include its
  start routine's return or `GC_ExitThread`. This assumes the client's start
  routine ends, which `ThreadCleanup` needs. Collections have no fairness.
* `ThreadsFork`: no fairness. Its properties are invariants.
* `StackMin`: no fairness. Its properties are invariants, and no step has to
  happen.
* `MarkLock`: weak fairness for every thread that is inside acquire or release,
  or holds the lock. Threads are not required to ask for the lock.

## Not modelled, and why

* The `GetExitCodeThread` branch of `GC_suspend`. In explicit mode every linked
  record that is not `FINISHED` belongs to a live thread, because threads leave
  only through the lock. `DllThreads` models it in discovery mode.
* In discovery mode: `DLL_PROCESS_DETACH` and `GC_deinit` (process teardown),
  and weak memory ordering. The code relies on `volatile` and `AO_` fences, and
  the model is sequentially consistent. The races found above occur even
  under sequential consistency.
* Register capture (`copy_ptr_regs`), the WoW64 workaround,
  `RETRY_GET_THREAD_CONTEXT` retries, `GC_write_cs`, `UNPROTECT_THREAD`. These
  are data capture or debug output, with no control flow that a model checker
  adds to.
* The `my_mark_no` resynchronisation in `GC_mark_thread` (line 1934).
  `GC_mark_no` is advanced, and compared with a helper's number, in
  `GC_help_marker` of `mark.c`. That file is not in this repository, so the
  wrap-around case cannot be translated from source.
* The registry part of the fork handlers (`ThreadsFork`) and their
  parallel-marking part (`MarkerPoolPthread`) are separate models. `Threads`
  runs with `GC_parallel` off, and the two parts share only the allocation
  lock. `GC_wait_for_gc_completion` in `fork_prepare_proc` is not modelled:
  without incremental collection it returns at once, and incremental
  collection is not modelled. `GC_setup_atfork` is also not
  modelled: it only picks `pthread_atfork` or the client-called
  `GC_atfork_*` wrappers, and both run the same procedures.
* In `Win32Create`:
  * The discovery-mode passthrough of `GC_CreateThread`. Registration is then
    `DllMain`'s, which `DllThreads` models.
  * `START_MARK_THREADS`, which `MarkerPool` models.
  * `REACHABLE_AFTER_DIRTY`, the write barrier of incremental collection.
  * The `GC_WINMAIN_REDIRECT` `WinMain`.
  * Exceptions that leave the start routine. The spec says the `__finally`
    block guarantees unregistration. In a build with `NO_SEH_AVAILABLE`
    there is no such block, and an exception skips
    `GC_unregister_my_thread`. This is not listed as a hazard. The comment
    at lines 2391-2393 says an uncaught exception kills the process, and the
    record goes with it.
  * `GC_beginthreadex` and `GC_endthreadex` are not mapped separately. Their
    control is the same as `GC_CreateThread` and `GC_ExitThread`.
* In `StackMin`: `traced_stack_sect` in the `stack_min` choice (lines
  1610-1614), which is kept NULL. Sections are modelled in `Threads`. Also not
  modelled: the markers' stacks and the discovery-mode loop of
  `GC_get_next_stack`, and the MSWINCE `GC_wince_evaluate_stack_min` path.
* Configuration and I/O: `GC_thr_init` marker-count parsing, `GC_WinMain`, and
  marker thread names.
* Thread-local allocation, which belongs to other files.
* `GC_check_finalizer_nested` and `GC_reset_finalizer_nested` (lines
  439-466). Their point is the overflow of `finalizer_nested` and
  `finalizer_skipped` and the shift `1U << nesting_level`. But the widths of
  those fields are declared in a header that is not in this repository, and
  the caller that resets the level is in `finalize.c`.
* In `MarkerPoolPthread`: the `ABORT` that follows a failing
  `pthread_mutex_*` or `pthread_cond_*` call. These calls fail only on
  invalid arguments. `GC_wait_for_gc_completion` before the start is also
  not modelled, since the marker pool runs no collection.

## Plan (later work)

1. **DllThreads, rest**: `DLL_PROCESS_DETACH`, and `GC_do_blocking` in
   discovery mode.
