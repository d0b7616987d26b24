------------------------------ MODULE StackMin ------------------------------
(***************************************************************************)
(* How win32_threads.c finds the hot end of a thread stack: the probe      *)
(* GC_get_stack_min, the test may_be_in_stack, both sharing one cache of   *)
(* the latest VirtualQuery (last_address, last_info), the per-thread hint  *)
(* last_stack_min, and their two users: GC_push_stack_for, which picks the *)
(* range of a stack to push, and GC_get_next_stack, which reports the      *)
(* bounds of a stack overlapping a root region.                            *)
(*                                                                         *)
(* Memory is pages 0..N, two addresses per page (so that bottom - 1 is an *)
(* unaligned address, as in the code).  Page 0 is the unmapped null page.  *)
(* Two stack reservations lie above it, separated by a free page: "co",   *)
(* pages 1..H-1, a coroutine stack the client may switch to, and "own",   *)
(* pages H+1..N-1, the thread's own stack; page N lies above it.  Below   *)
(* the committed pages of a stack is its guard page, below that reserved  *)
(* pages.  VirtualQuery(a) answers the page of a: its base address and    *)
(* protection.  The thread moves its sp, touches the guard page (the OS   *)
(* commits it and guards the next page down), switches stacks and tells   *)
(* the collector through GC_set_stackbottom, and may exit and be replaced *)
(* by a thread whose new stack reuses the reservation.  Every probe runs   *)
(* under the allocation lock, so each user of the cache is one atomic     *)
(* step.                                                                   *)
(***************************************************************************)
EXTENDS Integers

CONSTANTS
  N,   \* page N lies above the thread's own stack
  H    \* the free page between the coroutine stack and the own stack

PageOf(a) == a \div 2
PageBase(a) == a - (a % 2)
Regions == {"co", "own"}
Lo(r) == IF r = "co" THEN 1 ELSE H + 1       \* lowest page of a reservation
Hi(r) == IF r = "co" THEN H - 1 ELSE N - 1   \* highest page
StackEnd(r) == 2 * (Hi(r) + 1)               \* the stack base of a region
AddrLimit == 2 * N + 2            \* ADDR_LIMIT, above every address
Addr == 0..(2 * N + 1)
Prot == {"none", "free", "reserved", "guard", "rw"}
Info == [base : Addr, prot : Prot]
NoPush == [sp |-> 0, min |-> 0, from |-> 0, trueMin |-> 0, end |-> 0]
NoNext == [start |-> 0, limit |-> 0, lo |-> 0, hi |-> 0, trueMin |-> 0,
           end |-> 0]

VARIABLES
  guard,         \* the guard page of each stack
  cur,           \* the stack the thread runs on
  stackEnd,      \* thread -> stack_end
  sp,            \* the thread's stack pointer
  lastStackMin,  \* thread -> last_stack_min
  cache,         \* [la |-> last_address, li |-> last_info]
  push,          \* the last GC_push_stack_for: sp, stack_min, pushed from
  next           \* the last GC_get_next_stack: arguments and results

vars == <<guard, cur, stackEnd, sp, lastStackMin, cache, push, next>>

(* The protection of a page: what VirtualQuery reports in Protect.         *)
Protection(p) ==
  IF \E r \in Regions : Lo(r) <= p /\ p <= Hi(r)
  THEN LET r == CHOOSE r \in Regions : Lo(r) <= p /\ p <= Hi(r)
       IN  CASE p < guard[r] -> "reserved"
             [] p = guard[r] -> "guard"
             [] OTHER        -> "rw"
  ELSE "free"

VirtualQuery(a) == [base |-> PageBase(a), prot |-> Protection(PageOf(a))]

(* Mutant: a test of PAGE_READWRITE alone, taking the guard page for stack. *)
IsStackPageNoGuard(info) == info.prot \in {"rw", "guard"}

(* PAGE_READWRITE set and PAGE_GUARD clear.                                *)
IsStackPage(info) == info.prot = "rw"

(* The lowest committed page of the stack, by a fresh look at memory.      *)
TrueStackMin == 2 * (guard[cur] + 1)

(* The cache lookup both probes start with.                                *)
CachedQuery(s, c) ==
  IF s # c.la THEN [la |-> s, li |-> VirtualQuery(s)] ELSE c

(* The do-while loop of GC_get_stack_min, from the info last read.         *)
RECURSIVE ProbeDown(_)
ProbeDown(info) ==
  LET bottom == info.base
      q == VirtualQuery(bottom - 1)
  IN  IF IsStackPage(q) THEN ProbeDown(q)
      ELSE [val |-> bottom, cache |-> [la |-> bottom - 1, li |-> q]]

GC_get_stack_min(s, c) == ProbeDown(CachedQuery(s, c).li)

may_be_in_stack(s, c) ==
  LET c2 == CachedQuery(s, c) IN [val |-> IsStackPage(c2.li), cache |-> c2]

(* Mutant: the fast path without its lower test sp >= last_stack_min.       *)
StackMinForNoLowerTest(isSelf, c) ==
  IF lastStackMin = AddrLimit
  THEN GC_get_stack_min(stackEnd, c)
  ELSE IF sp < stackEnd
  THEN [val |-> sp, cache |-> c]
  ELSE LET m == may_be_in_stack(lastStackMin, c)
       IN  IF ~m.val THEN GC_get_stack_min(stackEnd, m.cache)
           ELSE GC_get_stack_min(lastStackMin, m.cache)

(* Mutant: stack_min taken from the queried address, not its BaseAddress.  *)
StackMinForQueried(isSelf, c) ==
  IF lastStackMin = AddrLimit
  THEN GC_get_stack_min(stackEnd, c)
  ELSE IF sp < stackEnd /\ sp >= lastStackMin
  THEN [val |-> sp, cache |-> c]
  ELSE LET m == may_be_in_stack(IF isSelf /\ sp < lastStackMin
                                THEN sp ELSE lastStackMin, c)
       IN  IF ~m.val THEN GC_get_stack_min(stackEnd, m.cache)
           ELSE IF sp < m.cache.la \/ sp >= stackEnd
           THEN GC_get_stack_min(lastStackMin, m.cache)
           ELSE [val |-> m.cache.la, cache |-> m.cache]

(* stack_min and the new last_stack_min, with traced_stack_sect NULL.      *)
StackMinFor(isSelf, c) ==
  IF lastStackMin = AddrLimit
  THEN GC_get_stack_min(stackEnd, c)
  ELSE IF sp < stackEnd /\ sp >= lastStackMin
  THEN [val |-> sp, cache |-> c]
  ELSE LET m == may_be_in_stack(IF isSelf /\ sp < lastStackMin
                                THEN sp ELSE lastStackMin, c)
       IN  IF ~m.val THEN GC_get_stack_min(stackEnd, m.cache)
           ELSE IF sp < m.cache.li.base \/ sp >= stackEnd
           THEN GC_get_stack_min(lastStackMin, m.cache)
           ELSE [val |-> m.cache.li.base, cache |-> m.cache]

(* The fast path keeps last_stack_min; every other path stores stack_min.  *)
NewLastStackMin(r) ==
  IF lastStackMin # AddrLimit /\ sp < stackEnd /\ sp >= lastStackMin
  THEN lastStackMin ELSE r.val

Init ==
  /\ guard = [r \in Regions |-> Hi(r) - 1]
  /\ cur = "own"
  /\ stackEnd = StackEnd("own")
  /\ sp = stackEnd - 1
  /\ lastStackMin = AddrLimit
  /\ cache = [la |-> 0, li |-> [base |-> 0, prot |-> "none"]]
  /\ push = NoPush
  /\ next = NoNext

(* The thread pushes a frame; sp may enter the untouched guard page.       *)
SpDown ==
  /\ sp - 1 >= 2 * guard[cur]
  /\ sp' = sp - 1
  /\ UNCHANGED <<guard, cur, stackEnd, lastStackMin, cache, push, next>>

SpUp ==
  /\ sp + 1 < stackEnd
  /\ sp' = sp + 1
  /\ UNCHANGED <<guard, cur, stackEnd, lastStackMin, cache, push, next>>

(* A write to the guard page: the OS commits it and guards the next page. *)
TouchGuard ==
  /\ PageOf(sp) = guard[cur]
  /\ guard[cur] > Lo(cur)
  /\ guard' = [guard EXCEPT ![cur] = @ - 1]
  /\ UNCHANGED <<cur, stackEnd, sp, lastStackMin, cache, push, next>>

(* The thread exits; a new thread registers with a fresh stack in the own *)
(* reservation and last_stack_min = ADDR_LIMIT.  The cache stays.          *)
Restart ==
  /\ guard' = [guard EXCEPT !["own"] = Hi("own") - 1]
  /\ cur' = "own"
  /\ stackEnd' = StackEnd("own")
  /\ sp' = StackEnd("own") - 1
  /\ lastStackMin' = AddrLimit
  /\ UNCHANGED <<cache, push, next>>

(* Mutant: GC_set_stackbottom without the reset of last_stack_min.         *)
SetStackBottomKeepsHint(r) ==
  /\ r # cur
  /\ cur' = r
  /\ stackEnd' = StackEnd(r)
  /\ \E s \in (2 * (guard[r] + 1))..(StackEnd(r) - 1) : sp' = s
  /\ UNCHANGED <<guard, lastStackMin, cache, push, next>>

(* The thread switches to the other stack, where it resumes with sp in     *)
(* that stack's committed part, and calls GC_set_stackbottom(NULL, sb)     *)
(* (under the allocation lock) with the new stack's base: stack_end is     *)
(* set and last_stack_min reset to ADDR_LIMIT.                             *)
GC_set_stackbottom(r) ==
  /\ r # cur
  /\ cur' = r
  /\ stackEnd' = StackEnd(r)
  /\ \E s \in (2 * (guard[r] + 1))..(StackEnd(r) - 1) : sp' = s
  /\ lastStackMin' = AddrLimit
  /\ UNCHANGED <<guard, cache, push, next>>

(* GC_push_stack_for: the collector (isSelf, whose own sp page is in use)  *)
(* or another, suspended thread; push from sp if sp is in                  *)
(* [stack_min, stack_end), from stack_min otherwise.                       *)
PushStackFor(isSelf) ==
  /\ isSelf => PageOf(sp) > guard[cur]
  /\ LET r == StackMinFor(isSelf, cache)
     IN  /\ cache' = r.cache
         /\ lastStackMin' = NewLastStackMin(r)
         /\ push' = [sp |-> sp, min |-> r.val,
                     from |-> IF sp >= r.val /\ sp < stackEnd THEN sp ELSE r.val,
                     trueMin |-> TrueStackMin, end |-> stackEnd]
  /\ UNCHANGED <<guard, cur, stackEnd, sp, next>>

(* GC_get_next_stack over the one stack, for a root region [start, limit) *)
(* with page-aligned bounds; markers' stacks are left out.                 *)
NextStackFor(start, limit, c) ==
  LET curMin == IF stackEnd > start THEN stackEnd ELSE AddrLimit
      probe == may_be_in_stack(limit, c)
      c1 == IF curMin > limit THEN probe.cache ELSE c
      hint == may_be_in_stack(lastStackMin, c1)
      useHint == lastStackMin # AddrLimit /\ hint.val
      r == GC_get_stack_min(IF useHint THEN lastStackMin ELSE curMin,
                            IF lastStackMin = AddrLimit THEN c1 ELSE hint.cache)
  IN  CASE curMin = AddrLimit
             -> [lo |-> AddrLimit, hi |-> curMin, cache |-> c, lsm |-> lastStackMin]
        [] curMin > limit /\ ~probe.val
             -> [lo |-> AddrLimit, hi |-> curMin, cache |-> c1, lsm |-> lastStackMin]
        [] OTHER
             -> [lo |-> r.val, hi |-> curMin, cache |-> r.cache, lsm |-> r.val]

(* start enters only through stack_end > start: one start below every     *)
(* stack base and one at the top page give both outcomes.                  *)
GetNextStack ==
  \E limit \in {2 * k : k \in 1..(N + 1)} :
  \E start \in {0, 2 * N} :
    /\ start < limit
    /\ LET r == NextStackFor(start, limit, cache)
       IN  /\ cache' = r.cache
           /\ lastStackMin' = r.lsm
           /\ next' = [start |-> start, limit |-> limit, lo |-> r.lo,
                       hi |-> r.hi, trueMin |-> TrueStackMin, end |-> stackEnd]
    /\ UNCHANGED <<guard, cur, stackEnd, sp, push>>

Next ==
  \/ SpDown \/ SpUp \/ TouchGuard \/ Restart
  \/ \E r \in Regions : GC_set_stackbottom(r)
  \/ \E isSelf \in BOOLEAN : PushStackFor(isSelf)
  \/ GetNextStack

Spec == Init /\ [][Next]_vars

-----------------------------------------------------------------------------
TypeOK ==
  /\ guard \in [Regions -> Int]
  /\ \A r \in Regions : guard[r] \in Lo(r)..(Hi(r) - 1)
  /\ cur \in Regions /\ stackEnd = StackEnd(cur)
  /\ sp \in (2 * guard[cur])..(stackEnd - 1)
  /\ lastStackMin \in {2 * k : k \in 1..N} \cup {AddrLimit}
  /\ cache \in [la : Addr \cup {-1}, li : Info]

(* The GC_ASSERT after the stack_min computation of GC_push_stack_for:     *)
(* stack_min, found through the cached query and the hint last_stack_min   *)
(* kept from earlier collections, is the true hot end of the stack, or an  *)
(* address strictly inside the committed stack no higher than sp.          *)
StackMinAssert ==
  push # NoPush =>
    \/ push.min = push.trueMin
    \/ /\ push.sp >= push.min
       /\ push.min < push.end
       /\ push.min > push.trueMin

(* GC_push_stack_for pushes exactly the live committed part of the stack: *)
(* from sp, or from the lowest committed page when sp is still on the      *)
(* untouched guard page, never missing a live word and never reading the   *)
(* guard page, however the stack grew, was replaced, or was switched for   *)
(* another by GC_set_stackbottom since the hint and the cached query were  *)
(* taken.                                                                  *)
PushedLiveStack ==
  push # NoPush =>
    push.from = IF push.sp >= push.trueMin THEN push.sp ELSE push.trueMin

(* The comment of GC_get_next_stack: when the stack's committed part       *)
(* overlaps [start, limit) its bounds are returned, otherwise lo is not     *)
(* below limit, so the caller takes no part of the region for a stack.     *)
NextStackContract ==
  next # NoNext =>
    IF next.trueMin < next.limit /\ next.end > next.start
    THEN next.lo = next.trueMin /\ next.hi = next.end
    ELSE next.lo >= next.limit

====
