------------------------------ MODULE PagePool ------------------------------
(***************************************************************************)
(* The physical page allocator of the kernel (src/vm/palloc.rs) and the    *)
(* spinlock that guards it (src/lock/mutex.rs).                            *)
(*                                                                         *)
(* Free pages form a doubly linked list kept inside the free pages: word 0 *)
(* of a free page is the previous free page, word 1 the next one.  A page  *)
(* is named by its frame number (address / 4096), so Null is frame 0.      *)
(* Every loop of alloc_pages and free_pages is a sequence of steps of the  *)
(* calling hart, so that nothing but the lock keeps two calls apart.       *)
(***************************************************************************)
EXTENDS Integers

CONSTANTS
  Harts,           \* the harts that call the allocator
  Bottom,          \* frame of bss_end(), the first page of the pool
  Top,             \* frame of dram_end(), one past the last page
  Frames,          \* page frames of a usize address (2^52)
  MaxReq,          \* largest num_pages of a request
  OverflowChecks,  \* TRUE for the dev profile, FALSE for release
  ClientWords      \* what callers store in words 0 and 1 of their pages

Null  == 0
Pages == Bottom..(Top - 1)
Ptr   == Pages \cup {Null}

(***************************************************************************)
(* RAM is 128 MiB at 2 GiB, so a pool page's frame number is larger than   *)
(* any number of pages in RAM; the pool has at least the two pages without *)
(* which Pool::new would leave a dangling next pointer; a wrapped          *)
(* difference of addresses is larger than any request.                     *)
(***************************************************************************)
ASSUME PoolAssumption ==
  /\ Bottom \in Nat /\ Top \in Nat /\ Frames \in Nat /\ MaxReq \in Nat
  /\ Bottom + 2 <= Top
  /\ 1 <= MaxReq /\ MaxReq < Bottom
  /\ Top + MaxReq < Frames
  /\ OverflowChecks \in BOOLEAN
  /\ ClientWords \subseteq Ptr

VARIABLES
  lock,   \* Mutex.lock_state, 0 = unlocked, 1 = locked
  free,   \* Pool.free, Null for None
  prv,    \* word 0 of every page of the pool
  nxt,    \* word 1 of every page of the pool
  dirty,  \* the pages whose words 2..511 are not all zero
  held,   \* held[h]: the pages the code running on hart h owns
  pc,     \* where hart h is in a call
  op,     \* the call: "alloc" or "free"
  base,   \* argument page of a free
  num,    \* argument num_pages (1 for palloc and pfree)
  page,   \* local: alloc_pages' page, free_pages' head
  next,   \* local: alloc_pages' next, free_pages' head_next
  start,  \* local: alloc_pages' start_region
  ret     \* the page alloc_pages returns, Null for Err

poolVars  == <<free, prv, nxt, dirty>>
callVars  == <<op, base, num>>
localVars == <<page, next, start, ret>>
vars == <<lock, poolVars, held, pc, callVars, localVars>>

Goto(h, label) == pc' = [pc EXCEPT ![h] = label]

-----------------------------------------------------------------------------
(* PagePool::new and Pool::new: every page is linked to its neighbours.    *)
Init ==
  /\ lock  = 0
  /\ free  = Bottom
  /\ prv   = [p \in Pages |-> IF p = Bottom THEN Null ELSE p - 1]
  /\ nxt   = [p \in Pages |-> IF p = Top - 1 THEN Null ELSE p + 1]
  /\ dirty = {}
  /\ held  = [h \in Harts |-> {}]
  /\ pc    = [h \in Harts |-> "idle"]
  /\ op    = [h \in Harts |-> "alloc"]
  /\ base  = [h \in Harts |-> Bottom]
  /\ num   = [h \in Harts |-> 1]
  /\ page  = [h \in Harts |-> Null]
  /\ next  = [h \in Harts |-> Null]
  /\ start = [h \in Harts |-> Null]
  /\ ret   = [h \in Harts |-> Null]

-----------------------------------------------------------------------------
(* The callers.  palloc() is palloc_plural(1), pfree(p) is                 *)
(* pfree_plural(p, 1).  A caller frees pages it owns, and only those.      *)

palloc_plural(h, n) ==
  /\ pc[h] = "idle"
  /\ op'  = [op EXCEPT ![h] = "alloc"]
  /\ num' = [num EXCEPT ![h] = n]
  /\ Goto(h, "lock")
  /\ UNCHANGED <<lock, poolVars, held, base, localVars>>

pfree_plural(h, p, n) ==
  /\ pc[h] = "idle"
  /\ p..(p + n - 1) \subseteq held[h]
  /\ held' = [held EXCEPT ![h] = @ \ (p..(p + n - 1))]
  /\ op'   = [op EXCEPT ![h] = "free"]
  /\ base' = [base EXCEPT ![h] = p]
  /\ num'  = [num EXCEPT ![h] = n]
  /\ Goto(h, "lock")
  /\ UNCHANGED <<lock, poolVars, localVars>>

(* The owner of a page writes what it likes, over the two link words too.  *)
ClientWrite(h, p, w) ==
  /\ p \in held[h]
  /\ prv' = [prv EXCEPT ![p] = w]
  /\ nxt' = [nxt EXCEPT ![p] = w]
  /\ dirty' = dirty \cup {p}
  /\ UNCHANGED <<lock, free, held, pc, callVars, localVars>>

-----------------------------------------------------------------------------
(* Mutant of Locked: the value read back is compared with 0. *)
LockedInverted == lock = 0

Locked == lock = 1

(* Mutex::lock: one atomic swap; a hart that reads back 1 spins.           *)
Lock(h) ==
  /\ pc[h] = "lock"
  /\ lock' = 1
  /\ Goto(h, IF Locked THEN "lock" ELSE "enter")
  /\ UNCHANGED <<poolVars, held, callVars, localVars>>

(* MutexGuard::drop at the end of the call, and the return to the caller,  *)
(* which owns num pages from ret on after an Ok.  The arguments and locals *)
(* of the call are gone.                                                   *)
Unlock(h) ==
  /\ pc[h] = "unlock"
  /\ lock' = 0
  /\ held' = IF ret[h] = Null THEN held
             ELSE [held EXCEPT ![h] = @ \cup ret[h]..(ret[h] + num[h] - 1)]
  /\ op'    = [op EXCEPT ![h] = "alloc"]
  /\ base'  = [base EXCEPT ![h] = Bottom]
  /\ num'   = [num EXCEPT ![h] = 1]
  /\ page'  = [page EXCEPT ![h] = Null]
  /\ next'  = [next EXCEPT ![h] = Null]
  /\ start' = [start EXCEPT ![h] = Null]
  /\ ret'   = [ret EXCEPT ![h] = Null]
  /\ Goto(h, "idle")
  /\ UNCHANGED poolVars

-----------------------------------------------------------------------------
(* Pool::alloc_pages *)

(* (page - start_region) / 0x1000 in usize arithmetic. *)
Span(h) == (page[h] - start[h]) % Frames

(* The condition of the inner while: next is adjacent and more is needed. *)
Extends(h) == next[h] = page[h] + 1 /\ Span(h) < num[h] - 1

(* The pages written once the region is found: its own, the one behind it  *)
(* and, when the region is not at the head of the list, the one before it. *)
UnlinkTouches(h) ==
  IF start[h] \in Pages /\ prv[start[h]] # Null
  THEN {start[h], prv[start[h]], next[h]}
  ELSE {start[h]} \cup ({next[h]} \ {Null})

(* The pages that the next step of hart h dereferences a pointer to. *)
Dereferences(h) ==
  CASE pc[h] = "inner" /\ Extends(h) -> {next[h]}
    [] pc[h] = "unlink"              -> UnlinkTouches(h)
    [] pc[h] = "walk"                -> {next[h]} \ {Null}
    [] OTHER                         -> {}

(* None is OutOfPages; otherwise read_free and the assertion on prev. *)
AllocEnter(h) ==
  /\ pc[h] = "enter" /\ op[h] = "alloc"
  /\ page'  = [page EXCEPT ![h] = free]
  /\ start' = [start EXCEPT ![h] = free]
  /\ next'  = [next EXCEPT ![h] = IF free = Null THEN Null ELSE nxt[free]]
  /\ Goto(h, IF free = Null THEN "unlock"
             ELSE IF prv[free] = Null THEN "outer" ELSE "panicked")
  /\ UNCHANGED <<lock, poolVars, held, callVars, ret>>

(* The outer while; the subtraction panics in a build with overflow checks *)
(* when start_region lies beyond page.                                     *)
Outer(h) ==
  /\ pc[h] = "outer"
  /\ Goto(h, IF OverflowChecks /\ page[h] < start[h] THEN "panicked"
             ELSE IF Span(h) < num[h] - 1 THEN "inner" ELSE "unlink")
  /\ UNCHANGED <<lock, poolVars, held, callVars, localVars>>

(* The inner while takes the adjacent page; the end of the list is Err. *)
Extend(h) ==
  /\ pc[h] = "inner" /\ Extends(h)
  /\ Dereferences(h) \subseteq Pages
  /\ page' = [page EXCEPT ![h] = next[h]]
  /\ next' = [next EXCEPT ![h] = nxt[next[h]]]
  /\ Goto(h, IF nxt[next[h]] = Null THEN "unlock" ELSE "inner")
  /\ UNCHANGED <<lock, poolVars, held, callVars, start, ret>>

(* After the inner while: a gap behind page moves start_region to the page *)
(* behind the gap; page itself stays.                                      *)
InnerDone(h) ==
  /\ pc[h] = "inner"
  /\ ~Extends(h)
  /\ start' = IF next[h] = page[h] + 1 THEN start
              ELSE [start EXCEPT ![h] = next[h]]
  /\ Goto(h, "outer")
  /\ UNCHANGED <<lock, poolVars, held, callVars, page, next, ret>>

(* Mutants of what Unlink does: nothing is zeroed; Pool.free stays where   *)
(* it was; the new first page keeps its prev pointer.                      *)
NothingZeroed(h)  == {}
FreeKept(h)       == free
PrvKept(h)        == [p \in Pages |-> IF p \in start[h]..page[h] THEN Null ELSE prv[p]]

UnlinkZeroes(h) == start[h]..page[h]
UnlinkFree(h)   == IF prv[start[h]] = Null THEN next[h] ELSE free
UnlinkPrv(h)    == [p \in Pages |-> IF p \in UnlinkZeroes(h) THEN Null
                                    ELSE IF p = next[h] THEN prv[start[h]] ELSE prv[p]]

(* Unlink start_region..page, zero those pages, return start_region. *)
Unlink(h) ==
  /\ pc[h] = "unlink"
  /\ Dereferences(h) \subseteq Pages
  /\ free'  = UnlinkFree(h)
  /\ prv'   = UnlinkPrv(h)
  /\ nxt'   = [p \in Pages |-> IF p \in UnlinkZeroes(h) THEN Null
                               ELSE IF p = prv[start[h]] THEN next[h] ELSE nxt[p]]
  /\ dirty' = dirty \ UnlinkZeroes(h)
  /\ ret'   = [ret EXCEPT ![h] = start[h]]
  /\ Goto(h, "unlock")
  /\ UNCHANGED <<lock, held, callVars, page, next, start>>

-----------------------------------------------------------------------------
(* Pool::free_pages *)

(* Mutant of RegionEnd: the page behind the region. *)
RegionStop(h) == base[h] + num[h]

RegionEnd(h) == base[h] + num[h] - 1
Region(h)    == base[h]..RegionEnd(h)

(* Zero the region and link its pages to each other.  A one-page region is *)
(* left pointing to the page after it until it is inserted.                *)
FreeEnter(h) ==
  /\ pc[h] = "enter" /\ op[h] = "free"
  /\ prv' = [p \in Pages |-> IF p \notin Region(h) THEN prv[p]
                             ELSE IF p = base[h] THEN Null ELSE p - 1]
  /\ nxt' = [p \in Pages |-> IF p \notin Region(h) THEN nxt[p]
                             ELSE IF p < RegionEnd(h) \/ num[h] = 1 THEN p + 1
                             ELSE Null]
  /\ dirty' = dirty \ Region(h)
  /\ Goto(h, "insert")
  /\ UNCHANGED <<lock, free, held, callVars, localVars>>

InsertEmpty(h) ==
  /\ pc[h] = "insert" /\ free = Null
  /\ prv'  = [prv EXCEPT ![base[h]] = Null]
  /\ nxt'  = [nxt EXCEPT ![RegionEnd(h)] = Null]
  /\ free' = base[h]
  /\ Goto(h, "unlock")
  /\ UNCHANGED <<lock, dirty, held, callVars, localVars>>

(* Mutants of InsertFront: the old first page is not linked back; the      *)
(* region is inserted at the front whatever its address.                   *)
FrontPrvOneWay(h) == [prv EXCEPT ![base[h]] = Null]
AlwaysInFront(h)  == TRUE

FrontPrv(h) == [prv EXCEPT ![free] = RegionEnd(h), ![base[h]] = Null]
InFront(h)  == free > RegionEnd(h)

InsertFront(h) ==
  /\ pc[h] = "insert" /\ free # Null /\ InFront(h)
  /\ prv'  = FrontPrv(h)
  /\ nxt'  = [nxt EXCEPT ![RegionEnd(h)] = free]
  /\ free' = base[h]
  /\ Goto(h, "unlock")
  /\ UNCHANGED <<lock, dirty, held, callVars, localVars>>

InsertLater(h) ==
  /\ pc[h] = "insert" /\ free # Null /\ ~InFront(h)
  /\ page' = [page EXCEPT ![h] = free]
  /\ next' = [next EXCEPT ![h] = nxt[free]]
  /\ Goto(h, "walk")
  /\ UNCHANGED <<lock, poolVars, held, callVars, start, ret>>

WalkOn(h) == next[h] # Null /\ next[h] < RegionEnd(h)

(* Mutant of HeadNext: head_next is not read again. *)
HeadNextKept(h) == next[h]

HeadNext(h) == nxt[next[h]]

Walk(h) ==
  /\ pc[h] = "walk" /\ WalkOn(h)
  /\ Dereferences(h) \subseteq Pages
  /\ page' = [page EXCEPT ![h] = next[h]]
  /\ next' = [next EXCEPT ![h] = HeadNext(h)]
  /\ UNCHANGED <<lock, poolVars, held, pc, callVars, start, ret>>

(* Insert after head, at the end of the list or before head_next. *)
Splice(h) ==
  /\ pc[h] = "walk" /\ ~WalkOn(h)
  /\ Dereferences(h) \subseteq Pages
  /\ prv' = [p \in Pages |-> IF p = base[h] THEN page[h]
                             ELSE IF p = next[h] THEN RegionEnd(h) ELSE prv[p]]
  /\ nxt' = [p \in Pages |-> IF p = RegionEnd(h) THEN next[h]
                             ELSE IF p = page[h] THEN base[h] ELSE nxt[p]]
  /\ Goto(h, "unlock")
  /\ UNCHANGED <<lock, free, dirty, held, callVars, localVars>>

-----------------------------------------------------------------------------
(* A load or store outside the mapped heap traps into s_handler, which     *)
(* panics.  The panic handler never returns, so a held lock stays held.    *)
Fault(h) ==
  /\ ~(Dereferences(h) \subseteq Pages)
  /\ Goto(h, "panicked")
  /\ UNCHANGED <<lock, poolVars, held, callVars, localVars>>

PanicLoop(h) == pc[h] = "panicked" /\ UNCHANGED vars

-----------------------------------------------------------------------------
Call(h) ==
  \/ \E n \in 1..MaxReq : palloc_plural(h, n)
  \/ \E p \in Pages, n \in 1..MaxReq : pfree_plural(h, p, n)
  \/ \E p \in Pages, w \in ClientWords : ClientWrite(h, p, w)

(* The steps of a call under way, which the hart goes on executing. *)
Step(h) ==
  \/ Lock(h) \/ AllocEnter(h) \/ Outer(h) \/ Extend(h) \/ InnerDone(h)
  \/ Unlink(h) \/ FreeEnter(h) \/ InsertEmpty(h) \/ InsertFront(h)
  \/ InsertLater(h) \/ Walk(h) \/ Splice(h) \/ Fault(h) \/ Unlock(h)

Next == \E h \in Harts : Call(h) \/ Step(h) \/ PanicLoop(h)

Spec == Init /\ [][Next]_vars

(* A hart never stops in the middle of a call; its next call is its own    *)
(* business.  The spinlock gives no fairness among the harts that spin.    *)
FairSpec == Spec /\ \A h \in Harts : WF_vars(Step(h))

-----------------------------------------------------------------------------
(* Who owns a page: a caller, or the call that is taking or returning it.  *)

InFlight(h) ==
  IF op[h] = "free" /\ pc[h] \in {"lock", "enter", "insert", "walk"}
  THEN Region(h)
  ELSE IF pc[h] = "unlock" /\ ret[h] # Null
  THEN ret[h]..(ret[h] + num[h] - 1)
  ELSE {}

Owned(h) == held[h] \cup InFlight(h)

IsFree(p) == \A h \in Harts : p \notin Owned(h)

(* Every pc value from the swap that took the lock to the store of 0; a    *)
(* hart that panicked keeps the lock.                                      *)
Holding ==
  {"enter", "outer", "inner", "unlink", "insert", "walk", "unlock", "panicked"}

TypeOK ==
  /\ lock \in {0, 1}
  /\ free \in Ptr
  /\ prv \in [Pages -> Ptr]
  /\ nxt \in [Pages -> Ptr \cup {Top}]
  /\ dirty \subseteq Pages
  /\ held \in [Harts -> SUBSET Pages]
  /\ pc \in [Harts -> Holding \cup {"idle", "lock"}]
  /\ op \in [Harts -> {"alloc", "free"}]
  /\ base \in [Harts -> Pages]
  /\ num \in [Harts -> 1..MaxReq]
  /\ page \in [Harts -> Ptr]
  /\ next \in [Harts -> Ptr]
  /\ start \in [Harts -> Ptr]
  /\ ret \in [Harts -> Ptr]

(* The spinlock admits one hart to the pool at a time (mutex.rs).          *)
MutualExclusion ==
  \A g, h \in Harts : pc[g] \in Holding /\ pc[h] \in Holding => g = h

(* No page has two owners, and no call hands out a page its caller already *)
(* holds: palloc never returns a page that is in use (palloc.rs).          *)
NoDoubleAlloc ==
  /\ \A g, h \in Harts : g # h => Owned(g) \cap Owned(h) = {}
  /\ \A h \in Harts : held[h] \cap InFlight(h) = {}

(* In every state, the middle of a call included, the list reached from    *)
(* Pool.free holds exactly the pages nobody owns, in address order, and    *)
(* every prev pointer is the inverse of a next pointer.                    *)
FreeListExact ==
  /\ free # Null => IsFree(free) /\ prv[free] = Null
  /\ \A p \in Pages : IsFree(p) => free # Null /\ free <= p
  /\ \A p \in Pages : IsFree(p) /\ nxt[p] # Null =>
       nxt[p] \in Pages /\ IsFree(nxt[p]) /\ p < nxt[p] /\ prv[nxt[p]] = p
  /\ \A p, q \in Pages : IsFree(p) /\ IsFree(q) /\ p < q =>
       nxt[p] # Null /\ nxt[p] <= q
  /\ \A p \in Pages : IsFree(p) /\ p # free =>
       prv[p] \in Pages /\ IsFree(prv[p]) /\ nxt[prv[p]] = p

(* The pages alloc_pages returns are in the pool and hold nothing but      *)
(* zeroes, whatever their last owner left in them (global.rs: "palloc      *)
(* already zeros"; walk() relies on it for new page tables).               *)
AllocIsZeroed ==
  \A h \in Harts : pc[h] = "unlock" /\ ret[h] # Null =>
    \A p \in ret[h]..(ret[h] + num[h] - 1) :
      p \in Pages /\ prv[p] = Null /\ nxt[p] = Null /\ p \notin dirty

(* A request for one page never panics, and is refused only when no page   *)
(* at all is free.                                                         *)
SinglePageServed ==
  \A h \in Harts : op[h] = "alloc" /\ num[h] = 1 =>
    /\ pc[h] # "panicked"
    /\ pc[h] = "unlock" /\ ret[h] = Null => \A p \in Pages : ~IsFree(p)

(* The first run of free pages is not longer than the request of hart h. *)
FirstRunShort(h) ==
  \E p \in free..(free + num[h]) : p \notin Pages \/ ~IsFree(p)

(* How a request may fail, by a panic or by OutOfPages: only one for       *)
(* several pages does while pages are free, and only when the first run of *)
(* free pages is not longer than the request.  (That it fails then is what *)
(* the code does at a gap, palloc.rs:227, and at the end of the list,      *)
(* palloc.rs:220, although a comment promises to search on.)               *)
FailsOnlyWhenShort ==
  \A h \in Harts :
    /\ pc[h] = "panicked" => op[h] = "alloc" /\ num[h] > 1 /\ FirstRunShort(h)
    /\ op[h] = "alloc" /\ num[h] > 1 /\ pc[h] = "unlock" /\ ret[h] = Null =>
         FirstRunShort(h)

(* Pages are handed out from the low end of memory: nothing below the      *)
(* region a call returns is free (the kernel's first page goes to the      *)
(* first caller).                                                          *)
AllocTakesLowest ==
  \A h \in Harts : pc[h] = "unlock" /\ ret[h] # Null =>
    \A p \in Pages : IsFree(p) => ret[h] + num[h] - 1 < p

(* No step of a call writes to a page that a caller owns.  (A step of a    *)
(* call moves a pc; the walk over the list, which does not, only reads.)   *)
HeldPagesUntouched ==
  [][pc' # pc =>
       \A h \in Harts : \A p \in held[h] :
         /\ prv'[p] = prv[p] /\ nxt'[p] = nxt[p]
         /\ p \in dirty' <=> p \in dirty]_vars

(* A hart that took the lock gives it back or panics: the walks over the   *)
(* list end.                                                               *)
CallReturns ==
  \A h \in Harts : pc[h] \in Holding ~> pc[h] \in {"idle", "panicked"}

(* The pool implements the allocator its callers expect. *)
Allocator == INSTANCE PageAllocator WITH own <- [h \in Harts |-> Owned(h)]
RefinesAllocator == Allocator!Spec

-----------------------------------------------------------------------------
(* The inductive invariant behind the safety properties, for a build with  *)
(* overflow checks: what each local means while its call is under way.     *)

LockInv == \A h \in Harts : pc[h] \in Holding => lock = 1

CallInv(h) ==
  /\ pc[h] # "unlock" => ret[h] = Null
  /\ pc[h] \in {"insert", "walk"} => op[h] = "free"
  /\ pc[h] \in {"outer", "inner", "unlink", "panicked"} => op[h] = "alloc"
  /\ op[h] = "free" /\ pc[h] \in {"lock", "enter", "insert", "walk"} =>
       RegionEnd(h) \in Pages

(* alloc_pages: the pages start_region..page are the first pages of the    *)
(* list, until a gap or the end of the list dooms the search.              *)
SearchInv(h) ==
  pc[h] \in {"outer", "inner", "unlink"} =>
    /\ page[h] \in Pages /\ IsFree(page[h]) /\ next[h] = nxt[page[h]]
    /\ \/ /\ start[h] = free /\ start[h] <= page[h]
          /\ page[h] <= start[h] + num[h] - 1
          /\ \A p \in start[h]..page[h] : IsFree(p)
          /\ pc[h] = "inner" => num[h] > 1
          /\ pc[h] = "unlink" => page[h] = start[h] + num[h] - 1
       \/ /\ pc[h] = "outer" /\ (start[h] = Null \/ page[h] < start[h])
          /\ num[h] > 1 /\ FirstRunShort(h)
       \/ /\ pc[h] = "unlink" /\ start[h] = Null
          /\ num[h] > 1 /\ FirstRunShort(h)

(* free_pages: the region is linked inside, and the walk stands on the     *)
(* last free page below the region that it has seen.                       *)
InsertInv(h) ==
  /\ pc[h] \in {"insert", "walk"} =>
       \A p \in Region(h) : /\ base[h] < p => prv[p] = p - 1
                            /\ p < RegionEnd(h) => nxt[p] = p + 1
  /\ pc[h] = "walk" =>
       /\ free # Null
       /\ page[h] \in Pages /\ IsFree(page[h]) /\ page[h] < base[h]
       /\ next[h] = nxt[page[h]]

(* PoolInv is inductive, and implies each of the invariants above. *)
PoolInv ==
  /\ TypeOK /\ LockInv /\ MutualExclusion /\ NoDoubleAlloc /\ FreeListExact
  /\ \A h \in Harts : CallInv(h) /\ SearchInv(h) /\ InsertInv(h)
  /\ AllocIsZeroed /\ SinglePageServed /\ FailsOnlyWhenShort /\ AllocTakesLowest
=============================================================================
