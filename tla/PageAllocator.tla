---------------------------- MODULE PageAllocator ----------------------------
(***************************************************************************)
(* What the kernel page allocator promises its callers, with no free list  *)
(* and no lock: every page is either available or owned by one hart, a     *)
(* hart gains a run of contiguous available pages at a time, and gives     *)
(* back runs of pages it owns.  PagePool implements this specification.    *)
(***************************************************************************)
EXTENDS Integers

CONSTANTS
  Harts,      \* the callers
  Pages       \* the page frames of the pool, an interval of integers

VARIABLE own  \* own[h]: the pages hart h owns

Available == {p \in Pages : \A h \in Harts : p \notin own[h]}

Init == own = [h \in Harts |-> {}]

(* palloc and palloc_plural, when they succeed, for the run a..b. *)
Alloc(h, a, b) ==
  /\ a <= b
  /\ a..b \subseteq Available
  /\ own' = [own EXCEPT ![h] = @ \cup a..b]

(* pfree and pfree_plural. *)
Free(h, a, b) ==
  /\ a <= b
  /\ a..b \subseteq own[h]
  /\ own' = [own EXCEPT ![h] = @ \ (a..b)]

Next == \E h \in Harts, a, b \in Pages : Alloc(h, a, b) \/ Free(h, a, b)

Spec == Init /\ [][Next]_own
=============================================================================
