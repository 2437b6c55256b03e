------------------------- MODULE PagePoolRefinement -------------------------
(***************************************************************************)
(* What the invariant of PagePoolProofs is good for: the lock excludes in  *)
(* every build, no call writes to a page that somebody owns, and the pool  *)
(* implements PageAllocator.                                               *)
(***************************************************************************)
EXTENDS PagePoolProofs

(* Enough for mutual exclusion, with or without overflow checks. *)
MutexInv ==
  pc \in [Harts -> Holding \cup {"idle", "lock"}] /\ LockInv /\ MutualExclusion

(* A step of a hart inside the pool that stays inside. *)
LEMMA InsideStep ==
  ASSUME MutexInv, NEW h \in Harts, pc[h] \in Holding, NEW label \in Holding,
         pc' = [pc EXCEPT ![h] = label], lock' = lock
  PROVE  MutexInv'
BY DEF MutexInv, LockInv, MutualExclusion, Holding

(* A step of a hart outside the pool that stays outside. *)
LEMMA OutsideStep ==
  ASSUME MutexInv, NEW h \in Harts, pc[h] \notin Holding,
         pc' = [pc EXCEPT ![h] = "lock"], lock' = lock
  PROVE  MutexInv'
BY DEF MutexInv, LockInv, MutualExclusion, Holding

(* Mutex::lock and MutexGuard::drop: at most one hart is in the pool, in   *)
(* a dev and in a release build, a panic inside the pool included.         *)
THEOREM MutexCorrect == Spec => []MutualExclusion
<1>1. Init => MutexInv
  BY DEF Init, MutexInv, LockInv, MutualExclusion, Holding
<1>2. ASSUME MutexInv, [Next]_vars PROVE MutexInv'
  <2>. USE <1>2 DEF Goto, callVars, localVars, poolVars
  <2>1. ASSUME UNCHANGED <<lock, pc>> PROVE MutexInv'
    BY <2>1 DEF MutexInv, LockInv, MutualExclusion
  <2>2. ASSUME NEW h \in Harts, Call(h) PROVE MutexInv'
    <3>1. CASE \E n \in 1..MaxReq : palloc_plural(h, n)
      BY <3>1, OutsideStep DEF palloc_plural, Holding
    <3>2. CASE \E p \in Pages, n \in 1..MaxReq : pfree_plural(h, p, n)
      BY <3>2, OutsideStep DEF pfree_plural, Holding
    <3>3. CASE \E p \in Pages, w \in ClientWords : ClientWrite(h, p, w)
      BY <2>1, <3>3 DEF ClientWrite
    <3>. QED
      BY <2>2, <3>1, <3>2, <3>3 DEF Call
  <2>3. ASSUME NEW h \in Harts, Lock(h) PROVE MutexInv'
    BY <2>3 DEF Lock, Locked, MutexInv, LockInv, MutualExclusion, Holding
  <2>4. ASSUME NEW h \in Harts, Unlock(h) PROVE MutexInv'
    BY <2>4 DEF Unlock, MutexInv, LockInv, MutualExclusion, Holding
  <2>5. ASSUME NEW h \in Harts,
               AllocEnter(h) \/ Outer(h) \/ Extend(h) \/ InnerDone(h) \/ Unlink(h)
        PROVE  MutexInv'
    <3>1. \E label \in Holding : pc' = [pc EXCEPT ![h] = label]
      BY <2>5 DEF AllocEnter, Outer, Extend, InnerDone, Unlink, UnlinkZeroes, UnlinkFree, UnlinkPrv, Holding
    <3>2. pc[h] \in Holding /\ lock' = lock
      BY <2>5 DEF AllocEnter, Outer, Extend, InnerDone, Unlink, UnlinkZeroes, UnlinkFree, UnlinkPrv, Holding
    <3>. QED
      BY <3>1, <3>2, InsideStep
  <2>6. ASSUME NEW h \in Harts,
               FreeEnter(h) \/ InsertEmpty(h) \/ InsertFront(h) \/ InsertLater(h)
               \/ Splice(h)
        PROVE  MutexInv'
    <3>1. \E label \in Holding : pc' = [pc EXCEPT ![h] = label]
      BY <2>6 DEF FreeEnter, InsertEmpty, InsertFront, FrontPrv, InFront, InsertLater, Splice, Holding
    <3>2. pc[h] \in Holding /\ lock' = lock
      BY <2>6 DEF FreeEnter, InsertEmpty, InsertFront, FrontPrv, InFront, InsertLater, Splice, Holding
    <3>. QED
      BY <3>1, <3>2, InsideStep
  <2>7. ASSUME NEW h \in Harts, Walk(h) PROVE MutexInv'
    BY <2>1, <2>7 DEF Walk, HeadNext
  <2>8. ASSUME NEW h \in Harts, Fault(h) PROVE MutexInv'
    <3>1. pc[h] \in Holding /\ lock' = lock /\ pc' = [pc EXCEPT ![h] = "panicked"]
      BY <2>8 DEF Fault, Dereferences, Holding
    <3>. QED
      BY <3>1, InsideStep DEF Holding
  <2>9. CASE UNCHANGED vars
    BY <2>1, <2>9 DEF vars
  <2>10. CASE Next
    BY <2>10, <2>2, <2>3, <2>4, <2>5, <2>6, <2>7, <2>8, <2>9
       DEF Next, Step, PanicLoop
  <2>. QED
    BY <2>9, <2>10
<1>3. MutexInv => MutualExclusion
  BY DEF MutexInv
<1>. QED
  BY <1>1, <1>2, <1>3, PTL DEF Spec

-----------------------------------------------------------------------------
(* A page that a caller holds is in the pool, not free and not part of any *)
(* call under way.                                                         *)
LEMMA HeldPage ==
  ASSUME PoolInv, NEW g \in Harts, NEW p \in held[g]
  PROVE  /\ p \in Pages /\ ~IsFree(p) /\ p # Null
         /\ \A h \in Harts : p \notin InFlight(h)
<1>1. p \in Pages /\ ~IsFree(p)
  BY DEF PoolInv, TypeOK, IsFree, Owned
<1>2. p # Null
  BY <1>1, PoolAssumption DEF Pages, Null
<1>. QED
  BY <1>1, <1>2 DEF PoolInv, NoDoubleAlloc, Owned

(* The pages that an insertion writes to: the region's ends and free pages. *)
LEMMA InsertWrites ==
  ASSUME PoolInv, NEW h \in Harts,
         InsertEmpty(h) \/ InsertFront(h) \/ Splice(h),
         NEW p \in Pages, ~IsFree(p), p \notin InFlight(h)
  PROVE  prv'[p] = prv[p] /\ nxt'[p] = nxt[p] /\ dirty' = dirty
<1>1. op[h] = "free" /\ pc[h] \in {"insert", "walk"}
  BY DEF InsertEmpty, InsertFront, FrontPrv, InFront, Splice, PoolInv, CallInv
<1>2. p # base[h] /\ p # RegionEnd(h)
  BY <1>1, RegionIsOwned
<1>3. p # free /\ (pc[h] = "walk" => p # page[h] /\ p # next[h])
  <2>1. p # free
    BY PoolAssumption DEF PoolInv, FreeListExact, Pages, Null
  <2>2. ASSUME pc[h] = "walk" PROVE p # page[h] /\ p # next[h]
    <3>1. page[h] \in Pages /\ IsFree(page[h]) /\ next[h] = nxt[page[h]]
      BY <2>2 DEF PoolInv, InsertInv
    <3>2. next[h] # Null => IsFree(next[h])
      BY <3>1 DEF PoolInv, FreeListExact
    <3>. QED
      BY <3>1, <3>2, PoolAssumption DEF Pages, Null
  <2>. QED
    BY <2>1, <2>2
<1>. QED
  BY <1>2, <1>3 DEF InsertEmpty, InsertFront, FrontPrv, InFront, Splice, PoolInv, TypeOK

(* No step of palloc or pfree, on any hart, writes to a page that a caller *)
(* holds.                                                                  *)
THEOREM HeldPagesUntouchedHolds ==
  ASSUME OverflowChecks
  PROVE  Spec => HeldPagesUntouched
<1>1. ASSUME PoolInv, [Next]_vars, pc' # pc, NEW g \in Harts, NEW p \in held[g]
      PROVE  prv'[p] = prv[p] /\ nxt'[p] = nxt[p] /\ (p \in dirty' <=> p \in dirty)
  <2>. USE <1>1 DEF poolVars
  <2>0. /\ p \in Pages /\ ~IsFree(p) /\ p # Null
        /\ \A h \in Harts : p \notin InFlight(h)
    BY HeldPage
  <2>1. CASE UNCHANGED poolVars
    BY <2>1
  <2>2. ASSUME NEW h \in Harts, Unlink(h)
        PROVE  prv'[p] = prv[p] /\ nxt'[p] = nxt[p] /\ (p \in dirty' <=> p \in dirty)
    <3>1. p \notin free..page[h] /\ p # next[h]
      BY <2>0, <2>2, UnlinkEffect
    <3>2. /\ prv' = [q \in Pages |-> IF q \in free..page[h] \/ q = next[h]
                                     THEN Null ELSE prv[q]]
          /\ nxt' = [q \in Pages |-> IF q \in free..page[h] THEN Null ELSE nxt[q]]
          /\ dirty' = dirty \ (free..page[h])
      BY <2>2, UnlinkEffect
    <3>. QED
      BY <2>0, <3>1, <3>2
  <2>3. ASSUME NEW h \in Harts, FreeEnter(h)
        PROVE  prv'[p] = prv[p] /\ nxt'[p] = nxt[p] /\ (p \in dirty' <=> p \in dirty)
    <3>1. p \notin Region(h)
      BY <2>0, <2>3, RegionIsOwned DEF FreeEnter
    <3>. QED
      BY <2>0, <2>3, <3>1 DEF FreeEnter
  <2>4. ASSUME NEW h \in Harts, InsertEmpty(h) \/ InsertFront(h) \/ Splice(h)
        PROVE  prv'[p] = prv[p] /\ nxt'[p] = nxt[p] /\ (p \in dirty' <=> p \in dirty)
    BY <2>0, <2>4, InsertWrites
  <2>5. ASSUME NEW h \in Harts, Call(h) PROVE UNCHANGED poolVars
    BY <2>5 DEF Call, palloc_plural, pfree_plural, ClientWrite
  <2>6. ASSUME NEW h \in Harts,
               Lock(h) \/ AllocEnter(h) \/ Outer(h) \/ Extend(h) \/ InnerDone(h)
               \/ InsertLater(h) \/ Walk(h) \/ Fault(h) \/ Unlock(h)
        PROVE  UNCHANGED poolVars
    BY <2>6 DEF Lock, Locked, AllocEnter, Outer, Extend, InnerDone, InsertLater, InFront, Walk, HeadNext,
                Fault, Unlock
  <2>. QED
    BY <2>1, <2>2, <2>3, <2>4, <2>5, <2>6 DEF Next, Step, PanicLoop, vars
<1>2. PoolInv /\ [Next]_vars =>
        [pc' # pc => \A h \in Harts : \A p \in held[h] :
           /\ prv'[p] = prv[p] /\ nxt'[p] = nxt[p]
           /\ p \in dirty' <=> p \in dirty]_vars
  BY <1>1
<1>. QED
  BY <1>2, PoolInvHolds, PTL DEF Spec, HeldPagesUntouched

-----------------------------------------------------------------------------
(* An insertion ends the call's ownership of its region. *)
LEMMA InsertEffect ==
  ASSUME PoolInv, NEW h \in Harts, InsertEmpty(h) \/ InsertFront(h) \/ Splice(h)
  PROVE  /\ base[h] \in Pages /\ RegionEnd(h) \in Pages /\ base[h] <= RegionEnd(h)
         /\ Region(h) \subseteq Owned(h) /\ Owned(h)' = Owned(h) \ Region(h)
         /\ \A g \in Harts \ {h} : Owned(g)' = Owned(g)
<1>. USE DEF InsertEmpty, InsertFront, FrontPrv, InFront, Splice, Goto, callVars, localVars
<1>1. op[h] = "free" /\ pc[h] \in {"insert", "walk"} /\ ret[h] = Null
  BY DEF PoolInv, CallInv
<1>2. /\ InFlight(h) = Region(h) /\ Region(h) \subseteq Pages
      /\ base[h] \in Region(h) /\ RegionEnd(h) \in Region(h)
      /\ \A p \in Region(h) : p \notin held[h]
  BY <1>1, RegionIsOwned
<1>3. OthersSame(h) /\ pc'[h] = "unlock" /\ held' = held /\ ret' = ret
  BY DEF OthersSame, PoolInv, TypeOK
<1>4. InFlight(h)' = {}
  BY <1>1, <1>3 DEF InFlight
<1>5. \A g \in Harts \ {h} : Owned(g)' = Owned(g)
  BY <1>3 DEF InFlight, Region, RegionEnd, OthersSame, Owned
<1>6. base[h] <= RegionEnd(h)
  BY <1>2 DEF Region
<1>. QED
  BY <1>2, <1>3, <1>4, <1>5, <1>6 DEF Owned

(* Every other step leaves every page with its owner. *)
LEMMA NoTransfer ==
  ASSUME PoolInv, NEW h \in Harts,
         \/ Call(h) \/ Lock(h) \/ Unlock(h) \/ AllocEnter(h) \/ Outer(h)
         \/ Extend(h) \/ InnerDone(h) \/ FreeEnter(h) \/ InsertLater(h)
         \/ Walk(h) \/ Fault(h)
  PROVE  \A g \in Harts : Owned(g)' = Owned(g)
<1>. USE DEF Goto, callVars, localVars, poolVars
<1>0. ASSUME OthersSame(h), \A g \in Harts \ {h} : held'[g] = held[g],
             Owned(h)' = Owned(h)
      PROVE  \A g \in Harts : Owned(g)' = Owned(g)
  BY <1>0 DEF InFlight, Region, RegionEnd, OthersSame, Owned
<1>1. CASE \E n \in 1..MaxReq : palloc_plural(h, n)
  <2>1. OthersSame(h) /\ pc[h] = "idle" /\ pc'[h] = "lock" /\ op'[h] = "alloc" /\ held' = held
    BY <1>1 DEF palloc_plural, OthersSame, PoolInv, TypeOK
  <2>. QED
    BY <1>0, <2>1 DEF InFlight, Owned
<1>2. ASSUME NEW q \in Pages, NEW n \in 1..MaxReq, pfree_plural(h, q, n)
      PROVE  \A g \in Harts : Owned(g)' = Owned(g)
  <2>1. /\ OthersSame(h) /\ pc[h] = "idle" /\ pc'[h] = "lock" /\ op'[h] = "free"
        /\ base'[h] = q /\ num'[h] = n /\ held'[h] = held[h] \ (q..(q + n - 1))
        /\ q..(q + n - 1) \subseteq held[h]
        /\ \A g \in Harts \ {h} : held'[g] = held[g]
    BY <1>2 DEF pfree_plural, OthersSame, PoolInv, TypeOK
  <2>2. InFlight(h) = {} /\ InFlight(h)' = q..(q + n - 1)
    BY <2>1 DEF InFlight, Region, RegionEnd
  <2>3. Owned(h)' = Owned(h)
    BY <2>1, <2>2 DEF Owned
  <2>. QED
    BY <1>0, <2>1, <2>3
<1>3. CASE \E p \in Pages, w \in ClientWords : ClientWrite(h, p, w)
  BY <1>3 DEF ClientWrite, InFlight, Region, RegionEnd, Owned
<1>4. CASE Unlock(h)
  <2>1. /\ OthersSame(h) /\ pc[h] = "unlock" /\ pc'[h] = "idle" /\ op'[h] = "alloc"
        /\ \A g \in Harts \ {h} : held'[g] = held[g]
    BY <1>4 DEF Unlock, OthersSame, PoolInv, TypeOK
  <2>2. InFlight(h) = IF ret[h] = Null THEN {} ELSE ret[h]..(ret[h] + num[h] - 1)
    BY <2>1 DEF InFlight
  <2>3. InFlight(h)' = {} /\ held'[h] = held[h] \cup InFlight(h)
    BY <1>4, <2>1, <2>2 DEF InFlight, Unlock, PoolInv, TypeOK
  <2>4. Owned(h)' = Owned(h)
    BY <2>3 DEF Owned
  <2>. QED
    BY <1>0, <2>1, <2>4
<1>5. CASE Lock(h)
  <2>1. OthersSame(h) /\ held' = held
    BY <1>5 DEF Lock, Locked, OthersSame, PoolInv, TypeOK
  <2>2. InFlight(h)' = InFlight(h)
    BY <1>5 DEF Lock, Locked, InFlight, Region, RegionEnd, PoolInv, TypeOK
  <2>. QED
    BY <1>0, <2>1, <2>2 DEF Owned
<1>6. CASE AllocEnter(h) \/ Outer(h) \/ Extend(h) \/ InnerDone(h)
  <2>1. OthersSame(h) /\ held' = held /\ ret' = ret /\ op' = op
    BY <1>6 DEF AllocEnter, Outer, Extend, InnerDone, OthersSame, PoolInv, TypeOK
  <2>2. ret[h] = Null /\ op[h] = "alloc"
    BY <1>6 DEF AllocEnter, Outer, Extend, InnerDone, PoolInv, CallInv
  <2>3. InFlight(h) = {} /\ InFlight(h)' = {}
    BY <2>1, <2>2 DEF InFlight
  <2>. QED
    BY <1>0, <2>1, <2>3 DEF Owned
<1>7. CASE FreeEnter(h) \/ InsertLater(h) \/ Walk(h)
  <2>1. /\ OthersSame(h) /\ held' = held /\ UNCHANGED <<op, base, num>>
        /\ pc[h] \in {"enter", "insert", "walk"} /\ pc'[h] \in {"insert", "walk"}
    BY <1>7 DEF FreeEnter, InsertLater, InFront, Walk, HeadNext, OthersSame, PoolInv, TypeOK
  <2>2. op[h] = "free"
    BY <1>7 DEF FreeEnter, InsertLater, InFront, Walk, HeadNext, PoolInv, CallInv
  <2>3. InFlight(h)' = InFlight(h)
    BY <2>1, <2>2 DEF InFlight, Region, RegionEnd
  <2>. QED
    BY <1>0, <2>1, <2>3 DEF Owned
<1>8. CASE Fault(h)
  <2>1. OthersSame(h) /\ held' = held /\ UNCHANGED <<op, ret>> /\ pc'[h] = "panicked"
    BY <1>8 DEF Fault, OthersSame, PoolInv, TypeOK
  <2>2. PoolInv'
    BY <1>8, FaultInv
  <2>3. op[h] = "alloc"
    BY <2>1, <2>2 DEF PoolInv, CallInv
  <2>4. pc[h] # "unlock"
    BY <1>8 DEF Fault, Dereferences
  <2>5. InFlight(h)' = {} /\ InFlight(h) = {}
    BY <2>1, <2>3, <2>4 DEF InFlight
  <2>. QED
    BY <1>0, <2>1, <2>5 DEF Owned
<1>. QED
  BY <1>1, <1>2, <1>3, <1>4, <1>5, <1>6, <1>7, <1>8 DEF Call

(* The pool implements the abstract allocator: a region changes hands when *)
(* it is unlinked from the list and when it is linked back in, and at no   *)
(* other step of a call.                                                   *)
THEOREM PoolRefinesAllocator ==
  ASSUME OverflowChecks
  PROVE  Spec => RefinesAllocator
<1>. DEFINE own == [h \in Harts |-> Owned(h)]
<1>1. Init => Allocator!Init
  BY DEF Init, Allocator!Init, Owned, InFlight
<1>2. ASSUME PoolInv, [Next]_vars PROVE Allocator!Next \/ UNCHANGED own
  <2>. USE <1>2
  <2>1. ASSUME \A g \in Harts : Owned(g)' = Owned(g) PROVE UNCHANGED own
    BY <2>1
  <2>2. ASSUME NEW h \in Harts, Unlink(h) PROVE Allocator!Next
    <3>1. /\ free \in Pages /\ page[h] \in Pages /\ free <= page[h]
          /\ \A p \in free..page[h] : IsFree(p)
          /\ free..page[h] \subseteq Pages
          /\ \A g \in Harts \ {h} : Owned(g)' = Owned(g)
          /\ Owned(h)' = Owned(h) \cup free..page[h]
      BY <2>2, UnlinkEffect
    <3>2. free..page[h] \subseteq Allocator!Available
      BY <3>1 DEF Allocator!Available, IsFree
    <3>3. own' = [own EXCEPT ![h] = @ \cup free..page[h]]
      BY <3>1
    <3>4. Allocator!Alloc(h, free, page[h])
      BY <3>1, <3>2, <3>3 DEF Allocator!Alloc
    <3>. QED
      BY <3>1, <3>4 DEF Allocator!Next
  <2>3. ASSUME NEW h \in Harts, InsertEmpty(h) \/ InsertFront(h) \/ Splice(h)
        PROVE  Allocator!Next
    <3>1. /\ base[h] \in Pages /\ RegionEnd(h) \in Pages /\ base[h] <= RegionEnd(h)
          /\ Region(h) \subseteq Owned(h) /\ Owned(h)' = Owned(h) \ Region(h)
          /\ \A g \in Harts \ {h} : Owned(g)' = Owned(g)
      BY <2>3, InsertEffect
    <3>2. own' = [own EXCEPT ![h] = @ \ Region(h)]
      BY <3>1
    <3>3. Allocator!Free(h, base[h], RegionEnd(h))
      BY <3>1, <3>2 DEF Allocator!Free, Region
    <3>. QED
      BY <3>1, <3>3 DEF Allocator!Next
  <2>4. ASSUME UNCHANGED vars PROVE UNCHANGED own
    BY <2>4 DEF vars, poolVars, callVars, localVars, Owned, InFlight, Region, RegionEnd
  <2>. QED
    BY <2>1, <2>2, <2>3, <2>4, NoTransfer DEF Next, Step, PanicLoop
<1>3. PoolInv /\ [Next]_vars => [Allocator!Next]_own
  BY <1>2
<1>. QED
  BY <1>1, <1>3, PoolInvHolds, PTL DEF Spec, RefinesAllocator, Allocator!Spec
=============================================================================
