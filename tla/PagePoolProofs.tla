--------------------------- MODULE PagePoolProofs ---------------------------
(***************************************************************************)
(* Proofs about PagePool, for every set of harts, every size of the pool   *)
(* and every bound on requests.                                            *)
(***************************************************************************)
EXTENDS PagePool, TLAPS

(* In a build with overflow checks the wrapped difference is only taken    *)
(* when it is the difference.                                              *)
LEMMA SpanIsDifference ==
  ASSUME NEW h \in Harts, page[h] \in Pages, start[h] \in Ptr,
         start[h] <= page[h]
  PROVE  Span(h) = page[h] - start[h]
<1>1. page[h] - start[h] \in 0..(Frames - 1)
  BY PoolAssumption DEF Pages, Ptr, Null
<1>2. ASSUME NEW x \in Nat, NEW n \in Nat, x < n
      PROVE  x % n = x
  BY <1>2, Z3
<1>. QED
  BY <1>1, <1>2, PoolAssumption DEF Span

(* Initially every page is on the list. *)
LEMMA InitInv == Init => PoolInv
<1>. SUFFICES ASSUME Init PROVE PoolInv
  OBVIOUS
<1>. USE PoolAssumption DEF Init
<1>1. TypeOK
  BY DEF TypeOK, Pages, Ptr, Null, Holding
<1>2. \A h \in Harts : Owned(h) = {}
  BY DEF Owned, InFlight
<1>3. \A p \in Pages : IsFree(p)
  BY <1>2 DEF IsFree
<1>4. LockInv /\ MutualExclusion
  BY DEF LockInv, MutualExclusion, Holding
<1>5. NoDoubleAlloc
  BY <1>2 DEF NoDoubleAlloc, Owned
<1>6. FreeListExact
  BY <1>3 DEF FreeListExact, Pages, Null
<1>7. ASSUME NEW h \in Harts
      PROVE  CallInv(h) /\ SearchInv(h) /\ InsertInv(h)
  BY DEF CallInv, SearchInv, InsertInv
<1>8. AllocIsZeroed /\ SinglePageServed /\ FailsOnlyWhenShort /\ AllocTakesLowest
  BY DEF AllocIsZeroed, SinglePageServed, FailsOnlyWhenShort, AllocTakesLowest
<1>. QED
  BY <1>1, <1>4, <1>5, <1>6, <1>7, <1>8 DEF PoolInv

-----------------------------------------------------------------------------
(* What a step leaves alone. *)

(* The arguments and locals of every hart but h. *)
OthersSame(h) ==
  \A g \in Harts \ {h} :
    /\ pc'[g] = pc[g] /\ op'[g] = op[g] /\ base'[g] = base[g]
    /\ num'[g] = num[g] /\ page'[g] = page[g] /\ next'[g] = next[g]
    /\ start'[g] = start[g] /\ ret'[g] = ret[g]

(* The free pages are as they were when nobody's pages changed. *)
LEMMA FreeSame ==
  ASSUME \A h \in Harts : Owned(h)' = Owned(h)
  PROVE  \A p : IsFree(p)' <=> IsFree(p)
BY DEF IsFree

(* While one hart holds the lock the others are outside the pool. *)
LEMMA OthersOutside ==
  ASSUME PoolInv, NEW h \in Harts, pc[h] \in Holding,
         NEW g \in Harts \ {h}
  PROVE  pc[g] \in {"idle", "lock"}
BY DEF PoolInv, MutualExclusion, TypeOK

(* A step of the lock holder preserves the call invariants of the others. *)
LEMMA OthersCallInv ==
  ASSUME PoolInv, NEW h \in Harts, pc[h] \in Holding, OthersSame(h),
         NEW g \in Harts \ {h}
  PROVE  CallInv(g)' /\ SearchInv(g)' /\ InsertInv(g)'
<1>1. pc'[g] \in {"idle", "lock"} /\ pc'[g] = pc[g]
  BY OthersOutside DEF OthersSame
<1>2. SearchInv(g)' /\ InsertInv(g)'
  BY <1>1 DEF SearchInv, InsertInv
<1>3. CallInv(g)
  BY DEF PoolInv
<1>. QED
  BY <1>1, <1>2, <1>3 DEF CallInv, OthersSame, RegionEnd

(* The list is as it was when nobody's pages and no link of a free page    *)
(* changed.                                                                *)
LEMMA ListSame ==
  ASSUME FreeListExact, TypeOK, \A h \in Harts : Owned(h)' = Owned(h),
         free' = free,
         \A p \in Pages : IsFree(p) => prv'[p] = prv[p] /\ nxt'[p] = nxt[p]
  PROVE  FreeListExact'
<1>1. \A p : IsFree(p)' <=> IsFree(p)
  BY FreeSame
<1>. QED
  BY <1>1 DEF FreeListExact, TypeOK, Ptr

(* So are the owners, if no held page is in flight. *)
LEMMA OwnersSame ==
  ASSUME NoDoubleAlloc, \A h \in Harts : Owned(h)' = Owned(h),
         \A h \in Harts : (held[h] \cap InFlight(h))' = {}
  PROVE  NoDoubleAlloc'
BY DEF NoDoubleAlloc

(* What the outcome invariants say of one hart. *)
Outcome(h) ==
  /\ pc[h] = "unlock" /\ ret[h] # Null =>
       /\ \A p \in ret[h]..(ret[h] + num[h] - 1) :
            p \in Pages /\ prv[p] = Null /\ nxt[p] = Null /\ p \notin dirty
       /\ \A p \in Pages : IsFree(p) => ret[h] + num[h] - 1 < p
  /\ op[h] = "alloc" /\ num[h] = 1 /\ pc[h] = "unlock" /\ ret[h] = Null =>
       \A p \in Pages : ~IsFree(p)
  /\ pc[h] = "panicked" => op[h] = "alloc" /\ num[h] > 1 /\ FirstRunShort(h)
  /\ op[h] = "alloc" /\ num[h] > 1 /\ pc[h] = "unlock" /\ ret[h] = Null =>
       FirstRunShort(h)

(* PoolInv says each outcome of each hart. *)
LEMMA OutcomeOfEach ==
  ASSUME PoolInv, NEW h \in Harts
  PROVE  Outcome(h)
BY DEF PoolInv, Outcome, AllocIsZeroed, SinglePageServed, FailsOnlyWhenShort,
       AllocTakesLowest, FirstRunShort

(* A step of the lock holder that keeps the lock: only the pool and the    *)
(* holder's own call have to be looked at.                                 *)
LEMMA HolderStep ==
  ASSUME PoolInv, NEW h \in Harts, pc[h] \in Holding, OthersSame(h),
         lock' = lock, pc'[h] \in Holding,
         TypeOK', NoDoubleAlloc', FreeListExact',
         CallInv(h)', SearchInv(h)', InsertInv(h)', Outcome(h)'
  PROVE  PoolInv'
<1>1. \A g \in Harts \ {h} : pc'[g] = pc[g] /\ pc[g] \in {"idle", "lock"}
  BY OthersOutside DEF OthersSame
<1>2. LockInv' /\ MutualExclusion'
  BY <1>1 DEF PoolInv, LockInv, MutualExclusion, Holding
<1>3. \A g \in Harts : CallInv(g)' /\ SearchInv(g)' /\ InsertInv(g)'
  BY OthersCallInv
<1>4. ASSUME NEW g \in Harts \ {h} PROVE Outcome(g)'
  BY <1>1 DEF Outcome
<1>5. AllocIsZeroed' /\ AllocTakesLowest'
  BY <1>4 DEF Outcome, AllocIsZeroed, AllocTakesLowest
<1>6. FailsOnlyWhenShort'
  BY <1>4 DEF Outcome, FailsOnlyWhenShort, FirstRunShort
<1>7. SinglePageServed'
  BY <1>4 DEF Outcome, SinglePageServed, TypeOK
<1>. QED
  BY <1>2, <1>3, <1>5, <1>6, <1>7 DEF PoolInv

(* A step of the lock holder that only moves its own locals. *)
LEMMA QuietStep ==
  ASSUME PoolInv, NEW h \in Harts, pc[h] \in Holding, OthersSame(h),
         UNCHANGED <<lock, poolVars, held>>, pc'[h] \in Holding,
         InFlight(h)' = InFlight(h),
         TypeOK', CallInv(h)', SearchInv(h)', InsertInv(h)', Outcome(h)'
  PROVE  PoolInv'
<1>1. \A g \in Harts \ {h} : InFlight(g)' = InFlight(g)
  BY DEF InFlight, Region, RegionEnd, OthersSame
<1>2. \A g \in Harts : InFlight(g)' = InFlight(g) /\ Owned(g)' = Owned(g)
  BY <1>1 DEF Owned
<1>3. NoDoubleAlloc'
  BY <1>2 DEF NoDoubleAlloc, PoolInv
<1>4. FreeListExact'
  BY <1>2, ListSame DEF PoolInv, poolVars
<1>. QED
  BY <1>3, <1>4, HolderStep


-----------------------------------------------------------------------------
(* The steps of the search for a region.  None of them writes to a page.   *)

(* A free page points to a free page or to nothing. *)
LEMMA FreeNext ==
  ASSUME PoolInv, NEW p \in Pages, IsFree(p)
  PROVE  nxt[p] \in Ptr
BY DEF PoolInv, FreeListExact, Ptr

(* The free pages in the next state of a step that moves only locals. *)
LEMMA QuietFree ==
  ASSUME NEW h \in Harts, OthersSame(h), held' = held,
         InFlight(h)' = InFlight(h)
  PROVE  \A p : IsFree(p)' <=> IsFree(p)
<1>1. \A g \in Harts \ {h} : InFlight(g)' = InFlight(g)
  BY DEF InFlight, Region, RegionEnd, OthersSame
<1>2. \A g \in Harts : Owned(g)' = Owned(g)
  BY <1>1 DEF Owned
<1>. QED
  BY <1>2, FreeSame

(* alloc_pages starts its search at the head of the list. *)
LEMMA AllocEnterInv ==
  ASSUME PoolInv, NEW h \in Harts, AllocEnter(h)
  PROVE  PoolInv'
<1>. USE DEF AllocEnter, Goto, callVars, poolVars
<1>1. OthersSame(h) /\ pc[h] \in Holding
  BY DEF OthersSame, Holding, PoolInv, TypeOK
<1>2. free # Null => free \in Pages /\ IsFree(free) /\ prv[free] = Null
  BY DEF PoolInv, FreeListExact, TypeOK, Ptr
<1>3. free # Null => nxt[free] \in Ptr
  BY <1>2, FreeNext
<1>4. TypeOK' /\ pc'[h] \in Holding
  BY <1>2, <1>3 DEF PoolInv, TypeOK, Holding, Ptr
<1>5. ret[h] = Null
  BY DEF PoolInv, CallInv
<1>6. InFlight(h)' = InFlight(h)
  BY <1>2, <1>5 DEF InFlight, PoolInv, TypeOK
<1>7. \A p : IsFree(p)' <=> IsFree(p)
  BY <1>1, <1>6, QuietFree
<1>8. CallInv(h)' /\ InsertInv(h)'
  BY <1>2, <1>5 DEF CallInv, InsertInv, PoolInv, TypeOK
<1>9. SearchInv(h)'
  <2>. SUFFICES ASSUME free # Null
               PROVE  /\ free \in Pages /\ IsFree(free) /\ page'[h] = free
                      /\ start'[h] = free /\ next'[h] = nxt[free]
                      /\ free <= free + num[h] - 1 /\ pc'[h] = "outer"
                      /\ \A p \in free..free : IsFree(p)
    BY <1>2, <1>7 DEF SearchInv, PoolInv, TypeOK, Pages
  <2>. QED
    BY <1>2, PoolAssumption DEF PoolInv, TypeOK, Pages
<1>10. Outcome(h)'
  <2>1. free = Null => FirstRunShort(h)'
    <3>. SUFFICES ASSUME free = Null PROVE FirstRunShort(h)'
      OBVIOUS
    <3>1. num'[h] \in Nat /\ free' = 0
      BY PoolAssumption DEF PoolInv, TypeOK, Null
    <3>2. 0 \in free'..(free' + num'[h]) /\ 0 \notin Pages
      BY <3>1, PoolAssumption DEF Pages
    <3>. QED
      BY <3>2 DEF FirstRunShort
  <2>. QED
    BY <1>2, <1>5, <1>7, <2>1 DEF Outcome, PoolInv, TypeOK, FreeListExact
<1>. QED
  BY <1>1, <1>4, <1>6, <1>8, <1>9, <1>10, QuietStep

(* The head of the search is a free page of the pool. *)
LEMMA SearchPage ==
  ASSUME PoolInv, NEW h \in Harts, pc[h] \in {"outer", "inner", "unlink"}
  PROVE  /\ page[h] \in Pages /\ IsFree(page[h]) /\ next[h] = nxt[page[h]]
         /\ next[h] \in Ptr /\ (next[h] # Null => page[h] < next[h] /\ IsFree(next[h]))
         /\ free \in Pages /\ prv[free] = Null
         /\ num[h] \in 1..MaxReq /\ start[h] \in Ptr
<1>1. page[h] \in Pages /\ IsFree(page[h]) /\ next[h] = nxt[page[h]]
  BY DEF PoolInv, SearchInv
<1>. QED
  BY <1>1 DEF PoolInv, FreeListExact, TypeOK, Ptr

(* FirstRunShort depends on the free pages, the head and the request. *)
LEMMA ShortSame ==
  ASSUME NEW h \in Harts, FirstRunShort(h), free' = free, num'[h] = num[h],
         \A p : IsFree(p)' <=> IsFree(p)
  PROVE  FirstRunShort(h)'
BY DEF FirstRunShort

(* The outer loop goes on while the region is too short. *)
LEMMA OuterInv ==
  ASSUME PoolInv, OverflowChecks, NEW h \in Harts, Outer(h)
  PROVE  PoolInv'
<1>. USE DEF Outer, Goto, callVars, localVars, poolVars
<1>1. OthersSame(h) /\ pc[h] \in Holding /\ pc'[h] \in Holding
  BY DEF OthersSame, Holding, PoolInv, TypeOK
<1>2. TypeOK'
  BY DEF PoolInv, TypeOK, Holding
<1>3. ret[h] = Null /\ op[h] = "alloc"
  BY DEF PoolInv, CallInv
<1>4. InFlight(h)' = InFlight(h)
  BY <1>3 DEF InFlight, PoolInv, TypeOK
<1>5. \A p : IsFree(p)' <=> IsFree(p)
  BY <1>1, <1>4, QuietFree
<1>6. pc'[h] \in {"panicked", "inner", "unlink"}
  BY DEF PoolInv, TypeOK
<1>7. CallInv(h)' /\ InsertInv(h)'
  BY <1>3, <1>6 DEF CallInv, InsertInv
<1>8. /\ page[h] \in Pages /\ IsFree(page[h]) /\ next[h] = nxt[page[h]]
      /\ num[h] \in 1..MaxReq /\ start[h] \in Ptr
  BY SearchPage
<1>9. \/ /\ start[h] = free /\ start[h] <= page[h]
         /\ page[h] <= start[h] + num[h] - 1
         /\ \A p \in start[h]..page[h] : IsFree(p)
      \/ /\ start[h] = Null \/ page[h] < start[h]
         /\ num[h] > 1 /\ FirstRunShort(h)
  BY DEF PoolInv, SearchInv
<1>10. CASE start[h] = free /\ start[h] <= page[h]
            /\ page[h] <= start[h] + num[h] - 1
            /\ \A p \in start[h]..page[h] : IsFree(p)
  <2>1. Span(h) = page[h] - start[h]
    BY <1>8, <1>10, SpanIsDifference
  <2>a. page[h] \in Int /\ start[h] \in Int /\ num[h] \in Int
    BY <1>8, PoolAssumption DEF Pages, Ptr, Null
  <2>b. ~(page[h] < start[h])
    BY <2>a, <1>10
  <2>c. pc'[h] = IF page[h] - start[h] < num[h] - 1 THEN "inner" ELSE "unlink"
    BY <2>1, <2>b DEF PoolInv, TypeOK
  <2>2. \/ pc'[h] = "inner" /\ num[h] > 1
        \/ pc'[h] = "unlink" /\ page[h] = start[h] + num[h] - 1
    BY <1>10, <2>a, <2>c
  <2>3. SearchInv(h)'
    BY <1>5, <1>8, <1>10, <2>2 DEF SearchInv
  <2>4. Outcome(h)'
    BY <2>2 DEF Outcome
  <2>. QED
    BY <1>1, <1>2, <1>4, <1>7, <2>3, <2>4, QuietStep
<1>11. CASE (start[h] = Null \/ page[h] < start[h]) /\ num[h] > 1 /\ FirstRunShort(h)
  <2>1. FirstRunShort(h)'
    BY <1>5, <1>11, ShortSame
  <2>2. CASE page[h] < start[h]
    <3>1. pc'[h] = "panicked"
      BY <2>2 DEF PoolInv, TypeOK
    <3>2. SearchInv(h)' /\ Outcome(h)'
      BY <1>3, <1>11, <2>1, <3>1 DEF SearchInv, Outcome
    <3>. QED
      BY <1>1, <1>2, <1>4, <1>7, <3>2, QuietStep
  <2>3. CASE start[h] = Null
    <3>1. Span(h) = page[h] /\ ~(page[h] < start[h])
      BY <1>8, <2>3, SpanIsDifference, PoolAssumption DEF Pages, Null
    <3>2. pc'[h] = "unlink"
      BY <1>8, <3>1, PoolAssumption DEF Pages, PoolInv, TypeOK
    <3>3. SearchInv(h)' /\ Outcome(h)'
      BY <1>5, <1>8, <1>11, <2>1, <2>3, <3>2 DEF SearchInv, Outcome
    <3>. QED
      BY <1>1, <1>2, <1>4, <1>7, <3>3, QuietStep
  <2>. QED
    BY <1>11, <2>2, <2>3
<1>. QED
  BY <1>9, <1>10, <1>11

(* The inner loop takes the page behind the region into it. *)
LEMMA ExtendInv ==
  ASSUME PoolInv, NEW h \in Harts, Extend(h)
  PROVE  PoolInv'
<1>. USE DEF Extend, Goto, callVars, poolVars
<1>1. OthersSame(h) /\ pc[h] \in Holding /\ pc'[h] \in Holding
  BY DEF OthersSame, Holding, PoolInv, TypeOK
<1>2. /\ page[h] \in Pages /\ IsFree(page[h]) /\ next[h] = nxt[page[h]]
      /\ num[h] \in 1..MaxReq /\ start[h] \in Ptr /\ next[h] \in Ptr
      /\ next[h] # Null => IsFree(next[h])
  BY SearchPage
<1>3. /\ start[h] = free /\ start[h] <= page[h]
      /\ \A p \in start[h]..page[h] : IsFree(p)
  BY DEF PoolInv, SearchInv
<1>4. Span(h) = page[h] - start[h]
  BY <1>2, <1>3, SpanIsDifference
<1>5. /\ next[h] \in Pages /\ next[h] = page[h] + 1 /\ IsFree(next[h])
      /\ next[h] <= start[h] + num[h] - 1 /\ num[h] > 1
  BY <1>2, <1>3, <1>4, PoolAssumption DEF Extends, Pages, Ptr, Null
<1>6. nxt[next[h]] \in Ptr
  BY <1>5, FreeNext
<1>7. TypeOK'
  BY <1>5, <1>6 DEF PoolInv, TypeOK, Holding, Ptr
<1>8. ret[h] = Null /\ op[h] = "alloc"
  BY DEF PoolInv, CallInv
<1>9. InFlight(h)' = InFlight(h)
  BY <1>8 DEF InFlight, PoolInv, TypeOK
<1>10. \A p : IsFree(p)' <=> IsFree(p)
  BY <1>1, <1>9, QuietFree
<1>11. pc'[h] \in {"unlock", "inner"}
  BY DEF PoolInv, TypeOK
<1>12. CallInv(h)' /\ InsertInv(h)'
  BY <1>8, <1>11 DEF CallInv, InsertInv
<1>13. page'[h] = next[h] /\ next'[h] = nxt[next[h]]
  BY DEF PoolInv, TypeOK
<1>14. \A p \in start[h]..next[h] : IsFree(p)
  BY <1>2, <1>3, <1>5, PoolAssumption DEF Pages, Ptr, Null
<1>15. start[h] <= next[h]
  BY <1>2, <1>3, <1>5, PoolAssumption DEF Pages, Ptr, Null
<1>16. SearchInv(h)'
  BY <1>3, <1>5, <1>10, <1>11, <1>13, <1>14, <1>15 DEF SearchInv
<1>17. Outcome(h)'
  <2>1. pc'[h] = "unlock" => FirstRunShort(h)'
    <3>. SUFFICES ASSUME pc'[h] = "unlock" PROVE FirstRunShort(h)'
      OBVIOUS
    <3>1. nxt[next[h]] = Null
      BY DEF PoolInv, TypeOK
    <3>2. next[h] + 1 \notin Pages \/ ~IsFree(next[h] + 1)
      BY <1>5, <3>1, PoolAssumption DEF PoolInv, FreeListExact, Pages
    <3>3. next[h] + 1 \in free..(free + num[h])
      <4>1. free \in Int /\ next[h] \in Int /\ num[h] \in Int
        BY <1>2, <1>5, PoolAssumption DEF PoolInv, TypeOK, Pages, Ptr, Null
      <4>2. free <= next[h] /\ next[h] <= free + num[h] - 1
        BY <1>2, <1>3, <1>5, <4>1, PoolAssumption DEF Pages
      <4>. QED
        BY <4>1, <4>2
    <3>4. FirstRunShort(h)
      BY <3>2, <3>3 DEF FirstRunShort
    <3>. QED
      BY <1>10, <3>4, ShortSame
  <2>. QED
    BY <1>5, <1>8, <1>11, <2>1 DEF Outcome
<1>. QED
  BY <1>1, <1>7, <1>9, <1>12, <1>16, <1>17, QuietStep

(* A gap behind the region, or the end of the list, ends the first run of  *)
(* free pages before the request is met.                                   *)
LEMMA InnerDoneInv ==
  ASSUME PoolInv, NEW h \in Harts, InnerDone(h)
  PROVE  PoolInv'
<1>. USE DEF InnerDone, Goto, callVars, poolVars
<1>1. OthersSame(h) /\ pc[h] \in Holding /\ pc'[h] = "outer" /\ pc'[h] \in Holding
  BY DEF OthersSame, Holding, PoolInv, TypeOK
<1>2. /\ page[h] \in Pages /\ IsFree(page[h]) /\ next[h] = nxt[page[h]]
      /\ num[h] \in 1..MaxReq /\ start[h] \in Ptr /\ next[h] \in Ptr
      /\ next[h] # Null => page[h] < next[h]
      /\ free \in Pages
  BY SearchPage
<1>3. /\ start[h] = free /\ start[h] <= page[h]
      /\ page[h] <= start[h] + num[h] - 1
      /\ \A p \in start[h]..page[h] : IsFree(p)
      /\ num[h] > 1
  BY DEF PoolInv, SearchInv
<1>4. TypeOK'
  BY <1>2 DEF PoolInv, TypeOK, Holding
<1>5. ret[h] = Null /\ op[h] = "alloc"
  BY DEF PoolInv, CallInv
<1>6. InFlight(h)' = InFlight(h)
  BY <1>1, <1>5 DEF InFlight
<1>7. \A p : IsFree(p)' <=> IsFree(p)
  BY <1>1, <1>6, QuietFree
<1>8. CallInv(h)' /\ InsertInv(h)' /\ Outcome(h)'
  BY <1>1, <1>5 DEF CallInv, InsertInv, Outcome
<1>9. CASE next[h] = page[h] + 1
  <2>1. SearchInv(h)'
    BY <1>1, <1>2, <1>3, <1>7, <1>9 DEF SearchInv
  <2>. QED
    BY <1>1, <1>4, <1>6, <1>8, <2>1, QuietStep
<1>10. CASE next[h] # page[h] + 1
  <2>1. page[h] + 1 \notin Pages \/ ~IsFree(page[h] + 1)
    <3>. SUFFICES ASSUME page[h] + 1 \in Pages, IsFree(page[h] + 1)
                 PROVE  FALSE
      OBVIOUS
    <3>1. nxt[page[h]] # Null /\ nxt[page[h]] <= page[h] + 1
      BY <1>2, PoolAssumption DEF PoolInv, FreeListExact, Pages
    <3>. QED
      BY <1>2, <1>10, <3>1, PoolAssumption DEF Pages, Ptr, Null
  <2>2. page[h] + 1 \in free..(free + num[h])
    BY <1>2, <1>3, PoolAssumption DEF Pages
  <2>3. FirstRunShort(h)
    BY <2>1, <2>2 DEF FirstRunShort
  <2>4. FirstRunShort(h)'
    BY <2>3, <1>7, ShortSame
  <2>5. start'[h] = next[h]
    BY <1>10 DEF PoolInv, TypeOK
  <2>6. SearchInv(h)'
    BY <1>1, <1>2, <1>3, <1>7, <2>4, <2>5 DEF SearchInv
  <2>. QED
    BY <1>1, <1>4, <1>6, <1>8, <2>6, QuietStep
<1>. QED
  BY <1>9, <1>10

(* The only pointer outside the pool that is ever followed is the          *)
(* start_region that the end of the list left at None.                     *)
LEMMA FaultInv ==
  ASSUME PoolInv, NEW h \in Harts, Fault(h)
  PROVE  PoolInv'
<1>. USE DEF Fault, Goto, callVars, localVars, poolVars
<1>1. pc[h] \in {"inner", "unlink", "walk"}
  BY DEF Dereferences
<1>2. OthersSame(h) /\ pc[h] \in Holding /\ pc'[h] = "panicked" /\ pc'[h] \in Holding
  BY <1>1 DEF OthersSame, Holding, PoolInv, TypeOK
<1>3. pc[h] # "walk"
  <2>. SUFFICES ASSUME pc[h] = "walk" PROVE FALSE
    OBVIOUS
  <2>1. page[h] \in Pages /\ IsFree(page[h]) /\ next[h] = nxt[page[h]]
    BY DEF PoolInv, InsertInv
  <2>2. next[h] \in Ptr
    BY <2>1, FreeNext
  <2>. QED
    BY <2>2 DEF Dereferences, Ptr
<1>4. /\ page[h] \in Pages /\ next[h] \in Ptr /\ free \in Pages
      /\ prv[free] = Null
  BY <1>1, <1>3, SearchPage
<1>5. pc[h] # "inner"
  <2>. SUFFICES ASSUME pc[h] = "inner" PROVE FALSE
    OBVIOUS
  <2>1. Dereferences(h) = IF Extends(h) THEN {next[h]} ELSE {}
    BY DEF Dereferences
  <2>. QED
    BY <1>4, <2>1, PoolAssumption DEF Extends, Pages, Ptr, Null
<1>6. start[h] = Null /\ num[h] > 1 /\ FirstRunShort(h)
  <2>1. pc[h] = "unlink" /\ Dereferences(h) = UnlinkTouches(h)
    BY <1>1, <1>3, <1>5 DEF Dereferences
  <2>2. start[h] # free
    BY <1>4, <2>1 DEF UnlinkTouches, Ptr
  <2>. QED
    BY <2>1, <2>2 DEF PoolInv, SearchInv
<1>7. TypeOK'
  BY DEF PoolInv, TypeOK, Holding
<1>8. ret[h] = Null /\ op[h] = "alloc"
  BY <1>1, <1>3 DEF PoolInv, CallInv
<1>9. InFlight(h)' = InFlight(h)
  BY <1>1, <1>2, <1>8 DEF InFlight
<1>10. \A p : IsFree(p)' <=> IsFree(p)
  BY <1>2, <1>9, QuietFree
<1>11. FirstRunShort(h)'
  BY <1>6, <1>10, ShortSame
<1>12. CallInv(h)' /\ InsertInv(h)' /\ SearchInv(h)' /\ Outcome(h)'
  BY <1>2, <1>6, <1>8, <1>11 DEF CallInv, InsertInv, SearchInv, Outcome
<1>. QED
  BY <1>2, <1>7, <1>9, <1>12, QuietStep

-----------------------------------------------------------------------------
(* The step that takes a region off the list. *)

(* The region starts at the head of the list, so there is no page before   *)
(* it: the step makes the first num pages of the list the property of h.   *)
LEMMA UnlinkEffect ==
  ASSUME PoolInv, NEW h \in Harts, Unlink(h)
  PROVE  /\ pc[h] = "unlink" /\ op[h] = "alloc" /\ OthersSame(h)
         /\ page[h] \in Pages /\ IsFree(page[h]) /\ next[h] = nxt[page[h]]
         /\ num[h] \in 1..MaxReq /\ next[h] \in Ptr
         /\ next[h] # Null => page[h] < next[h] /\ IsFree(next[h])
         /\ free \in Pages /\ prv[free] = Null
         /\ free <= page[h] /\ page[h] = free + num[h] - 1
         /\ free..page[h] \subseteq Pages
         /\ \A p \in free..page[h] : IsFree(p)
         /\ free' = next[h]
         /\ prv' = [p \in Pages |-> IF p \in free..page[h] \/ p = next[h]
                                    THEN Null ELSE prv[p]]
         /\ nxt' = [p \in Pages |-> IF p \in free..page[h] THEN Null ELSE nxt[p]]
         /\ dirty' = dirty \ (free..page[h])
         /\ ret' = [ret EXCEPT ![h] = free]
         /\ pc' = [pc EXCEPT ![h] = "unlock"]
         /\ UNCHANGED <<lock, held, op, base, num, page, next, start>>
         /\ InFlight(h) = {} /\ InFlight(h)' = free..page[h]
         /\ \A g \in Harts \ {h} : InFlight(g)' = InFlight(g) /\ Owned(g)' = Owned(g)
         /\ Owned(h)' = Owned(h) \cup free..page[h]
<1>. DEFINE region == free..page[h]
<1>. USE DEF Goto, callVars
<1>1. pc[h] = "unlink" /\ pc[h] \in Holding
  BY DEF Unlink, UnlinkZeroes, UnlinkFree, UnlinkPrv, Holding
<1>2. /\ page[h] \in Pages /\ IsFree(page[h]) /\ next[h] = nxt[page[h]]
      /\ num[h] \in 1..MaxReq /\ next[h] \in Ptr
      /\ next[h] # Null => page[h] < next[h] /\ IsFree(next[h])
      /\ free \in Pages /\ prv[free] = Null
  BY <1>1, SearchPage
<1>3. start[h] \in Pages
  BY <1>1 DEF Unlink, UnlinkZeroes, UnlinkFree, UnlinkPrv, Dereferences, UnlinkTouches
<1>4. /\ start[h] = free /\ free <= page[h] /\ page[h] = free + num[h] - 1
      /\ \A p \in region : IsFree(p)
  BY <1>1, <1>3, PoolAssumption DEF PoolInv, SearchInv, Null, Pages
<1>5. region \subseteq Pages
  BY <1>2, PoolAssumption DEF Pages
<1>6. /\ free' = next[h]
      /\ prv' = [p \in Pages |-> IF p \in region \/ p = next[h] THEN Null ELSE prv[p]]
      /\ nxt' = [p \in Pages |-> IF p \in region THEN Null ELSE nxt[p]]
      /\ dirty' = dirty \ region
      /\ ret' = [ret EXCEPT ![h] = free]
      /\ pc' = [pc EXCEPT ![h] = "unlock"]
      /\ UNCHANGED <<lock, held, op, base, num, page, next, start>>
  <2>1. Null \notin Pages
    BY PoolAssumption DEF Pages, Null
  <2>. QED
    BY <1>2, <1>4, <2>1 DEF Unlink, UnlinkZeroes, UnlinkFree, UnlinkPrv
<1>. HIDE DEF region
<1>7. OthersSame(h) /\ pc'[h] = "unlock" /\ ret'[h] = free
  BY <1>6 DEF OthersSame, PoolInv, TypeOK
<1>8. op[h] = "alloc"
  BY <1>1 DEF PoolInv, CallInv
<1>9. InFlight(h) = {} /\ InFlight(h)' = region
  <2>1. free # Null
    BY <1>2, PoolAssumption DEF Pages, Null
  <2>2. InFlight(h)' = ret'[h]..(ret'[h] + num'[h] - 1)
    BY <1>7, <1>8, <1>6, <2>1 DEF InFlight
  <2>. QED
    BY <1>1, <1>4, <1>6, <1>7, <1>8, <2>2 DEF InFlight, region
<1>10. \A g \in Harts \ {h} : InFlight(g)' = InFlight(g) /\ Owned(g)' = Owned(g)
  BY <1>6, <1>7 DEF InFlight, Region, RegionEnd, OthersSame, Owned
<1>11. Owned(h)' = Owned(h) \cup region
  BY <1>6, <1>9 DEF Owned
<1>. QED
  BY <1>1, <1>2, <1>4, <1>5, <1>6, <1>7, <1>8, <1>9, <1>10, <1>11 DEF region

(* What is left of the list is still exact, and the region is zero. *)
LEMMA UnlinkInv ==
  ASSUME PoolInv, NEW h \in Harts, Unlink(h)
  PROVE  PoolInv'
<1>. DEFINE region == free..page[h]
<1>1. pc[h] \in Holding /\ op[h] = "alloc"
  BY UnlinkEffect DEF Holding
<1>2. /\ page[h] \in Pages /\ IsFree(page[h]) /\ next[h] = nxt[page[h]]
      /\ num[h] \in 1..MaxReq /\ next[h] \in Ptr
      /\ next[h] # Null => page[h] < next[h] /\ IsFree(next[h])
      /\ free \in Pages /\ prv[free] = Null
  BY UnlinkEffect
<1>4. /\ free <= page[h] /\ page[h] = free + num[h] - 1
      /\ \A p \in region : IsFree(p)
  BY UnlinkEffect
<1>5. region \subseteq Pages
  BY UnlinkEffect
<1>6. /\ free' = next[h]
      /\ prv' = [p \in Pages |-> IF p \in region \/ p = next[h] THEN Null ELSE prv[p]]
      /\ nxt' = [p \in Pages |-> IF p \in region THEN Null ELSE nxt[p]]
      /\ dirty' = dirty \ region
      /\ ret' = [ret EXCEPT ![h] = free]
      /\ pc' = [pc EXCEPT ![h] = "unlock"]
      /\ UNCHANGED <<lock, held, op, base, num, page, next, start>>
  BY UnlinkEffect
<1>10. InFlight(h) = {} /\ InFlight(h)' = region
  BY UnlinkEffect
<1>11. \A g \in Harts \ {h} : InFlight(g)' = InFlight(g) /\ Owned(g)' = Owned(g)
  BY UnlinkEffect
<1>12. Owned(h)' = Owned(h) \cup region
  BY UnlinkEffect
<1>. HIDE DEF region
<1>7. OthersSame(h) /\ pc'[h] = "unlock" /\ pc'[h] \in Holding /\ ret'[h] = free
  <2>1. OthersSame(h)
    BY UnlinkEffect
  <2>. QED
    BY <1>6, <2>1 DEF Holding, PoolInv, TypeOK
<1>8. TypeOK'
  <2>1. prv' \in [Pages -> Ptr] /\ nxt' \in [Pages -> Ptr \cup {Top}] /\ dirty' \subseteq Pages
    BY <1>6 DEF PoolInv, TypeOK, Ptr
  <2>2. pc' \in [Harts -> Holding \cup {"idle", "lock"}] /\ ret' \in [Harts -> Ptr] /\ free' \in Ptr
    BY <1>2, <1>6 DEF PoolInv, TypeOK, Ptr, Holding
  <2>. QED
    BY <1>6, <2>1, <2>2 DEF PoolInv, TypeOK
<1>13. \A p : IsFree(p)' <=> IsFree(p) /\ p \notin region
  BY <1>11, <1>12 DEF IsFree
<1>14. NoDoubleAlloc'
  <2>1. \A g \in Harts : Owned(g) \cap region = {}
    BY <1>4 DEF IsFree
  <2>2. \A g, k \in Harts : g # k => (Owned(g) \cap Owned(k))' = {}
    BY <1>11, <1>12, <2>1 DEF PoolInv, NoDoubleAlloc
  <2>3. \A g \in Harts : (held[g] \cap InFlight(g))' = {}
    BY <1>6, <1>10, <1>11, <2>1 DEF PoolInv, NoDoubleAlloc, Owned
  <2>. QED
    BY <2>2, <2>3 DEF NoDoubleAlloc
<1>15. \A p \in Pages : IsFree(p) => free <= p
  BY DEF PoolInv, FreeListExact
<1>16. \A p \in Pages : IsFree(p)' => page[h] < p
  BY <1>2, <1>13, <1>15, PoolAssumption DEF region, Pages
<1>17. \A p \in region : p < page[h] => nxt[p] = p + 1
  <2>. SUFFICES ASSUME NEW p \in region, p < page[h] PROVE nxt[p] = p + 1
    OBVIOUS
  <2>1. p \in Pages /\ p + 1 \in Pages /\ IsFree(p) /\ IsFree(p + 1)
    BY <1>2, <1>4, <1>5, PoolAssumption DEF region, Pages
  <2>2. p < p + 1
    BY <2>1, PoolAssumption DEF Pages
  <2>3. nxt[p] # Null /\ nxt[p] <= p + 1 /\ nxt[p] \in Pages /\ p < nxt[p]
    BY <2>1, <2>2 DEF PoolInv, FreeListExact
  <2>. QED
    BY <2>1, <2>3, PoolAssumption DEF Pages
<1>18. FreeListExact'
  <2>1. free' # Null => IsFree(free)' /\ prv'[free'] = Null
    <3>. SUFFICES ASSUME next[h] # Null
                 PROVE  IsFree(next[h]) /\ next[h] \notin region /\ next[h] \in Pages
      BY <1>6, <1>13
    <3>. QED
      BY <1>2, PoolAssumption DEF region, Ptr, Pages
  <2>2. \A p \in Pages : IsFree(p)' => free' # Null /\ free' <= p
    BY <1>2, <1>6, <1>13, <1>16 DEF PoolInv, FreeListExact
  <2>3. ASSUME NEW p \in Pages, IsFree(p)'
        PROVE  /\ IsFree(p) /\ nxt'[p] = nxt[p] /\ p # page[h]
               /\ \A q \in Pages : IsFree(q) /\ p < q => IsFree(q)'
    BY <1>2, <1>6, <1>13, <1>16, <2>3, PoolAssumption DEF region, Pages
  <2>4. ASSUME NEW p \in Pages, IsFree(p)', nxt'[p] # Null
        PROVE  nxt'[p] \in Pages /\ IsFree(nxt[p])' /\ p < nxt'[p] /\ prv'[nxt'[p]] = p
    <3>1. nxt[p] \in Pages /\ IsFree(nxt[p]) /\ p < nxt[p] /\ prv[nxt[p]] = p
      BY <2>3, <2>4 DEF PoolInv, FreeListExact
    <3>2. nxt[p] # next[h]
      BY <1>2, <2>3, <2>4, <3>1 DEF PoolInv, FreeListExact
    <3>3. IsFree(nxt[p])' /\ nxt[p] \notin region
      BY <1>13, <2>3, <2>4, <3>1
    <3>. QED
      BY <1>6, <2>3, <2>4, <3>1, <3>2, <3>3
  <2>5. \A p, q \in Pages : IsFree(p)' /\ IsFree(q)' /\ p < q =>
          nxt'[p] # Null /\ nxt'[p] <= q
    BY <1>13, <2>3 DEF PoolInv, FreeListExact
  <2>6. ASSUME NEW p \in Pages, IsFree(p)', p # free'
        PROVE  prv'[p] \in Pages /\ IsFree(prv[p])' /\ nxt'[prv'[p]] = p
    <3>1. p \notin region /\ p # free /\ IsFree(p)
      BY <1>2, <1>4, <1>13, <2>6, PoolAssumption DEF region, Pages
    <3>2. prv[p] \in Pages /\ IsFree(prv[p]) /\ nxt[prv[p]] = p
      BY <3>1 DEF PoolInv, FreeListExact
    <3>3. prv[p] # page[h]
      BY <1>2, <1>6, <2>6, <3>2
    <3>4. prv[p] \notin region
      <4>. SUFFICES ASSUME prv[p] \in region PROVE FALSE
        OBVIOUS
      <4>1. prv[p] < page[h]
        BY <1>2, <3>2, <3>3, PoolAssumption DEF region, Pages
      <4>2. p = prv[p] + 1
        BY <1>17, <3>2, <4>1
      <4>. QED
        BY <1>2, <3>1, <3>2, <4>1, <4>2, PoolAssumption DEF region, Pages
    <3>5. prv'[p] = prv[p] /\ nxt'[prv[p]] = p
      BY <1>6, <2>6, <3>1, <3>2, <3>4
    <3>. QED
      BY <1>13, <3>2, <3>4, <3>5
  <2>. QED
    BY <2>1, <2>2, <2>4, <2>5, <2>6 DEF FreeListExact
<1>19. CallInv(h)' /\ InsertInv(h)' /\ SearchInv(h)'
  BY <1>1, <1>6, <1>7 DEF CallInv, InsertInv, SearchInv
<1>20. Outcome(h)'
  <2>1. free + num[h] - 1 = page[h] /\ free # Null
    BY <1>2, <1>4, PoolAssumption DEF Pages, Null
  <2>2. \A p \in region : p \in Pages /\ prv'[p] = Null /\ nxt'[p] = Null /\ p \notin dirty'
    BY <1>5, <1>6
  <2>. QED
    BY <1>6, <1>7, <1>16, <2>1, <2>2 DEF Outcome, region
<1>. QED
  BY <1>1, <1>6, <1>7, <1>8, <1>14, <1>18, <1>19, <1>20, HolderStep

-----------------------------------------------------------------------------
(* The steps that put a region back. *)

(* The region of a free belongs to that call alone. *)
LEMMA RegionIsOwned ==
  ASSUME PoolInv, NEW h \in Harts, op[h] = "free",
         pc[h] \in {"lock", "enter", "insert", "walk"}
  PROVE  /\ InFlight(h) = Region(h) /\ Region(h) \subseteq Pages
         /\ base[h] \in Region(h) /\ RegionEnd(h) \in Region(h)
         /\ \A p \in Region(h) : /\ ~IsFree(p) /\ p \notin held[h]
                                /\ \A g \in Harts \ {h} : p \notin Owned(g)
<1>1. InFlight(h) = Region(h)
  BY DEF InFlight
<1>2. RegionEnd(h) \in Pages /\ base[h] \in Pages /\ num[h] \in 1..MaxReq
  BY DEF PoolInv, CallInv, TypeOK
<1>3. base[h] <= RegionEnd(h)
  BY <1>2, PoolAssumption DEF RegionEnd, Pages
<1>4. Region(h) \subseteq Pages /\ base[h] \in Region(h) /\ RegionEnd(h) \in Region(h)
  BY <1>2, <1>3, PoolAssumption DEF Region, Pages
<1>. QED
  BY <1>1, <1>4 DEF PoolInv, NoDoubleAlloc, Owned, IsFree

(* free_pages zeroes the region and links it inside; the list is untouched. *)
LEMMA FreeEnterInv ==
  ASSUME PoolInv, NEW h \in Harts, FreeEnter(h)
  PROVE  PoolInv'
<1>. USE DEF FreeEnter, Goto, callVars, localVars
<1>1. OthersSame(h) /\ pc[h] \in Holding /\ pc'[h] = "insert" /\ pc'[h] \in Holding
  BY DEF OthersSame, Holding, PoolInv, TypeOK
<1>2. /\ InFlight(h) = Region(h) /\ Region(h) \subseteq Pages
      /\ RegionEnd(h) \in Region(h)
      /\ \A p \in Region(h) : ~IsFree(p)
  BY RegionIsOwned
<1>3. base[h] \in Pages /\ num[h] \in 1..MaxReq /\ RegionEnd(h) \in Pages
  BY <1>2 DEF PoolInv, TypeOK
<1>4. TypeOK'
  <2>1. ASSUME NEW p \in Pages
        PROVE  prv'[p] \in Ptr /\ nxt'[p] \in Ptr \cup {Top}
    <3>1. p \in Region(h) => base[h] <= p /\ p <= RegionEnd(h)
      BY DEF Region
    <3>2. prv'[p] \in Ptr
      BY <1>3, <3>1, PoolAssumption DEF Pages, Ptr, PoolInv, TypeOK, Null
    <3>3. nxt'[p] \in Ptr \cup {Top}
      BY <1>3, <3>1, PoolAssumption DEF Pages, Ptr, PoolInv, TypeOK, Null
    <3>. QED
      BY <3>2, <3>3
  <2>2. prv' \in [Pages -> Ptr] /\ nxt' \in [Pages -> Ptr \cup {Top}]
    BY <2>1
  <2>. QED
    BY <2>2 DEF PoolInv, TypeOK, Holding
<1>5. InFlight(h)' = InFlight(h) /\ Region(h)' = Region(h)
  BY <1>1, <1>2 DEF InFlight, Region, RegionEnd
<1>6. \A g \in Harts : InFlight(g)' = InFlight(g) /\ Owned(g)' = Owned(g)
  BY <1>1, <1>5 DEF InFlight, Region, RegionEnd, OthersSame, Owned
<1>7. NoDoubleAlloc'
  BY <1>6 DEF PoolInv, NoDoubleAlloc
<1>8. FreeListExact'
  <2>1. \A p \in Pages : IsFree(p) => prv'[p] = prv[p] /\ nxt'[p] = nxt[p]
    BY <1>2
  <2>. QED
    BY <1>6, <2>1, ListSame DEF PoolInv
<1>9. CallInv(h)'
  BY <1>1, <1>3 DEF CallInv, PoolInv, RegionEnd
<1>10. InsertInv(h)'
  <2>1. \A p \in Region(h) : /\ base[h] < p => prv'[p] = p - 1
                             /\ p < RegionEnd(h) => nxt'[p] = p + 1
    BY <1>2, <1>3, PoolAssumption DEF Pages
  <2>2. RegionEnd(h)' = RegionEnd(h)
    BY DEF RegionEnd
  <2>. QED
    BY <1>1, <1>5, <2>1, <2>2 DEF InsertInv
<1>11. SearchInv(h)' /\ Outcome(h)'
  BY <1>1 DEF SearchInv, Outcome
<1>. QED
  BY <1>1, <1>4, <1>7, <1>8, <1>9, <1>10, <1>11, HolderStep

(* Linking the region in between a free page a below it and a free page z  *)
(* above it; either may be missing (Null).                                 *)
Linked(h, a, z) ==
  /\ a \in Ptr /\ z \in Ptr
  /\ a # Null => IsFree(a) /\ a < base[h] /\ nxt[a] = z
  /\ a = Null => free = z
  /\ z # Null => IsFree(z) /\ RegionEnd(h) < z
  /\ free' = IF a = Null THEN base[h] ELSE free
  /\ prv' = [p \in Pages |-> IF p = base[h] THEN a
                             ELSE IF p = z THEN RegionEnd(h) ELSE prv[p]]
  /\ nxt' = [p \in Pages |-> IF p = RegionEnd(h) THEN z
                             ELSE IF p = a THEN base[h] ELSE nxt[p]]

(* Every way of inserting links the region in between two neighbours. *)
LEMMA LinkedInv ==
  ASSUME PoolInv, NEW h \in Harts, pc[h] \in {"insert", "walk"},
         pc' = [pc EXCEPT ![h] = "unlock"],
         UNCHANGED <<lock, dirty, held, callVars, localVars>>,
         NEW a, NEW z, Linked(h, a, z)
  PROVE  PoolInv'
<1>. DEFINE b == base[h]
            e == RegionEnd(h)
<1>. USE DEF callVars, localVars
<1>1. OthersSame(h) /\ pc[h] \in Holding /\ pc'[h] = "unlock" /\ pc'[h] \in Holding
  BY DEF OthersSame, Holding, PoolInv, TypeOK
<1>2. op[h] = "free" /\ ret[h] = Null
  BY DEF PoolInv, CallInv
<1>3. /\ InFlight(h) = Region(h) /\ Region(h) \subseteq Pages
      /\ b \in Region(h) /\ e \in Region(h)
      /\ \A p \in Region(h) : ~IsFree(p) /\ p \notin held[h]
                             /\ \A g \in Harts \ {h} : p \notin Owned(g)
  BY <1>2, RegionIsOwned
<1>4. InFlight(h)' = {}
  BY <1>1, <1>2 DEF InFlight
<1>5. \A g \in Harts \ {h} : InFlight(g)' = InFlight(g) /\ Owned(g)' = Owned(g)
  BY <1>1 DEF InFlight, Region, RegionEnd, OthersSame, Owned
<1>6. Owned(h)' = held[h] /\ Owned(h) = held[h] \cup Region(h)
  BY <1>3, <1>4 DEF Owned
<1>7. \A p : IsFree(p)' <=> IsFree(p) \/ p \in Region(h)
  BY <1>3, <1>5, <1>6 DEF IsFree
<1>8. NoDoubleAlloc'
  BY <1>4, <1>5, <1>6 DEF PoolInv, NoDoubleAlloc
<1>9. TypeOK'
  <2>1. free' \in Ptr /\ prv' \in [Pages -> Ptr] /\ nxt' \in [Pages -> Ptr \cup {Top}]
    BY <1>3 DEF Linked, PoolInv, TypeOK, Ptr
  <2>. QED
    BY <2>1 DEF PoolInv, TypeOK, Holding
<1>10. CallInv(h)' /\ SearchInv(h)' /\ InsertInv(h)' /\ Outcome(h)'
  BY <1>1, <1>2 DEF CallInv, SearchInv, InsertInv, Outcome
<1>11. FreeListExact'
  <2>. HIDE DEF b, e
  <2>0. /\ Null \notin Pages /\ b \in Pages /\ e \in Pages /\ b \in Int /\ e \in Int
        /\ \A p \in Pages : p \in Int
    BY <1>3, PoolAssumption DEF Pages, Null
  <2>1. \A p \in Int : p \in Region(h) <=> b <= p /\ p <= e
    BY <2>0 DEF Region, b, e
  <2>2. /\ a \in Int /\ z \in Int
        /\ a # Null => a \in Pages /\ IsFree(a) /\ a < b /\ nxt[a] = z
        /\ a = Null => free = z
        /\ z # Null => z \in Pages /\ IsFree(z) /\ e < z
        /\ b <= e
    <3>1. a \in Int /\ z \in Int
      BY PoolAssumption DEF Linked, Ptr, Null, Pages
    <3>. QED
      BY <1>3, <2>1, <2>0, <3>1 DEF Linked, Ptr, b, e
  <2>3. /\ free' = IF a = Null THEN b ELSE free
        /\ \A p \in Pages : prv'[p] = IF p = b THEN a ELSE IF p = z THEN e ELSE prv[p]
        /\ \A p \in Pages : nxt'[p] = IF p = e THEN z ELSE IF p = a THEN b ELSE nxt[p]
    BY DEF Linked, b, e
  <2>4. ASSUME NEW p \in Pages, IsFree(p)
        PROVE  /\ p \notin Region(h) /\ p # b /\ p # e
               /\ free # Null /\ free <= p
    BY <1>3, <2>4 DEF PoolInv, FreeListExact, b, e
  <2>5. ASSUME NEW p \in Region(h)
        PROVE  /\ p \in Pages /\ p # z /\ p # a /\ b <= p /\ p <= e
               /\ b < p => prv[p] = p - 1 /\ p - 1 \in Region(h)
               /\ p < e => nxt[p] = p + 1 /\ p + 1 \in Region(h)
    <3>1. p \in Pages /\ b <= p /\ p <= e /\ ~IsFree(p)
      BY <1>3, <2>0, <2>1
    <3>2. /\ b < p => prv[p] = p - 1
          /\ p < e => nxt[p] = p + 1
      BY DEF PoolInv, InsertInv, b, e
    <3>3. /\ b < p => p - 1 \in Region(h)
          /\ p < e => p + 1 \in Region(h)
      BY <2>0, <2>1, <3>1
    <3>. QED
      BY <2>0, <2>2, <3>1, <3>2, <3>3
  <2>6. free # Null => free \in Pages /\ free \in Int /\ IsFree(free) /\ prv[free] = Null
    BY <2>0 DEF PoolInv, FreeListExact, TypeOK, Ptr
  <2>7. free' # Null => IsFree(free)' /\ prv'[free'] = Null
    <3>1. CASE a = Null
      BY <1>3, <1>7, <2>0, <2>3, <3>1 DEF b
    <3>2. CASE a # Null
      <4>1. free # Null /\ free <= a /\ free \in Pages /\ IsFree(free) /\ prv[free] = Null
        BY <2>2, <2>4, <2>6, <3>2
      <4>2. free # b /\ free # z
        BY <2>0, <2>2, <2>4, <3>2, <4>1
      <4>. QED
        BY <1>7, <2>3, <3>2, <4>1, <4>2
    <3>. QED
      BY <3>1, <3>2
  <2>8. ASSUME NEW p \in Pages, IsFree(p)'
        PROVE  free' # Null /\ free' <= p
    <3>1. CASE a = Null
      BY <1>7, <2>0, <2>2, <2>3, <2>4, <2>5, <2>8, <3>1
    <3>2. CASE a # Null
      <4>1. free # Null /\ free <= a /\ free \in Pages
        BY <2>2, <2>4, <2>6, <3>2
      <4>. QED
        BY <1>7, <2>0, <2>2, <2>3, <2>4, <2>5, <2>8, <3>2, <4>1
    <3>. QED
      BY <3>1, <3>2
  <2>9. ASSUME NEW p \in Pages, IsFree(p), p # a
        PROVE  /\ nxt'[p] = nxt[p]
               /\ nxt[p] # z \/ nxt[p] = Null
               /\ nxt[p] # Null => /\ nxt[p] \in Pages /\ IsFree(nxt[p])
                                  /\ p < nxt[p] /\ prv[nxt[p]] = p
    <3>1. nxt[p] # Null => /\ nxt[p] \in Pages /\ IsFree(nxt[p])
                           /\ p < nxt[p] /\ prv[nxt[p]] = p
      BY <2>9 DEF PoolInv, FreeListExact
    <3>2. ASSUME nxt[p] # Null PROVE nxt[p] # z
      <4>1. CASE a = Null
        BY <2>0, <2>2, <2>6, <3>1, <3>2, <4>1
      <4>2. CASE a # Null
        <5>1. nxt[a] # Null => prv[nxt[a]] = a
          BY <2>2, <4>2 DEF PoolInv, FreeListExact
        <5>. QED
          BY <2>2, <2>9, <3>1, <3>2, <4>2, <5>1
      <4>. QED
        BY <4>1, <4>2
    <3>. QED
      BY <2>3, <2>4, <2>9, <3>1, <3>2
  <2>10. ASSUME NEW p \in Pages, IsFree(p)', nxt'[p] # Null
         PROVE  nxt'[p] \in Pages /\ IsFree(nxt[p])' /\ p < nxt'[p] /\ prv'[nxt'[p]] = p
    <3>1. CASE p \in Region(h)
      BY <1>7, <2>0, <2>2, <2>3, <2>5, <2>10, <3>1
    <3>2. CASE p = a
      <4>1. nxt'[p] = b
        BY <2>0, <2>2, <2>3, <2>4, <2>10, <3>2
      <4>2. IsFree(b)' /\ prv'[b] = a /\ a < b
        BY <1>3, <1>7, <2>0, <2>2, <2>3, <2>10, <3>2 DEF b
      <4>. QED
        BY <1>3, <1>7, <2>0, <3>2, <4>1, <4>2 DEF b
    <3>3. CASE IsFree(p) /\ p # a
      BY <1>7, <2>3, <2>4, <2>9, <2>10, <3>3
    <3>. QED
      BY <1>7, <2>10, <3>1, <3>2, <3>3
  <2>11. ASSUME NEW p \in Pages, NEW q \in Pages, IsFree(p)', IsFree(q)', p < q
         PROVE  nxt'[p] # Null /\ nxt'[p] <= q
    <3>0. ASSUME NEW r \in Pages, IsFree(r), r < q, IsFree(q)
          PROVE  nxt[r] # Null /\ nxt[r] <= q
      BY <3>0 DEF PoolInv, FreeListExact
    <3>1. CASE p \in Region(h) /\ p # e
      BY <2>0, <2>1, <2>3, <2>5, <2>11, <3>1
    <3>2. CASE p = e
      <4>1. IsFree(q)
        BY <1>7, <2>5, <2>11, <3>2, <2>0
      <4>2. z # Null /\ z <= q
        <5>1. CASE a = Null
          BY <2>2, <2>4, <4>1, <5>1
        <5>2. CASE a # Null
          BY <2>0, <2>2, <2>11, <3>0, <3>2, <4>1, <5>2
        <5>. QED
          BY <5>1, <5>2
      <4>. QED
        BY <2>3, <3>2, <4>2
    <3>3. CASE p = a
      <4>1. nxt'[p] = b
        BY <2>0, <2>2, <2>3, <2>4, <2>11, <3>3
      <4>2. b <= q
        BY <1>7, <2>0, <2>2, <2>5, <2>11, <3>0, <3>3
      <4>. QED
        BY <2>0, <4>1, <4>2
    <3>4. CASE IsFree(p) /\ p # a
      <4>1. CASE IsFree(q)
        BY <2>9, <2>11, <3>0, <3>4, <4>1
      <4>2. CASE q \in Region(h)
        <5>1. p < b
          BY <2>0, <2>1, <2>4, <2>5, <2>11, <3>4, <4>2
        <5>2. a # Null
          BY <2>0, <2>2, <2>4, <3>4, <5>1
        <5>3. p < a
          <6>. SUFFICES ASSUME a < p PROVE FALSE
            BY <2>0, <2>2, <3>4, <5>2
          <6>1. nxt[a] # Null /\ nxt[a] <= p
            BY <2>2, <3>4, <5>2 DEF PoolInv, FreeListExact
          <6>. QED
            BY <2>0, <2>2, <5>1, <5>2, <6>1
        <5>4. nxt[p] # Null /\ nxt[p] <= a
          BY <2>2, <3>4, <5>2, <5>3 DEF PoolInv, FreeListExact
        <5>5. b <= q /\ q \in Int
          BY <2>0, <2>5, <4>2
        <5>6. nxt[p] \in Pages /\ nxt'[p] = nxt[p]
          BY <2>9, <3>4, <5>4
        <5>7. nxt[p] \in Int /\ b \in Int /\ a \in Int /\ a < b
          BY <2>0, <2>2, <5>2, <5>6
        <5>. QED
          BY <5>4, <5>5, <5>6, <5>7
      <4>. QED
        BY <1>7, <2>11, <4>1, <4>2
    <3>. QED
      BY <1>7, <2>11, <3>1, <3>2, <3>3, <3>4
  <2>12. ASSUME NEW p \in Pages, IsFree(p)', p # free'
         PROVE  prv'[p] \in Pages /\ IsFree(prv[p])' /\ nxt'[prv'[p]] = p
    <3>1. CASE p = b
      <4>1. a # Null
        BY <2>3, <2>12, <3>1
      <4>2. prv'[p] = a /\ nxt'[a] = b
        BY <2>2, <2>3, <2>4, <3>1, <4>1
      <4>. QED
        BY <1>7, <2>2, <3>1, <4>1, <4>2
    <3>2. CASE p = z
      <4>1. prv'[p] = e /\ nxt'[e] = z /\ e \in Region(h)
        BY <1>3, <2>0, <2>2, <2>3, <3>2 DEF e
      <4>. QED
        BY <1>7, <2>0, <3>2, <4>1
    <3>3. CASE p \in Region(h) /\ p # b
      <4>1. prv'[p] = p - 1 /\ p - 1 \in Region(h) /\ p - 1 < e
        BY <2>0, <2>3, <2>5, <3>3
      <4>2. nxt'[p - 1] = p /\ p - 1 \in Pages
        BY <2>0, <2>3, <2>5, <4>1, <3>3
      <4>. QED
        BY <1>7, <4>1, <4>2
    <3>4. CASE IsFree(p) /\ p # z
      <4>1. p # free
        BY <2>2, <2>3, <2>12, <3>4
      <4>2. prv[p] \in Pages /\ IsFree(prv[p]) /\ nxt[prv[p]] = p
        BY <3>4, <4>1 DEF PoolInv, FreeListExact
      <4>3. prv'[p] = prv[p]
        BY <2>3, <2>4, <3>4
      <4>4. prv[p] # a
        BY <2>0, <2>2, <3>4, <4>2
      <4>5. nxt'[prv[p]] = p
        BY <2>3, <2>4, <4>2, <4>4
      <4>. QED
        BY <1>7, <4>2, <4>3, <4>5
    <3>. QED
      BY <1>7, <2>12, <3>1, <3>2, <3>3, <3>4
  <2>. QED
    BY <2>7, <2>8, <2>10, <2>11, <2>12 DEF FreeListExact
<1>. QED
  BY <1>1, <1>8, <1>9, <1>10, <1>11, HolderStep

(* Into an empty list. *)
LEMMA InsertEmptyInv ==
  ASSUME PoolInv, NEW h \in Harts, InsertEmpty(h)
  PROVE  PoolInv'
<1>1. op[h] = "free" /\ base[h] \in Pages /\ RegionEnd(h) \in Pages
  BY DEF InsertEmpty, PoolInv, CallInv, TypeOK
<1>2. Linked(h, Null, Null)
  <2>1. Null \notin Pages
    BY PoolAssumption DEF Pages, Null
  <2>. QED
    BY <1>1, <2>1 DEF InsertEmpty, Linked, Ptr, PoolInv, TypeOK
<1>. QED
  BY <1>2, LinkedInv DEF InsertEmpty, Goto

(* In front of the first free page. *)
LEMMA InsertFrontInv ==
  ASSUME PoolInv, NEW h \in Harts, InsertFront(h)
  PROVE  PoolInv'
<1>1. /\ op[h] = "free" /\ base[h] \in Pages /\ RegionEnd(h) \in Pages
      /\ free \in Pages /\ IsFree(free)
  BY DEF InsertFront, FrontPrv, InFront, PoolInv, CallInv, TypeOK, FreeListExact, Ptr
<1>2. ~IsFree(base[h])
  BY <1>1, RegionIsOwned DEF InsertFront, FrontPrv, InFront
<1>3. Linked(h, Null, free)
  <2>1. free # base[h]
    BY <1>1, <1>2
  <2>2. RegionEnd(h) < free /\ Null \notin Pages
    BY <1>1, PoolAssumption DEF InsertFront, FrontPrv, InFront, Pages, Null
  <2>. QED
    BY <1>1, <2>1, <2>2 DEF InsertFront, FrontPrv, InFront, Linked, Ptr, PoolInv, TypeOK
<1>. QED
  BY <1>3, LinkedInv DEF InsertFront, FrontPrv, InFront, Goto

(* A free page is outside the region, so below its end means below it. *)
LEMMA FreeOutside ==
  ASSUME PoolInv, NEW h \in Harts, op[h] = "free", pc[h] \in {"insert", "walk"},
         NEW p \in Pages, IsFree(p)
  PROVE  p < base[h] \/ RegionEnd(h) < p
<1>1. p \notin Region(h)
  BY RegionIsOwned
<1>2. base[h] \in Pages /\ RegionEnd(h) \in Pages
  BY DEF PoolInv, CallInv, TypeOK
<1>. QED
  BY <1>1, <1>2, PoolAssumption DEF Region, Pages

(* Behind head, wherever the walk stopped. *)
LEMMA SpliceInv ==
  ASSUME PoolInv, NEW h \in Harts, Splice(h)
  PROVE  PoolInv'
<1>1. /\ op[h] = "free" /\ base[h] \in Pages /\ RegionEnd(h) \in Pages
      /\ page[h] \in Pages /\ IsFree(page[h]) /\ page[h] < base[h]
      /\ next[h] = nxt[page[h]]
  BY DEF Splice, PoolInv, CallInv, InsertInv, TypeOK
<1>2. next[h] \in Ptr /\ (next[h] # Null => IsFree(next[h]))
  BY <1>1 DEF PoolInv, FreeListExact, Ptr
<1>3. next[h] # Null => RegionEnd(h) < next[h]
  <2>. SUFFICES ASSUME next[h] # Null PROVE RegionEnd(h) < next[h]
    OBVIOUS
  <2>1. next[h] \in Pages /\ ~(next[h] < RegionEnd(h))
    BY <1>2 DEF Splice, WalkOn, Ptr
  <2>2. next[h] < base[h] \/ RegionEnd(h) < next[h]
    BY <1>1, <1>2, <2>1, FreeOutside DEF Splice
  <2>3. base[h] <= RegionEnd(h)
    BY <1>1, PoolAssumption DEF PoolInv, TypeOK, RegionEnd, Pages
  <2>. QED
    BY <1>1, <2>1, <2>2, <2>3, PoolAssumption DEF Pages
<1>4. Linked(h, page[h], next[h])
  <2>1. page[h] # Null
    BY <1>1, PoolAssumption DEF Pages, Null
  <2>. QED
    BY <1>1, <1>2, <1>3, <2>1 DEF Splice, Linked, Ptr
<1>. QED
  BY <1>4, LinkedInv DEF Splice, Goto

(* The walk starts at the first free page when that lies below the region. *)
LEMMA InsertLaterInv ==
  ASSUME PoolInv, NEW h \in Harts, InsertLater(h)
  PROVE  PoolInv'
<1>. USE DEF InsertLater, InFront, Goto, callVars, poolVars
<1>1. OthersSame(h) /\ pc[h] \in Holding /\ pc'[h] = "walk" /\ pc'[h] \in Holding
  BY DEF OthersSame, Holding, PoolInv, TypeOK
<1>2. /\ op[h] = "free" /\ free \in Pages /\ IsFree(free) /\ ret[h] = Null
      /\ base[h] \in Pages /\ RegionEnd(h) \in Pages
  BY DEF PoolInv, CallInv, FreeListExact, TypeOK, Ptr
<1>3. free < base[h]
  <2>1. free < base[h] \/ RegionEnd(h) < free
    BY <1>2, FreeOutside
  <2>. QED
    BY <1>2, <2>1, PoolAssumption DEF Pages
<1>4. nxt[free] \in Ptr
  BY <1>2, FreeNext
<1>5. TypeOK'
  BY <1>2, <1>4 DEF PoolInv, TypeOK, Holding, Ptr
<1>6. InFlight(h)' = InFlight(h) /\ Region(h)' = Region(h) /\ RegionEnd(h)' = RegionEnd(h)
  BY <1>1, <1>2 DEF InFlight, Region, RegionEnd
<1>7. \A p : IsFree(p)' <=> IsFree(p)
  BY <1>1, <1>6, QuietFree
<1>8. page'[h] = free /\ next'[h] = nxt[free]
  BY DEF PoolInv, TypeOK
<1>9. InsertInv(h)'
  <2>1. \A p \in Region(h) : /\ base[h] < p => prv[p] = p - 1
                             /\ p < RegionEnd(h) => nxt[p] = p + 1
    BY DEF PoolInv, InsertInv
  <2>. QED
    BY <1>1, <1>2, <1>3, <1>6, <1>7, <1>8, <2>1 DEF InsertInv
<1>10. CallInv(h)' /\ SearchInv(h)' /\ Outcome(h)'
  BY <1>1, <1>2, <1>6 DEF CallInv, SearchInv, Outcome
<1>. QED
  BY <1>1, <1>5, <1>6, <1>9, <1>10, QuietStep

(* The walk moves on to a free page that still lies below the region. *)
LEMMA WalkInv ==
  ASSUME PoolInv, NEW h \in Harts, Walk(h)
  PROVE  PoolInv'
<1>. USE DEF Walk, HeadNext, callVars, poolVars
<1>1. OthersSame(h) /\ pc[h] \in Holding /\ pc'[h] = "walk" /\ pc'[h] \in Holding
  BY DEF OthersSame, Holding, PoolInv, TypeOK
<1>2. /\ op[h] = "free" /\ ret[h] = Null /\ free # Null
      /\ base[h] \in Pages /\ RegionEnd(h) \in Pages
      /\ page[h] \in Pages /\ IsFree(page[h]) /\ next[h] = nxt[page[h]]
  BY DEF PoolInv, CallInv, InsertInv, TypeOK
<1>3. next[h] \in Pages /\ IsFree(next[h])
  BY <1>2 DEF WalkOn, PoolInv, FreeListExact
<1>4. next[h] < base[h]
  <2>1. next[h] < base[h] \/ RegionEnd(h) < next[h]
    BY <1>2, <1>3, FreeOutside
  <2>. QED
    BY <1>2, <1>3, <2>1, PoolAssumption DEF Pages, WalkOn
<1>5. nxt[next[h]] \in Ptr
  BY <1>3, FreeNext
<1>6. TypeOK'
  BY <1>3, <1>5 DEF PoolInv, TypeOK, Holding, Ptr
<1>7. InFlight(h)' = InFlight(h) /\ Region(h)' = Region(h) /\ RegionEnd(h)' = RegionEnd(h)
  BY <1>1, <1>2 DEF InFlight, Region, RegionEnd
<1>8. \A p : IsFree(p)' <=> IsFree(p)
  BY <1>1, <1>7, QuietFree
<1>9. page'[h] = next[h] /\ next'[h] = nxt[next[h]]
  BY DEF PoolInv, TypeOK
<1>10. InsertInv(h)'
  <2>1. \A p \in Region(h) : /\ base[h] < p => prv[p] = p - 1
                             /\ p < RegionEnd(h) => nxt[p] = p + 1
    BY DEF PoolInv, InsertInv
  <2>. QED
    BY <1>1, <1>2, <1>3, <1>4, <1>7, <1>8, <1>9, <2>1 DEF InsertInv
<1>11. CallInv(h)' /\ SearchInv(h)' /\ Outcome(h)'
  BY <1>1, <1>2, <1>7 DEF CallInv, SearchInv, Outcome
<1>. QED
  BY <1>1, <1>6, <1>7, <1>10, <1>11, QuietStep

-----------------------------------------------------------------------------
(* The steps at the edge of a call: none of them touches a free page, and  *)
(* none moves a page into or out of the list.                              *)

(* A step that leaves the pool and every other hart alone, and leaves hart *)
(* h outside the pool.                                                     *)
LEMMA EdgeStep ==
  ASSUME PoolInv, NEW h \in Harts, OthersSame(h), UNCHANGED poolVars,
         TypeOK', LockInv', MutualExclusion',
         \A g \in Harts \ {h} : held'[g] = held[g],
         Owned(h)' = Owned(h), (held[h] \cap InFlight(h))' = {},
         CallInv(h)', SearchInv(h)', InsertInv(h)', Outcome(h)'
  PROVE  PoolInv'
<1>. USE DEF poolVars
<1>1. \A g \in Harts \ {h} : InFlight(g)' = InFlight(g) /\ Region(g)' = Region(g)
                             /\ RegionEnd(g)' = RegionEnd(g)
  BY DEF InFlight, Region, RegionEnd, OthersSame
<1>2. \A g \in Harts : Owned(g)' = Owned(g)
  BY <1>1 DEF Owned
<1>3. \A p : IsFree(p)' <=> IsFree(p)
  BY <1>2, FreeSame
<1>4. NoDoubleAlloc'
  BY <1>1, <1>2 DEF PoolInv, NoDoubleAlloc
<1>5. FreeListExact'
  BY <1>2, ListSame DEF PoolInv
<1>6. ASSUME NEW g \in Harts \ {h}
      PROVE  CallInv(g)' /\ SearchInv(g)' /\ InsertInv(g)' /\ Outcome(g)'
  <2>1. CallInv(g) /\ SearchInv(g) /\ InsertInv(g) /\ Outcome(g)
    BY OutcomeOfEach DEF PoolInv
  <2>2. FirstRunShort(g)' <=> FirstRunShort(g)
    BY <1>3 DEF FirstRunShort, OthersSame
  <2>3. CallInv(g)' /\ InsertInv(g)'
    BY <1>1, <1>3, <2>1 DEF CallInv, InsertInv, OthersSame
  <2>4. SearchInv(g)'
    BY <1>3, <2>1, <2>2 DEF SearchInv, OthersSame
  <2>5. Outcome(g)'
    BY <1>3, <2>1, <2>2 DEF Outcome, OthersSame
  <2>. QED
    BY <2>3, <2>4, <2>5
<1>7. AllocIsZeroed' /\ AllocTakesLowest'
  BY <1>6 DEF Outcome, AllocIsZeroed, AllocTakesLowest
<1>8. FailsOnlyWhenShort'
  BY <1>6 DEF Outcome, FailsOnlyWhenShort, FirstRunShort
<1>9. SinglePageServed'
  BY <1>6 DEF Outcome, SinglePageServed, TypeOK
<1>. QED
  BY <1>4, <1>5, <1>6, <1>7, <1>8, <1>9 DEF PoolInv

(* palloc_plural only records its argument. *)
LEMMA PallocInv ==
  ASSUME PoolInv, NEW h \in Harts, NEW n \in 1..MaxReq, palloc_plural(h, n)
  PROVE  PoolInv'
<1>. USE DEF palloc_plural, Goto, localVars
<1>1. OthersSame(h) /\ pc[h] = "idle" /\ pc'[h] = "lock" /\ op'[h] = "alloc"
  BY DEF OthersSame, PoolInv, TypeOK
<1>2. TypeOK'
  BY DEF PoolInv, TypeOK, poolVars, Holding
<1>3. LockInv' /\ MutualExclusion'
  BY <1>1 DEF PoolInv, LockInv, MutualExclusion, Holding, OthersSame
<1>4. InFlight(h) = {} /\ InFlight(h)' = {}
  BY <1>1 DEF InFlight
<1>5. CallInv(h)' /\ SearchInv(h)' /\ InsertInv(h)' /\ Outcome(h)'
  BY <1>1 DEF CallInv, SearchInv, InsertInv, Outcome, PoolInv
<1>. QED
  BY <1>1, <1>2, <1>3, <1>4, <1>5, EdgeStep DEF Owned

(* The pages given to pfree_plural pass from the caller to the call. *)
LEMMA PfreeInv ==
  ASSUME PoolInv, NEW h \in Harts, NEW q \in Pages, NEW n \in 1..MaxReq,
         pfree_plural(h, q, n)
  PROVE  PoolInv'
<1>. USE DEF pfree_plural, Goto, localVars
<1>1. /\ OthersSame(h) /\ pc[h] = "idle" /\ pc'[h] = "lock" /\ op'[h] = "free"
      /\ base'[h] = q /\ num'[h] = n /\ held'[h] = held[h] \ (q..(q + n - 1))
      /\ \A g \in Harts \ {h} : held'[g] = held[g]
  BY DEF OthersSame, PoolInv, TypeOK
<1>2. TypeOK'
  BY DEF PoolInv, TypeOK, poolVars, Holding
<1>3. LockInv' /\ MutualExclusion'
  BY <1>1 DEF PoolInv, LockInv, MutualExclusion, Holding, OthersSame
<1>4. InFlight(h) = {} /\ InFlight(h)' = q..(q + n - 1)
  BY <1>1 DEF InFlight, Region, RegionEnd
<1>5. q + n - 1 \in Pages
  <2>1. q + n - 1 \in held[h] /\ held[h] \subseteq Pages
    BY PoolAssumption DEF Pages, PoolInv, TypeOK
  <2>. QED
    BY <2>1
<1>6. CallInv(h)' /\ SearchInv(h)' /\ InsertInv(h)' /\ Outcome(h)'
  BY <1>1, <1>5 DEF CallInv, SearchInv, InsertInv, Outcome, PoolInv, RegionEnd
<1>7. Owned(h)' = Owned(h)
  BY <1>1, <1>4 DEF Owned
<1>8. (held[h] \cap InFlight(h))' = {}
  BY <1>1, <1>4
<1>. QED
  BY <1>1, <1>2, <1>3, <1>6, <1>7, <1>8, EdgeStep

(* The swap lets a hart in only if it found the lock open. *)
LEMMA LockStepInv ==
  ASSUME PoolInv, NEW h \in Harts, Lock(h)
  PROVE  PoolInv'
<1>. USE DEF Lock, Locked, Goto, localVars, callVars
<1>1. OthersSame(h) /\ pc[h] = "lock" /\ pc'[h] = IF lock = 1 THEN "lock" ELSE "enter"
  BY DEF OthersSame, PoolInv, TypeOK
<1>2. TypeOK'
  BY DEF PoolInv, TypeOK, poolVars, Holding
<1>3. LockInv' /\ MutualExclusion'
  BY <1>1 DEF PoolInv, LockInv, MutualExclusion, Holding, OthersSame
<1>4. InFlight(h)' = InFlight(h)
  BY <1>1 DEF InFlight, Region, RegionEnd
<1>5. CallInv(h)' /\ SearchInv(h)' /\ InsertInv(h)' /\ Outcome(h)'
  BY <1>1 DEF CallInv, SearchInv, InsertInv, Outcome, PoolInv, RegionEnd
<1>6. held[h] \cap InFlight(h) = {}
  BY DEF PoolInv, NoDoubleAlloc
<1>. QED
  BY <1>1, <1>2, <1>3, <1>4, <1>5, <1>6, EdgeStep DEF Owned

(* The pages of an Ok pass from the call to its caller. *)
LEMMA UnlockStepInv ==
  ASSUME PoolInv, NEW h \in Harts, Unlock(h)
  PROVE  PoolInv'
<1>. USE DEF Unlock, Goto
<1>1. /\ OthersSame(h) /\ pc[h] = "unlock" /\ pc'[h] = "idle" /\ op'[h] = "alloc"
      /\ ret'[h] = Null
      /\ \A g \in Harts \ {h} : held'[g] = held[g]
  BY DEF OthersSame, PoolInv, TypeOK
<1>2. InFlight(h) = IF ret[h] = Null THEN {} ELSE ret[h]..(ret[h] + num[h] - 1)
  BY <1>1 DEF InFlight
<1>3. InFlight(h)' = {}
  BY <1>1 DEF InFlight
<1>4. held'[h] = held[h] \cup InFlight(h)
  BY <1>2 DEF PoolInv, TypeOK
<1>5. InFlight(h) \subseteq Pages
  BY <1>1, <1>2 DEF PoolInv, AllocIsZeroed
<1>6. TypeOK'
  <2>1. held' \in [Harts -> SUBSET Pages]
    BY <1>2, <1>5 DEF PoolInv, TypeOK
  <2>2. Bottom \in Pages /\ 1 \in 1..MaxReq /\ Null \in Ptr
    BY PoolAssumption DEF Pages, Ptr
  <2>. QED
    BY <2>1, <2>2 DEF PoolInv, TypeOK, poolVars, Holding
<1>7. LockInv' /\ MutualExclusion'
  <2>1. \A g \in Harts \ {h} : pc'[g] = pc[g] /\ pc[g] \in {"idle", "lock"}
    BY <1>1, OthersOutside DEF OthersSame, Holding
  <2>. QED
    BY <1>1, <2>1 DEF LockInv, MutualExclusion, Holding
<1>8. CallInv(h)' /\ SearchInv(h)' /\ InsertInv(h)' /\ Outcome(h)'
  BY <1>1 DEF CallInv, SearchInv, InsertInv, Outcome
<1>9. Owned(h)' = Owned(h)
  BY <1>3, <1>4 DEF Owned
<1>. QED
  BY <1>1, <1>3, <1>6, <1>7, <1>8, <1>9, EdgeStep

(* The owner of a page may write over its words: it is on no list, in no   *)
(* region being freed and in none being returned.                          *)
LEMMA ClientWriteInv ==
  ASSUME PoolInv, NEW h \in Harts, NEW q \in Pages, NEW w \in ClientWords,
         ClientWrite(h, q, w)
  PROVE  PoolInv'
<1>. USE DEF ClientWrite, callVars, localVars
<1>1. TypeOK'
  BY PoolAssumption DEF PoolInv, TypeOK, Holding
<1>2. LockInv' /\ MutualExclusion'
  BY DEF PoolInv, LockInv, MutualExclusion
<1>3. \A g \in Harts : InFlight(g)' = InFlight(g) /\ Owned(g)' = Owned(g)
                        /\ Region(g)' = Region(g) /\ RegionEnd(g)' = RegionEnd(g)
  BY DEF InFlight, Region, RegionEnd, Owned
<1>4. \A p : IsFree(p)' <=> IsFree(p)
  BY <1>3, FreeSame
<1>5. NoDoubleAlloc'
  BY <1>3 DEF PoolInv, NoDoubleAlloc
<1>6. ~IsFree(q) /\ \A g \in Harts : q \notin InFlight(g)
  BY DEF PoolInv, NoDoubleAlloc, IsFree, Owned
<1>7. \A p \in Pages : p # q => prv'[p] = prv[p] /\ nxt'[p] = nxt[p]
                              /\ (p \in dirty' <=> p \in dirty)
  BY DEF PoolInv, TypeOK
<1>8. FreeListExact'
  BY <1>3, <1>6, <1>7, ListSame DEF PoolInv
<1>9. ASSUME NEW g \in Harts
      PROVE  CallInv(g)' /\ SearchInv(g)' /\ InsertInv(g)' /\ Outcome(g)'
  <2>1. CallInv(g) /\ SearchInv(g) /\ InsertInv(g) /\ Outcome(g)
    BY OutcomeOfEach DEF PoolInv
  <2>2. FirstRunShort(g)' <=> FirstRunShort(g)
    BY <1>4 DEF FirstRunShort
  <2>3. CallInv(g)'
    BY <1>3, <2>1 DEF CallInv
  <2>4. SearchInv(g)'
    BY <1>4, <1>6, <1>7, <2>1, <2>2 DEF SearchInv
  <2>5. InsertInv(g)'
    <3>1. ASSUME pc[g] \in {"insert", "walk"}
          PROVE  \A p \in Region(g) : p \in Pages /\ p # q
      <4>1. op[g] = "free"
        BY <2>1, <3>1 DEF CallInv
      <4>. QED
        BY <1>6, <3>1, <4>1, RegionIsOwned
    <3>2. pc[g] = "walk" => page[g] \in Pages /\ page[g] # q
      BY <1>6, <2>1 DEF InsertInv
    <3>. QED
      BY <1>3, <1>4, <1>7, <2>1, <3>1, <3>2 DEF InsertInv
  <2>6. Outcome(g)'
    <3>1. ASSUME pc[g] = "unlock", ret[g] # Null
          PROVE  \A p \in ret[g]..(ret[g] + num[g] - 1) : p # q
      BY <1>6, <3>1 DEF InFlight
    <3>. QED
      BY <1>4, <1>7, <2>1, <2>2, <3>1 DEF Outcome
  <2>. QED
    BY <2>1, <2>3, <2>4, <2>5, <2>6
<1>10. AllocIsZeroed' /\ AllocTakesLowest'
  BY <1>9 DEF Outcome, AllocIsZeroed, AllocTakesLowest
<1>11. FailsOnlyWhenShort'
  BY <1>9 DEF Outcome, FailsOnlyWhenShort, FirstRunShort
<1>12. SinglePageServed'
  BY <1>1, <1>9 DEF Outcome, SinglePageServed, TypeOK
<1>. QED
  BY <1>1, <1>2, <1>5, <1>8, <1>9, <1>10, <1>11, <1>12 DEF PoolInv

-----------------------------------------------------------------------------
(* In a build with overflow checks every step of the allocator preserves   *)
(* PoolInv.                                                                *)
LEMMA StepInv ==
  ASSUME OverflowChecks, PoolInv, [Next]_vars
  PROVE  PoolInv'
<1>1. CASE UNCHANGED vars
  <2>. USE <1>1 DEF vars, poolVars, callVars, localVars
  <2>1. \A g \in Harts : InFlight(g)' = InFlight(g) /\ Owned(g)' = Owned(g)
                          /\ Region(g)' = Region(g) /\ RegionEnd(g)' = RegionEnd(g)
    BY DEF InFlight, Region, RegionEnd, Owned
  <2>2. \A p : IsFree(p)' <=> IsFree(p)
    BY <2>1, FreeSame
  <2>3. (TypeOK /\ LockInv /\ MutualExclusion /\ NoDoubleAlloc)'
    BY <2>1 DEF PoolInv, TypeOK, LockInv, MutualExclusion, NoDoubleAlloc
  <2>4. FreeListExact'
    BY <2>1, ListSame DEF PoolInv
  <2>5. \A h \in Harts : (CallInv(h) /\ InsertInv(h))'
    BY <2>1, <2>2 DEF PoolInv, CallInv, InsertInv
  <2>6. \A h \in Harts : SearchInv(h)'
    BY <2>1, <2>2 DEF PoolInv, SearchInv, FirstRunShort
  <2>7. (AllocIsZeroed /\ SinglePageServed /\ FailsOnlyWhenShort /\ AllocTakesLowest)'
    BY <2>2 DEF PoolInv, AllocIsZeroed, SinglePageServed, FailsOnlyWhenShort,
                AllocTakesLowest, FirstRunShort
  <2>. QED
    BY <2>3, <2>4, <2>5, <2>6, <2>7 DEF PoolInv
<1>2. ASSUME NEW h \in Harts, Call(h)
      PROVE  PoolInv'
  BY <1>2, PallocInv, PfreeInv, ClientWriteInv DEF Call
<1>3. ASSUME NEW h \in Harts, Step(h)
      PROVE  PoolInv'
  BY <1>3, LockStepInv, AllocEnterInv, OuterInv, ExtendInv, InnerDoneInv,
     UnlinkInv, FreeEnterInv, InsertEmptyInv, InsertFrontInv, InsertLaterInv,
     WalkInv, SpliceInv, FaultInv, UnlockStepInv DEF Step
<1>4. ASSUME NEW h \in Harts, PanicLoop(h)
      PROVE  PoolInv'
  BY <1>1, <1>4 DEF PanicLoop
<1>. QED
  BY <1>1, <1>2, <1>3, <1>4 DEF Next

-----------------------------------------------------------------------------
(* The theorems.  They are about a build with overflow checks: without     *)
(* them NoDoubleAlloc is false.                                            *)

(* The inductive invariant: what each local of alloc_pages and free_pages  *)
(* means, and what the list looks like, at every step of every call.       *)
THEOREM PoolInvHolds ==
  ASSUME OverflowChecks
  PROVE  Spec => []PoolInv
<1>1. Init => PoolInv
  BY InitInv
<1>2. PoolInv /\ [Next]_vars => PoolInv'
  BY StepInv
<1>. QED
  BY <1>1, <1>2, PTL DEF Spec

(* The pool never hands out a page that is in use (palloc.rs). *)
THEOREM NoDoubleAllocHolds ==
  ASSUME OverflowChecks
  PROVE  Spec => []NoDoubleAlloc
<1>1. PoolInv => NoDoubleAlloc
  BY DEF PoolInv
<1>. QED
  BY <1>1, PoolInvHolds, PTL

(* The free list holds exactly the free pages, in address order. *)
THEOREM FreeListExactHolds ==
  ASSUME OverflowChecks
  PROVE  Spec => []FreeListExact
<1>1. PoolInv => FreeListExact
  BY DEF PoolInv
<1>. QED
  BY <1>1, PoolInvHolds, PTL

(* Every page that alloc_pages hands out is zero, whatever its last owner  *)
(* left in it.                                                             *)
THEOREM PagesComeZeroed ==
  ASSUME OverflowChecks
  PROVE  Spec => []AllocIsZeroed
<1>1. PoolInv => AllocIsZeroed
  BY DEF PoolInv
<1>. QED
  BY <1>1, PoolInvHolds, PTL

(* A request for one page is refused only when no page is free: palloc     *)
(* never panics and never fails in front of a page it could take.          *)
THEOREM SinglePageIsServed ==
  ASSUME OverflowChecks
  PROVE  Spec => []SinglePageServed
<1>1. PoolInv => SinglePageServed
  BY DEF PoolInv
<1>. QED
  BY <1>1, PoolInvHolds, PTL

(* A request for one page never panics, and a request for several panics,  *)
(* or is refused with OutOfPages, only when the first run of the free list *)
(* is not longer than the request.                                         *)
THEOREM FailureNeedsShortRun ==
  ASSUME OverflowChecks
  PROVE  Spec => []FailsOnlyWhenShort
<1>1. PoolInv => FailsOnlyWhenShort
  BY DEF PoolInv
<1>. QED
  BY <1>1, PoolInvHolds, PTL

(* The pages handed out are the lowest free ones.                          *)
THEOREM LowestPagesFirst ==
  ASSUME OverflowChecks
  PROVE  Spec => []AllocTakesLowest
<1>1. PoolInv => AllocTakesLowest
  BY DEF PoolInv
<1>. QED
  BY <1>1, PoolInvHolds, PTL

(* All variables keep their types. *)
THEOREM TypeCorrect ==
  ASSUME OverflowChecks
  PROVE  Spec => []TypeOK
<1>1. PoolInv => TypeOK
  BY DEF PoolInv
<1>. QED
  BY <1>1, PoolInvHolds, PTL
=============================================================================
