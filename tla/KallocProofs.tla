---------------------------- MODULE KallocProofs ----------------------------
(***************************************************************************)
(* Proofs about Kalloc, the small-object allocator of src/vm/vmalloc.rs.   *)
(***************************************************************************)
EXTENDS Kalloc, FiniteSetTheorems, TLAPS

USE DEF HEADER_SIZE, ZONE_SIZE, Null

-----------------------------------------------------------------------------
(* A non-empty set of page numbers has a lowest one. *)
LEMMA LowestIsLowest ==
  ASSUME NEW S \in SUBSET Nat, S # {}
  PROVE  Lowest(S) \in S /\ \A q \in S : Lowest(S) <= q
<1>1. \E x \in S : \A y \in S : ~(<<y, x>> \in OpToRel(<, Nat))
  BY NatLessThanWellFounded, WFMin, Zenon
<1>. DEFINE Less == {ss \in Nat \X Nat : ss[1] < ss[2]}
<1>2. OpToRel(<, Nat) = Less
  BY Zenon DEF OpToRel
<1>3. \E x \in S : \A y \in S : <<y, x>> \notin Less
  BY <1>1, <1>2, Zenon
<1>4. \A x, y \in Nat : y < x => <<y, x>> \in Less
  OBVIOUS
<1>. HIDE DEF Less
<1>5. PICK x \in S : \A y \in S : <<y, x>> \notin Less
  BY <1>3
<1>6. \A y \in S : x <= y
  <2>. SUFFICES ASSUME NEW y \in S PROVE ~(y < x)
    OBVIOUS
  <2>. QED
    BY <1>4, <1>5
<1>. QED
  BY <1>6 DEF Lowest

-----------------------------------------------------------------------------
(* The chunks of one zone. *)

ChunkMaps == UNION {[S -> Header] : S \in SUBSET (Offsets \ {0})}

End(c, o) == o + HEADER_SIZE + c[o].size

(* Chunks without gap or overlap, from the zone header to the end. *)
Tiled(c) ==
  /\ c \in ChunkMaps
  /\ ZONE_SIZE \in DOMAIN c
  /\ \A o \in DOMAIN c : End(c, o) \in DOMAIN c \cup {PAGE_SIZE}
  /\ \A o, p \in DOMAIN c : p <= o \/ End(c, o) <= p

(* A chunk map is a function from offsets to headers. *)
LEMMA ChunkMapType ==
  ASSUME NEW c
  PROVE  c \in ChunkMaps <=> c \in [DOMAIN c -> Header] /\ DOMAIN c \subseteq Offsets \ {0}
BY DEF ChunkMaps

(* What the numbers of a chunk may be. *)
LEMMA ChunkNumbers ==
  ASSUME NEW c, Tiled(c), NEW o \in DOMAIN c
  PROVE  /\ o \in Nat /\ o % 8 = 0 /\ 8 <= o /\ o < PAGE_SIZE
         /\ c[o].size \in Nat /\ c[o].size % 8 = 0 /\ c[o].size <= MAX_CHUNK_SIZE
         /\ c[o].used \in BOOLEAN /\ c[o] = [size |-> c[o].size, used |-> c[o].used]
         /\ End(c, o) \in Nat /\ End(c, o) % 8 = 0 /\ End(c, o) <= PAGE_SIZE
<1>1. c \in [DOMAIN c -> Header] /\ DOMAIN c \subseteq Offsets \ {0}
  BY ChunkMapType DEF Tiled
<1>2. c[o] \in Header /\ o \in Offsets \ {0} /\ End(c, o) \in Offsets \cup {PAGE_SIZE}
  BY <1>1 DEF Tiled
<1>3. o \in Nat /\ o % 8 = 0 /\ 8 <= o /\ o < PAGE_SIZE
  BY <1>2, KallocAssumption DEF Offsets
<1>4. /\ c[o].size \in Nat /\ c[o].size <= MAX_CHUNK_SIZE
      /\ c[o].used \in BOOLEAN /\ c[o] = [size |-> c[o].size, used |-> c[o].used]
  BY <1>2, KallocAssumption DEF Header, MAX_CHUNK_SIZE
<1>5. End(c, o) \in Nat /\ End(c, o) % 8 = 0 /\ End(c, o) <= PAGE_SIZE
  BY <1>2, KallocAssumption DEF Offsets
<1>6. c[o].size % 8 = 0
  BY <1>3, <1>4, <1>5 DEF End
<1>. QED
  BY <1>3, <1>4, <1>5, <1>6

(* A page fresh from the pool is one chunk. *)
LEMMA NewZoneTiled == Tiled(NewZone.chunk)
<1>. DEFINE c == NewZone.chunk
<1>1. c = [o \in {8} |-> Free(MAX_CHUNK_SIZE)] /\ DOMAIN c = {8}
  BY DEF NewZone
<1>2. Free(MAX_CHUNK_SIZE) \in Header /\ 8 \in Offsets \ {0}
  BY KallocAssumption DEF Free, Header, MAX_CHUNK_SIZE, Offsets
<1>3. c \in ChunkMaps
  BY <1>1, <1>2, ChunkMapType
<1>4. End(c, 8) = PAGE_SIZE
  BY <1>1, KallocAssumption DEF End, Free, MAX_CHUNK_SIZE
<1>. QED
  BY <1>1, <1>3, <1>4 DEF Tiled

(* Header::split leaves the zone tiled, also when nothing but a header is  *)
(* left over.                                                              *)
LEMMA SplitTiled ==
  ASSUME NEW c, Tiled(c), NEW o \in DOMAIN c,
         NEW n \in Nat, n % 8 = 0, n <= c[o].size
  PROVE  Tiled(Split(c, o, n))
<1>. DEFINE s == Split(c, o, n)
            rest == o + HEADER_SIZE + n
<1>1. /\ o \in Nat /\ o % 8 = 0 /\ 8 <= o /\ o < PAGE_SIZE
      /\ c[o].size \in Nat /\ c[o].size % 8 = 0 /\ c[o].size <= MAX_CHUNK_SIZE
      /\ End(c, o) \in Nat /\ End(c, o) % 8 = 0 /\ End(c, o) <= PAGE_SIZE
  BY ChunkNumbers
<1>2. c \in [DOMAIN c -> Header] /\ DOMAIN c \subseteq Offsets \ {0}
  BY ChunkMapType DEF Tiled
<1>3. Used(n) \in Header /\ Used(n).size = n
  BY <1>1, KallocAssumption DEF Used, Header, MAX_CHUNK_SIZE
<1>4. CASE n = c[o].size
  <2>1. s = [c EXCEPT ![o] = Used(n)]
    BY <1>4 DEF Split
  <2>2. s \in ChunkMaps /\ DOMAIN s = DOMAIN c
    BY <1>2, <1>3, <2>1, ChunkMapType
  <2>3. \A p \in DOMAIN c : End(s, p) = End(c, p)
    BY <1>2, <1>3, <1>4, <2>1 DEF End
  <2>. QED
    BY <2>2, <2>3 DEF Tiled
<1>5. CASE n # c[o].size
  <2>1. n + 8 <= c[o].size
    BY <1>1, <1>5
  <2>2. s = [p \in DOMAIN c \cup {rest} |->
               IF p = o THEN Used(n)
               ELSE IF p = rest THEN Free(c[o].size - n - 8) ELSE c[p]]
    BY <1>5 DEF Split, RestSize
  <2>3. rest \in Nat /\ rest % 8 = 0 /\ o + 8 <= rest /\ rest + 8 <= End(c, o)
    BY <1>1, <2>1 DEF End
  <2>4. rest \in Offsets \ {0} /\ Free(c[o].size - n - 8) \in Header
    BY <1>1, <2>1, <2>3, KallocAssumption DEF Offsets, Free, Header, MAX_CHUNK_SIZE
  <2>5. s \in ChunkMaps /\ DOMAIN s = DOMAIN c \cup {rest}
    BY <1>2, <1>3, <2>2, <2>4, ChunkMapType
  <2>6. End(s, o) = rest
    BY <1>3, <2>2, <2>3 DEF End
  <2>7. End(s, rest) = End(c, o)
    BY <1>1, <2>2, <2>3 DEF End, Free
  <2>8. rest \notin DOMAIN c
    BY <1>1, <2>3 DEF Tiled
  <2>9. \A p \in DOMAIN c \ {o} : End(s, p) = End(c, p) /\ s[p] = c[p]
    BY <2>2, <2>8 DEF End
  <2>10. \A p \in DOMAIN s : End(s, p) \in DOMAIN s \cup {PAGE_SIZE}
    BY <2>5, <2>6, <2>7, <2>9 DEF Tiled
  <2>11. \A p \in DOMAIN c : p \in Nat /\ End(c, p) \in Nat /\ p < End(c, p)
    BY ChunkNumbers DEF End
  <2>12. \A p, q \in DOMAIN s : q <= p \/ End(s, p) <= q
    <3>. SUFFICES ASSUME NEW p \in DOMAIN c \cup {rest}, NEW q \in DOMAIN c \cup {rest}
                 PROVE  q <= p \/ End(s, p) <= q
      BY <2>5
    <3>1. CASE p \in DOMAIN c \ {o} /\ q \in DOMAIN c
      BY <2>9, <3>1 DEF Tiled
    <3>2. CASE p \in DOMAIN c \ {o} /\ q = rest
      <4>1. o <= p \/ End(c, p) <= o
        BY <3>2 DEF Tiled
      <4>2. p <= o \/ End(c, o) <= p
        BY <3>2 DEF Tiled
      <4>. QED
        BY <1>1, <2>3, <2>9, <2>11, <3>2, <4>1, <4>2
    <3>3. CASE p = o
      <4>1. q \in DOMAIN c => q <= o \/ End(c, o) <= q
        BY DEF Tiled
      <4>. QED
        BY <1>1, <2>3, <2>6, <2>11, <3>3, <4>1
    <3>4. CASE p = rest
      <4>1. q \in DOMAIN c => q <= o \/ End(c, o) <= q
        BY DEF Tiled
      <4>. QED
        BY <1>1, <2>3, <2>7, <2>11, <3>4, <4>1
    <3>. QED
      BY <3>1, <3>2, <3>3, <3>4
  <2>. QED
    BY <2>5, <2>10, <2>12 DEF Tiled
<1>. QED
  BY <1>4, <1>5

(* Header::split changes no other chunk, and what it adds is free. *)
LEMMA SplitEffect ==
  ASSUME NEW c, Tiled(c), NEW o \in DOMAIN c,
         NEW n \in Nat, n % 8 = 0, n <= c[o].size
  PROVE  /\ DOMAIN c \subseteq DOMAIN Split(c, o, n)
         /\ Split(c, o, n)[o] = Used(n)
         /\ \A p \in DOMAIN c \ {o} : Split(c, o, n)[p] = c[p]
         /\ \A p \in DOMAIN Split(c, o, n) \ DOMAIN c : ~Split(c, o, n)[p].used
<1>. DEFINE rest == o + HEADER_SIZE + n
<1>1. c \in [DOMAIN c -> Header]
  BY ChunkMapType DEF Tiled
<1>2. CASE n = c[o].size
  BY <1>1, <1>2 DEF Split
<1>3. CASE n # c[o].size
  <2>1. rest \notin DOMAIN c
    <3>1. /\ o \in Nat /\ c[o].size \in Nat
      BY ChunkNumbers
    <3>. QED
      BY <1>3, <3>1 DEF Tiled, End
  <2>. QED
    BY <1>3, <2>1 DEF Split, Free
<1>. QED
  BY <1>2, <1>3

(* Header::merge leaves the zone tiled: the chunk reaches to the end of    *)
(* the one behind it.                                                      *)
LEMMA MergeTiled ==
  ASSUME NEW c, Tiled(c), NEW o \in DOMAIN c, End(c, o) \in DOMAIN c
  PROVE  LET m == Merge(c, o, c[o].size)
         IN  /\ Tiled(m)
             /\ DOMAIN m = DOMAIN c \ {End(c, o)} /\ o \in DOMAIN m
             /\ m[o] = Free(c[o].size + HEADER_SIZE + c[End(c, o)].size)
             /\ End(m, o) = End(c, End(c, o))
             /\ \A p \in DOMAIN m \ {o} : m[p] = c[p]
<1>. DEFINE m == Merge(c, o, c[o].size)
            e == End(c, o)
            size_ == c[o].size + HEADER_SIZE + c[e].size
<1>1. m = [p \in DOMAIN c \ {e} |-> IF p = o THEN Free(size_) ELSE c[p]]
  BY DEF Merge, End
<1>2. /\ o \in Nat /\ 8 <= o /\ c[o].size \in Nat
      /\ e \in Nat /\ o < e /\ c[e].size \in Nat
      /\ End(c, e) \in Nat /\ End(c, e) <= PAGE_SIZE
      /\ End(c, e) = o + 8 + size_
  BY ChunkNumbers DEF End
<1>3. c \in [DOMAIN c -> Header] /\ DOMAIN c \subseteq Offsets \ {0}
  BY ChunkMapType DEF Tiled
<1>4. Free(size_) \in Header /\ Free(size_).size = size_
  BY <1>2, KallocAssumption DEF Free, Header, MAX_CHUNK_SIZE
<1>. HIDE DEF m, e, size_
<1>5. m \in ChunkMaps /\ DOMAIN m = DOMAIN c \ {e} /\ o \in DOMAIN m
  BY <1>1, <1>2, <1>3, <1>4, ChunkMapType
<1>6. m[o] = Free(size_) /\ \A p \in DOMAIN m \ {o} : m[p] = c[p]
  BY <1>1, <1>5
<1>7. End(m, o) = End(c, e)
  BY <1>2, <1>4, <1>6 DEF End
<1>8. \A p \in DOMAIN m \ {o} : End(m, p) = End(c, p)
  BY <1>6 DEF End
<1>9. \A p \in DOMAIN c : p \in Nat /\ End(c, p) \in Nat /\ p < End(c, p)
  BY ChunkNumbers DEF End
<1>10. 8 \in DOMAIN m
  BY <1>2, <1>5 DEF Tiled
<1>11. \A p \in DOMAIN m : End(m, p) \in DOMAIN m \cup {PAGE_SIZE}
  <2>. SUFFICES ASSUME NEW p \in DOMAIN m PROVE End(m, p) \in DOMAIN m \cup {PAGE_SIZE}
    OBVIOUS
  <2>1. CASE p = o
    BY <1>2, <1>5, <1>7, <1>9, <2>1 DEF Tiled, e
  <2>2. CASE p # o
    <3>1. End(m, p) = End(c, p) /\ p \in DOMAIN c
      BY <1>5, <1>8, <2>2
    <3>2. End(c, p) # e
      <4>1. /\ o <= p \/ End(c, p) <= o
            /\ p <= o \/ e <= p
        BY <3>1 DEF Tiled, e
      <4>. QED
        BY <1>2, <1>9, <2>2, <3>1, <4>1
    <3>. QED
      BY <1>5, <3>1, <3>2 DEF Tiled
  <2>. QED
    BY <2>1, <2>2
<1>12. \A p, q \in DOMAIN m : q <= p \/ End(m, p) <= q
  <2>. SUFFICES ASSUME NEW p \in DOMAIN m, NEW q \in DOMAIN m
               PROVE  q <= p \/ End(m, p) <= q
    OBVIOUS
  <2>1. CASE p = o
    <3>1. /\ q <= o \/ e <= q
          /\ q <= e \/ End(c, e) <= q
      BY <1>5 DEF Tiled, e
    <3>. QED
      BY <1>2, <1>5, <1>7, <1>9, <2>1, <3>1
  <2>2. CASE p # o
    BY <1>5, <1>8, <2>2 DEF Tiled
  <2>. QED
    BY <2>1, <2>2
<1>13. Tiled(m)
  BY <1>5, <1>10, <1>11, <1>12 DEF Tiled
<1>. QED
  BY <1>5, <1>6, <1>7, <1>13 DEF m, e, size_

(* Changing only the used flag of a chunk leaves the zone tiled. *)
LEMMA MarkTiled ==
  ASSUME NEW c, Tiled(c), NEW o \in DOMAIN c
  PROVE  LET f == [c EXCEPT ![o] = Free(c[o].size)]
         IN  /\ Tiled(f) /\ DOMAIN f = DOMAIN c
             /\ f[o] = Free(c[o].size) /\ f[o].size = c[o].size /\ ~f[o].used
             /\ \A p \in DOMAIN c \ {o} : f[p] = c[p]
             /\ \A p \in DOMAIN c : End(f, p) = End(c, p)
<1>. DEFINE f == [c EXCEPT ![o] = Free(c[o].size)]
<1>1. c[o].size \in Nat /\ c[o].size <= MAX_CHUNK_SIZE
  BY ChunkNumbers
<1>2. Free(c[o].size) \in Header /\ Free(c[o].size).size = c[o].size /\ ~Free(c[o].size).used
  BY <1>1, KallocAssumption DEF Free, Header, MAX_CHUNK_SIZE
<1>3. c \in [DOMAIN c -> Header] /\ DOMAIN c \subseteq Offsets \ {0}
  BY ChunkMapType DEF Tiled
<1>4. /\ f \in ChunkMaps /\ DOMAIN f = DOMAIN c /\ f[o] = Free(c[o].size)
      /\ \A p \in DOMAIN c \ {o} : f[p] = c[p]
  BY <1>2, <1>3, ChunkMapType
<1>5. \A p \in DOMAIN c : End(f, p) = End(c, p)
  BY <1>2, <1>4 DEF End
<1>. QED
  BY <1>2, <1>4, <1>5 DEF Tiled

(* free of a chunk in a zone that stays: the zone is still tiled, the      *)
(* chunk is free and no used chunk but this one is changed.                *)
LEMMA FreeMergeEffect ==
  ASSUME NEW c, Tiled(c), NEW o \in DOMAIN c
  PROVE  LET f == FreeMerge(c, o)
         IN  /\ Tiled(f) /\ o \in DOMAIN f /\ ~f[o].used
             /\ DOMAIN f \subseteq DOMAIN c
             /\ \A p \in DOMAIN c \ {o} : c[p].used => p \in DOMAIN f
             /\ \A p \in DOMAIN f \ {o} : f[p] = c[p]
<1>. DEFINE f == [c EXCEPT ![o] = Free(c[o].size)]
            e == End(c, o)
<1>1. FreeMerge(c, o) = IF e < PAGE_SIZE /\ ~c[e].used THEN Merge(f, o, c[o].size) ELSE f
  BY DEF FreeMerge, FreeMerges, End
<1>2. /\ Tiled(f) /\ DOMAIN f = DOMAIN c
      /\ f[o] = Free(c[o].size) /\ f[o].size = c[o].size /\ ~f[o].used
      /\ \A p \in DOMAIN c \ {o} : f[p] = c[p]
      /\ \A p \in DOMAIN c : End(f, p) = End(c, p)
  BY MarkTiled
<1>3. /\ e \in DOMAIN c \cup {PAGE_SIZE} /\ e \in Nat /\ o # e
  BY ChunkNumbers DEF Tiled, End
<1>. HIDE DEF f, e
<1>4. CASE e < PAGE_SIZE /\ ~c[e].used
  <2>1. e \in DOMAIN f /\ End(f, o) = e
    BY <1>2, <1>3, <1>4, KallocAssumption DEF e
  <2>. DEFINE m == Merge(f, o, f[o].size)
  <2>2. /\ Tiled(m) /\ DOMAIN m = DOMAIN f \ {e} /\ o \in DOMAIN m
        /\ m[o] = Free(f[o].size + HEADER_SIZE + f[e].size)
        /\ \A p \in DOMAIN m \ {o} : m[p] = f[p]
    BY <1>2, <2>1, MergeTiled
  <2>3. ~m[o].used
    BY <2>2 DEF Free
  <2>4. FreeMerge(c, o) = m
    BY <1>1, <1>2, <1>4
  <2>. HIDE DEF m
  <2>. QED
    BY <1>2, <1>3, <1>4, <2>2, <2>3, <2>4
<1>5. CASE ~(e < PAGE_SIZE /\ ~c[e].used)
  BY <1>1, <1>2, <1>5
<1>. QED
  BY <1>4, <1>5

(* alloc rounds a request up to a multiple of 8 that still fits a zone. *)
LEMMA RoundFits ==
  ASSUME NEW n \in Nat, n <= MAX_CHUNK_SIZE
  PROVE  Round(n) \in Nat /\ Round(n) % 8 = 0 /\ n <= Round(n) /\ Round(n) <= MAX_CHUNK_SIZE
<1>1. MAX_CHUNK_SIZE \in Nat /\ MAX_CHUNK_SIZE % 8 = 0
  BY KallocAssumption DEF MAX_CHUNK_SIZE
<1>. QED
  BY <1>1 DEF Round

-----------------------------------------------------------------------------
(* The inductive invariant. *)

ZoneRecords == [next : Pages \cup {Null}, refs : Nat, chunk : ChunkMaps]

(* The zones and their chunks, at every step. *)
ZonesInv ==
  /\ zones \in [DOMAIN zones -> ZoneRecords]
  /\ DOMAIN zones \subseteq Pages /\ Head \in DOMAIN zones
  /\ \A z \in DOMAIN zones : Tiled(zones[z].chunk)

PoolInv == avail \subseteq Pages /\ others \subseteq Pages /\ junk \subseteq avail

(* Whose pages are whose; there is at most one zone behind the first,      *)
(* because grow_pool is only reached while the first has no next.          *)
PagesInv ==
  /\ avail \cap others = {} /\ DOMAIN zones \cap (avail \cup others) = {}
  /\ avail \cup others \cup DOMAIN zones = Pages
  /\ zones[Head].next \in (DOMAIN zones \ {Head}) \cup {Null}
  /\ \A z \in DOMAIN zones \ {Head} : zones[Head].next = z /\ zones[z].next = Null

LiveIn(z) == {l \in DOMAIN live : l[1] = z}

(* The allocations in use and the chunks that hold them. *)
LiveInv ==
  /\ IsFiniteSet(DOMAIN live) /\ DOMAIN live \subseteq Pages \X Offsets
  /\ \A l \in DOMAIN live :
       /\ l[1] \in DOMAIN zones /\ l[2] \in DOMAIN zones[l[1]].chunk
       /\ live[l] \in Nat \ {0} /\ live[l] <= zones[l[1]].chunk[l[2]].size
  /\ \A z \in DOMAIN zones :
       /\ \A o \in DOMAIN zones[z].chunk :
            zones[z].chunk[o].used <=> <<z, o>> \in DOMAIN live
       /\ zones[z].refs = Cardinality(LiveIn(z))

(* No chunk below limit fits the request, and none is free in front of a   *)
(* free one.                                                               *)
Scanned(limit) ==
  LET c == zones[Head].chunk
  IN  \A o \in DOMAIN c :
        o < limit /\ ~c[o].used =>
          c[o].size < size /\ (End(c, o) < PAGE_SIZE => c[End(c, o)].used)

(* The locals of alloc and scan. *)
ScanInv ==
  /\ pc \in {"idle", "scan", "grow", "panicked", "overrun"}
  /\ result \in {"none", "ok", "void", "oom"}
  /\ zone = Head /\ curr \in Offsets \cup {PAGE_SIZE} /\ head \in Header
  /\ pc \in {"scan", "grow", "overrun"} =>
       /\ result = "none"
       /\ size \in Nat /\ size % 8 = 0 /\ size <= MAX_CHUNK_SIZE
       /\ req \in Nat \ {0} /\ req <= size
  /\ pc = "scan" =>
       /\ curr # PAGE_SIZE => curr \in DOMAIN zones[Head].chunk
                              /\ head = zones[Head].chunk[curr]
       /\ Scanned(curr)
  /\ pc = "grow" => zones[Head].next = Null /\ Scanned(PAGE_SIZE)
  /\ result = "oom" => pc = "idle" /\ Scanned(PAGE_SIZE)

KallocInv ==
  /\ ZonesInv /\ PoolInv /\ ScanInv /\ PanicOnlyFromJunk
  /\ DOMAIN live \subseteq Pages \X Offsets
  /\ \A z \in DOMAIN zones : zones[z].refs <= MAX_REFS
  /\ pc # "panicked" => PagesInv /\ LiveInv

-----------------------------------------------------------------------------
(* The first zone is the lowest page. *)
LEMMA HeadIsLowest ==
  /\ Pages \subseteq Nat \ {0} /\ Head \in Pages
  /\ \A p \in Pages : Head <= p
<1>1. Pages \in SUBSET Nat /\ Pages # {} /\ Pages \subseteq Nat \ {0}
  BY KallocAssumption
<1>. QED
  BY <1>1, LowestIsLowest DEF Head

(* The page that palloc hands out is free. *)
LEMMA LowestAvail ==
  ASSUME PoolInv, avail # {}
  PROVE  Lowest(avail) \in avail
<1>1. avail \in SUBSET Nat
  BY HeadIsLowest DEF PoolInv
<1>. QED
  BY <1>1, LowestIsLowest

(* A used chunk holds at least 8 bytes behind its header, so that a zone   *)
(* has fewer of them than the reference count can count.                   *)
LEMMA RefsBound ==
  ASSUME ZonesInv, LiveInv, NEW z \in DOMAIN zones
  PROVE  /\ IsFiniteSet(LiveIn(z)) /\ Cardinality(LiveIn(z)) \in Nat
         /\ zones[z].refs < MAX_REFS
<1>. DEFINE S == LiveIn(z)
            c == zones[z].chunk
            last == PAGE_SIZE \div 16 - 1
            f == [l \in S |-> l[2] \div 16]
<1>1. IsFiniteSet(S) /\ Cardinality(S) \in Nat
  BY FS_Subset, FS_CardinalityType DEF LiveInv, LiveIn
<1>2. Tiled(c)
  BY DEF ZonesInv
<1>3. \A l \in S : /\ l = <<z, l[2]>> /\ l[2] \in DOMAIN c /\ 8 <= c[l[2]].size
                   /\ l[2] \in Nat /\ End(c, l[2]) \in Nat /\ End(c, l[2]) <= PAGE_SIZE
                   /\ l[2] + 16 <= End(c, l[2])
  <2>. SUFFICES ASSUME NEW l \in S
               PROVE  /\ l = <<z, l[2]>> /\ l[2] \in DOMAIN c /\ 8 <= c[l[2]].size
                      /\ l[2] \in Nat /\ End(c, l[2]) \in Nat /\ End(c, l[2]) <= PAGE_SIZE
                      /\ l[2] + 16 <= End(c, l[2])
    OBVIOUS
  <2>1. l \in Pages \X Offsets /\ l[1] = z /\ l[2] \in DOMAIN c
        /\ live[l] \in Nat \ {0} /\ live[l] <= c[l[2]].size
    BY DEF LiveInv, LiveIn
  <2>2. /\ l[2] \in Nat /\ c[l[2]].size \in Nat /\ c[l[2]].size % 8 = 0
        /\ End(c, l[2]) \in Nat /\ End(c, l[2]) <= PAGE_SIZE
    BY <1>2, <2>1, ChunkNumbers
  <2>3. 8 <= c[l[2]].size
    BY <2>1, <2>2
  <2>. QED
    BY <2>1, <2>2, <2>3 DEF End
<1>4. last \in Int /\ PAGE_SIZE \in Nat /\ 24 <= PAGE_SIZE
  BY KallocAssumption
<1>5. \A l \in S : l[2] \div 16 \in 0..last
  BY <1>3, <1>4
<1>6. \A l, m \in S : l[2] \div 16 = m[2] \div 16 => l = m
  <2>. SUFFICES ASSUME NEW l \in S, NEW m \in S, l[2] \div 16 = m[2] \div 16
               PROVE  l[2] = m[2]
    BY <1>3
  <2>1. /\ m[2] <= l[2] \/ End(c, l[2]) <= m[2]
        /\ l[2] <= m[2] \/ End(c, m[2]) <= l[2]
    BY <1>2, <1>3 DEF Tiled
  <2>. QED
    BY <1>3, <2>1
<1>. HIDE DEF S
<1>7. f \in Injection(S, 0..last)
  BY <1>5, <1>6 DEF Injection, IsInjective
<1>8. IsFiniteSet(0..last) /\ Cardinality(0..last) = IF 0 > last THEN 0 ELSE last - 0 + 1
  BY <1>4, FS_Interval
<1>9. Cardinality(S) <= Cardinality(0..last)
  BY <1>7, <1>8, FS_Injection
<1>10. Cardinality(S) <= PAGE_SIZE \div 16
  BY <1>1, <1>4, <1>8, <1>9
<1>11. zones[z].refs = Cardinality(S)
  BY DEF LiveInv, S
<1>12. PAGE_SIZE \div 16 < MAX_REFS /\ MAX_REFS = 510
  BY KallocAssumption DEF MAX_REFS
<1>. QED
  BY <1>1, <1>4, <1>10, <1>11, <1>12 DEF S

(* One zone is changed. *)
LEMMA ZoneUpdate ==
  ASSUME ZonesInv, NEW z \in DOMAIN zones, NEW r \in ZoneRecords, Tiled(r.chunk),
         zones' = [zones EXCEPT ![z] = r]
  PROVE  /\ ZonesInv' /\ DOMAIN zones' = DOMAIN zones
         /\ zones'[z] = r /\ \A y \in DOMAIN zones \ {z} : zones'[y] = zones[y]
BY DEF ZonesInv

(* Nothing but the locals of scan changes. *)
LEMMA Quiet ==
  ASSUME KallocInv, pc # "panicked", UNCHANGED <<zones, avail, junk, others, live>>
  PROVE  /\ ZonesInv' /\ PoolInv' /\ PagesInv' /\ LiveInv'
         /\ (DOMAIN live \subseteq Pages \X Offsets)'
         /\ (\A z \in DOMAIN zones : zones[z].refs <= MAX_REFS)'
<1>1. \A z : LiveIn(z)' = LiveIn(z)
  BY DEF LiveIn
<1>. QED
  BY <1>1 DEF KallocInv, ZonesInv, PoolInv, PagesInv, LiveInv

-----------------------------------------------------------------------------
(* Kalloc::new makes the first zone. *)
LEMMA KallocInit == Init => KallocInv
<1>. SUFFICES ASSUME Init PROVE KallocInv
  OBVIOUS
<1>. USE DEF Init
<1>1. Pages \subseteq Nat \ {0} /\ Head \in Pages
  BY HeadIsLowest
<1>2. Tiled(NewZone.chunk) /\ NewZone.chunk = [o \in {8} |-> Free(MAX_CHUNK_SIZE)]
      /\ NewZone.next = 0 /\ NewZone.refs = 0
  BY NewZoneTiled DEF NewZone
<1>3. NewZone \in ZoneRecords
  <2>1. NewZone.chunk \in ChunkMaps
    BY <1>2 DEF Tiled
  <2>. QED
    BY <2>1 DEF NewZone, ZoneRecords
<1>4. ZonesInv
  BY <1>1, <1>2, <1>3 DEF ZonesInv
<1>5. DOMAIN live = {} /\ LiveIn(Head) = {} /\ Cardinality({}) = 0 /\ IsFiniteSet({})
  BY FS_EmptySet DEF LiveIn
<1>6. zones[Head] = NewZone /\ DOMAIN zones = {Head}
  BY DEF Init
<1>7. LiveInv
  <2>1. \A o \in DOMAIN zones[Head].chunk : ~zones[Head].chunk[o].used
    BY <1>2, <1>6 DEF Free
  <2>. HIDE DEF Init
  <2>. QED
    BY <1>2, <1>5, <1>6, <2>1 DEF LiveInv
<1>8. PagesInv
  BY <1>1, <1>2, <1>6 DEF PagesInv
<1>9. ScanInv
  BY KallocAssumption DEF ScanInv, Offsets, Header, Free, MAX_CHUNK_SIZE
<1>10. \A z \in DOMAIN zones : zones[z].refs <= MAX_REFS
  BY <1>2, <1>6 DEF MAX_REFS
<1>. QED
  BY <1>4, <1>5, <1>7, <1>8, <1>9, <1>10 DEF KallocInv, PoolInv, PanicOnlyFromJunk

(* A stuttering step. *)
LEMMA KallocStutter ==
  ASSUME KallocInv, UNCHANGED vars
  PROVE  KallocInv'
<1>1. \A z : LiveIn(z)' = LiveIn(z)
  BY DEF LiveIn, vars
<1>2. Scanned(curr)' = Scanned(curr) /\ Scanned(PAGE_SIZE)' = Scanned(PAGE_SIZE)
  BY DEF Scanned, vars
<1>. QED
  BY <1>1, <1>2 DEF KallocInv, ZonesInv, PoolInv, PagesInv, LiveInv, ScanInv,
                    PanicOnlyFromJunk, vars, poolVars, callVars, scanVars

(* A request of no bytes is refused. *)
LEMMA AllocVoidInv ==
  ASSUME KallocInv, AllocVoid
  PROVE  KallocInv'
<1>1. pc = "idle" /\ pc' = "idle" /\ result' = "void"
      /\ UNCHANGED <<zones, avail, junk, others, live, req, size, zone, curr, head>>
  BY DEF AllocVoid, poolVars, callVars, scanVars
<1>2. /\ ZonesInv' /\ PoolInv' /\ PagesInv' /\ LiveInv'
      /\ (DOMAIN live \subseteq Pages \X Offsets)'
      /\ (\A z \in DOMAIN zones : zones[z].refs <= MAX_REFS)'
  BY <1>1, Quiet
<1>3. ScanInv'
  BY <1>1 DEF KallocInv, ScanInv
<1>. QED
  BY <1>1, <1>2, <1>3 DEF KallocInv, PanicOnlyFromJunk

(* alloc starts scan at the first chunk of the first zone. *)
LEMMA AllocInv ==
  ASSUME KallocInv, NEW n \in 1..MAX_CHUNK_SIZE, alloc(n)
  PROVE  KallocInv'
<1>1. pc = "idle" /\ pc' = "scan" /\ result' = "none" /\ zone' = Head /\ curr' = 8
      /\ req' = n /\ size' = Round(n) /\ head' = zones[Head].chunk[8]
      /\ UNCHANGED <<zones, avail, junk, others, live>>
  BY DEF alloc, poolVars
<1>2. /\ ZonesInv' /\ PoolInv' /\ PagesInv' /\ LiveInv'
      /\ (DOMAIN live \subseteq Pages \X Offsets)'
      /\ (\A z \in DOMAIN zones : zones[z].refs <= MAX_REFS)'
  BY <1>1, Quiet
<1>3. MAX_CHUNK_SIZE \in Nat
  BY KallocAssumption DEF MAX_CHUNK_SIZE
<1>4. size' \in Nat /\ size' % 8 = 0 /\ req' <= size' /\ size' <= MAX_CHUNK_SIZE
  BY <1>1, <1>3, RoundFits
<1>5. Tiled(zones[Head].chunk)
  BY DEF KallocInv, ZonesInv
<1>6. 8 \in DOMAIN zones[Head].chunk
  BY <1>5 DEF Tiled
<1>7. head' \in Header /\ 8 \in Offsets
  BY <1>1, <1>5, <1>6, ChunkMapType DEF Tiled
<1>8. Scanned(curr)'
  <2>1. \A o \in DOMAIN zones[Head].chunk : 8 <= o /\ o \in Nat
    BY <1>5, ChunkNumbers
  <2>. QED
    BY <1>1, <2>1 DEF Scanned
<1>9. ScanInv'
  BY <1>1, <1>3, <1>4, <1>6, <1>7, <1>8 DEF ScanInv
<1>. QED
  BY <1>1, <1>2, <1>9 DEF KallocInv, PanicOnlyFromJunk

(* The rest of the kernel takes a page. *)
LEMMA OtherPallocInv ==
  ASSUME KallocInv, OtherPalloc
  PROVE  KallocInv'
<1>. DEFINE p == Lowest(avail)
<1>1. pc = "idle" /\ avail # {} /\ result' = "none"
      /\ UNCHANGED <<zones, junk, live, req, size, zone, curr, head>>
  BY DEF OtherPalloc, callVars, scanVars
<1>2. ZonesInv /\ PoolInv /\ PagesInv /\ LiveInv /\ ScanInv
  BY <1>1 DEF KallocInv
<1>3. p \in avail
  BY <1>1, <1>2, LowestAvail
<1>. HIDE DEF p
<1>4. CASE PallocFaults
  <2>1. pc' = "panicked" /\ UNCHANGED <<avail, others>> /\ junk # {}
    BY <1>4 DEF OtherPalloc, PallocFaults
  <2>2. ZonesInv' /\ PoolInv' /\ ScanInv'
    BY <1>1, <1>2, <2>1 DEF ZonesInv, PoolInv, ScanInv
  <2>. QED
    BY <1>1, <2>1, <2>2 DEF KallocInv, PanicOnlyFromJunk
<1>5. CASE ~PallocFaults
  <2>1. pc' = pc /\ avail' = avail \ {p} /\ others' = others \cup {p} /\ p \notin junk
    BY <1>1, <1>5 DEF OtherPalloc, PallocFaults, p
  <2>2. ZonesInv' /\ PoolInv' /\ ScanInv' /\ PagesInv'
    BY <1>1, <1>2, <1>3, <2>1 DEF ZonesInv, PoolInv, ScanInv, PagesInv
  <2>3. LiveInv'
    BY <1>1, <1>2 DEF LiveInv, LiveIn
  <2>. QED
    BY <1>1, <2>1, <2>2, <2>3 DEF KallocInv, PanicOnlyFromJunk
<1>. QED
  BY <1>4, <1>5

(* The rest of the kernel gives a page back. *)
LEMMA OtherPfreeInv ==
  ASSUME KallocInv, NEW p \in others, OtherPfree(p)
  PROVE  KallocInv'
<1>1. pc = "idle" /\ result' = "none" /\ others' = others \ {p}
      /\ UNCHANGED <<zones, junk, live, req, size, zone, curr, head>>
  BY DEF OtherPfree, callVars, scanVars
<1>2. ZonesInv /\ PoolInv /\ PagesInv /\ LiveInv /\ ScanInv
  BY <1>1 DEF KallocInv
<1>4. CASE PfreeFaults(p)
  <2>1. pc' = "panicked" /\ avail' = avail /\ junk # {}
    BY <1>4 DEF OtherPfree, PfreeFaults
  <2>2. ZonesInv' /\ PoolInv' /\ ScanInv'
    BY <1>1, <1>2, <2>1 DEF ZonesInv, PoolInv, ScanInv
  <2>. QED
    BY <1>1, <2>1, <2>2 DEF KallocInv, PanicOnlyFromJunk
<1>5. CASE ~PfreeFaults(p)
  <2>1. pc' = pc /\ avail' = avail \cup {p}
    BY <1>1, <1>5 DEF OtherPfree
  <2>2. ZonesInv' /\ PoolInv' /\ ScanInv' /\ PagesInv'
    BY <1>1, <1>2, <2>1 DEF ZonesInv, PoolInv, ScanInv, PagesInv
  <2>3. LiveInv'
    BY <1>1, <1>2 DEF LiveInv, LiveIn
  <2>. QED
    BY <1>1, <2>1, <2>2, <2>3 DEF KallocInv, PanicOnlyFromJunk
<1>. QED
  BY <1>4, <1>5

(* What LiveUntouched says of one step: the header of an allocation that   *)
(* stays in use is not changed.                                            *)
LiveKept == \A l \in DOMAIN live \cap DOMAIN live' :
              zones'[l[1]].chunk[l[2]] = zones[l[1]].chunk[l[2]]

(* What scan knows of the chunk it looks at. *)
LEMMA ScanAt ==
  ASSUME KallocInv, pc = "scan", curr < PAGE_SIZE
  PROVE  /\ ZonesInv /\ PagesInv /\ LiveInv /\ ScanInv /\ PoolInv
         /\ zone = Head /\ Head \in DOMAIN zones /\ zones[Head] \in ZoneRecords
         /\ Tiled(zones[Head].chunk)
         /\ curr \in DOMAIN zones[Head].chunk /\ head = zones[Head].chunk[curr]
         /\ Behind = End(zones[Head].chunk, curr)
         /\ curr \in Nat /\ head.size \in Nat /\ head.size % 8 = 0 /\ head.used \in BOOLEAN
         /\ size \in Nat /\ size % 8 = 0 /\ req \in Nat \ {0} /\ req <= size
         /\ curr + 8 <= Behind /\ Behind \in Nat /\ Behind <= PAGE_SIZE
<1>1. ZonesInv /\ PagesInv /\ LiveInv /\ ScanInv /\ PoolInv
  BY DEF KallocInv
<1>2. PAGE_SIZE \in Nat /\ curr # PAGE_SIZE
  BY KallocAssumption
<1>3. zone = Head /\ curr \in DOMAIN zones[Head].chunk /\ head = zones[Head].chunk[curr]
      /\ size \in Nat /\ size % 8 = 0 /\ req \in Nat \ {0} /\ req <= size
  BY <1>1, <1>2 DEF ScanInv
<1>4. Tiled(zones[Head].chunk) /\ Head \in DOMAIN zones /\ zones[Head] \in ZoneRecords
  BY <1>1 DEF ZonesInv
<1>5. Behind = End(zones[Head].chunk, curr)
  BY <1>3 DEF Behind, End
<1>6. curr \in Nat /\ head.size \in Nat /\ head.size % 8 = 0 /\ head.used \in BOOLEAN
      /\ Behind \in Nat /\ Behind <= PAGE_SIZE
  BY <1>3, <1>4, <1>5, ChunkNumbers
<1>7. curr + 8 <= Behind
  BY <1>6 DEF Behind
<1>. QED
  BY <1>1, <1>3, <1>4, <1>5, <1>6, <1>7

(* Behind the last chunk scan is done. *)
LEMMA ScanLastInv ==
  ASSUME KallocInv, NEW look, ScanLast(look)
  PROVE  KallocInv'
<1>1. pc = "scan" /\ curr < PAGE_SIZE /\ ~Fits /\ Behind = PAGE_SIZE
      /\ pc' \in {"scan", "overrun"} /\ curr' = PAGE_SIZE
      /\ UNCHANGED <<zones, avail, junk, others, live, req, size, zone, head, result>>
  BY DEF ScanLast, poolVars, callVars
<1>2. /\ ZonesInv' /\ PoolInv' /\ PagesInv' /\ LiveInv'
      /\ (DOMAIN live \subseteq Pages \X Offsets)'
      /\ (\A z \in DOMAIN zones : zones[z].refs <= MAX_REFS)'
  BY <1>1, Quiet
<1>. DEFINE c == zones[Head].chunk
<1>3. /\ ScanInv /\ Tiled(c) /\ curr \in DOMAIN c /\ head = c[curr]
      /\ End(c, curr) = PAGE_SIZE
      /\ curr \in Nat /\ head.size \in Nat /\ size \in Nat
  BY <1>1, ScanAt
<1>4. Scanned(PAGE_SIZE)
  <2>. SUFFICES ASSUME NEW o \in DOMAIN c, ~c[o].used
               PROVE  c[o].size < size /\ (End(c, o) < PAGE_SIZE => c[End(c, o)].used)
    BY DEF Scanned
  <2>1. o \in Nat /\ (curr <= o \/ o < curr)
    BY <1>3, ChunkNumbers
  <2>2. CASE o < curr
    BY <1>1, <1>3, <2>2 DEF Scanned, ScanInv
  <2>3. CASE o = curr
    BY <1>1, <1>3, <2>3, KallocAssumption DEF Fits
  <2>4. CASE curr < o
    <3>1. o <= curr \/ End(c, curr) <= o
      BY <1>3 DEF Tiled
    <3>2. o \in Nat /\ o < PAGE_SIZE
      BY <1>3, ChunkNumbers
    <3>. QED
      BY <1>3, <2>4, <3>1, <3>2, KallocAssumption
  <2>. QED
    BY <1>3, <2>1, <2>2, <2>3, <2>4, ChunkNumbers
<1>5. Scanned(curr)'
  BY <1>1, <1>4 DEF Scanned
<1>6. ScanInv'
  BY <1>1, <1>3, <1>5 DEF ScanInv
<1>. QED
  BY <1>1, <1>2, <1>6 DEF KallocInv, PanicOnlyFromJunk

(* The next zone is never scanned: its page lies behind the first one. *)
LEMMA ScanNoneInv ==
  ASSUME KallocInv, ScanNone
  PROVE  KallocInv'
<1>. DEFINE nz == zones[zone].next
<1>1. /\ pc = "scan" /\ curr >= PAGE_SIZE
      /\ UNCHANGED <<zones, avail, junk, others, live, req, size>>
      /\ pc' = CASE nz = 0 -> "grow" [] nz # 0 /\ nz <= Head -> "scan" [] OTHER -> "idle"
      /\ result' = IF pc' = "idle" THEN "oom" ELSE "none"
      /\ zone' = IF pc' = "scan" THEN nz ELSE zone
      /\ curr' = IF pc' = "scan" THEN 8 ELSE curr
      /\ head' = IF pc' = "scan" THEN zones[nz].chunk[8] ELSE head
  BY DEF ScanNone, poolVars, callVars
<1>2. /\ ZonesInv' /\ PoolInv' /\ PagesInv' /\ LiveInv'
      /\ (DOMAIN live \subseteq Pages \X Offsets)'
      /\ (\A z \in DOMAIN zones : zones[z].refs <= MAX_REFS)'
  BY <1>1, Quiet
<1>3. ScanInv /\ PagesInv /\ ZonesInv
  BY <1>1 DEF KallocInv
<1>4. curr = PAGE_SIZE /\ Scanned(PAGE_SIZE) /\ zone = Head
  BY <1>1, <1>3, KallocAssumption DEF ScanInv, Offsets
<1>5. nz = 0 \/ (nz \in Nat /\ nz # 0 /\ Head \in Nat /\ Head < nz)
  BY <1>3, <1>4, HeadIsLowest DEF PagesInv, ZonesInv
<1>6. (nz = 0 /\ pc' = "grow") \/ (nz # 0 /\ pc' = "idle")
  BY <1>1, <1>5
<1>7. zone' = zone /\ curr' = curr /\ head' = head
  BY <1>1, <1>6
<1>8. Scanned(PAGE_SIZE)'
  BY <1>1, <1>4 DEF Scanned
<1>9. result' = IF pc' = "idle" THEN "oom" ELSE "none"
  BY <1>1
<1>10. UNCHANGED <<zones, req, size>> /\ pc = "scan"
  BY <1>1
<1>. HIDE DEF nz
<1>11. ScanInv'
  BY <1>3, <1>4, <1>6, <1>7, <1>8, <1>9, <1>10 DEF ScanInv, nz
<1>. QED
  BY <1>2, <1>6, <1>11 DEF KallocInv, PanicOnlyFromJunk

(* grow_pool without a page. *)
LEMMA GrowFailsInv ==
  ASSUME KallocInv, GrowFails
  PROVE  KallocInv'
<1>1. /\ pc = "grow" /\ (avail = {} \/ PallocFaults)
      /\ UNCHANGED <<zones, avail, junk, others, live, req, size, zone, curr, head>>
      /\ pc' = IF avail = {} THEN "idle" ELSE "panicked"
      /\ result' = IF avail = {} THEN "oom" ELSE "none"
  BY DEF GrowFails, poolVars, callVars, scanVars
<1>2. /\ ZonesInv' /\ PoolInv' /\ PagesInv' /\ LiveInv'
      /\ (DOMAIN live \subseteq Pages \X Offsets)'
      /\ (\A z \in DOMAIN zones : zones[z].refs <= MAX_REFS)'
  BY <1>1, Quiet
<1>3. ScanInv /\ Scanned(PAGE_SIZE)
  BY <1>1 DEF KallocInv, ScanInv
<1>4. Scanned(PAGE_SIZE)'
  BY <1>1, <1>3 DEF Scanned
<1>5. ScanInv'
  BY <1>1, <1>3, <1>4 DEF ScanInv
<1>6. PanicOnlyFromJunk'
  BY <1>1 DEF PanicOnlyFromJunk, PallocFaults
<1>. QED
  BY <1>2, <1>5, <1>6 DEF KallocInv

(* One more allocation in use. *)
LEMMA LiveAdd ==
  ASSUME IsFiniteSet(DOMAIN live), DOMAIN live \subseteq Pages \X Offsets,
         NEW z \in Pages, NEW o \in Offsets, <<z, o>> \notin DOMAIN live,
         live' = [l \in DOMAIN live \cup {<<z, o>>} |-> IF l = <<z, o>> THEN req ELSE live[l]]
  PROVE  /\ IsFiniteSet(DOMAIN live') /\ DOMAIN live' \subseteq Pages \X Offsets
         /\ DOMAIN live' = DOMAIN live \cup {<<z, o>>} /\ live'[<<z, o>>] = req
         /\ \A l \in DOMAIN live : live'[l] = live[l]
         /\ Cardinality({l \in DOMAIN live' : l[1] = z}) = Cardinality(LiveIn(z)) + 1
         /\ \A y : y # z => {l \in DOMAIN live' : l[1] = y} = LiveIn(y)
<1>. DEFINE n == <<z, o>>
<1>1. n[1] = z
  OBVIOUS
<1>2. n \in Pages \X Offsets
  OBVIOUS
<1>. HIDE DEF n
<1>3. DOMAIN live' = DOMAIN live \cup {n} /\ live'[n] = req
      /\ \A l \in DOMAIN live : live'[l] = live[l]
  BY DEF n
<1>4. n \notin DOMAIN live
  BY DEF n
<1>5. {l \in DOMAIN live' : l[1] = z} = LiveIn(z) \cup {n} /\ n \notin LiveIn(z)
  BY <1>1, <1>3, <1>4 DEF LiveIn
<1>6. \A y : y # z => {l \in DOMAIN live' : l[1] = y} = LiveIn(y)
  BY <1>1, <1>3 DEF LiveIn
<1>7. IsFiniteSet(LiveIn(z)) /\ IsFiniteSet(DOMAIN live')
  BY <1>3, FS_Subset, FS_AddElement DEF LiveIn
<1>8. Cardinality(LiveIn(z) \cup {n}) = Cardinality(LiveIn(z)) + 1
  BY <1>5, <1>7, FS_AddElement
<1>. QED
  BY <1>2, <1>3, <1>5, <1>6, <1>7, <1>8 DEF n

(* alloc_chunk on a record. *)
LEMMA AllocChunkEffect ==
  ASSUME NEW r \in ZoneRecords, Tiled(r.chunk), NEW o \in DOMAIN r.chunk,
         NEW n \in Nat, n % 8 = 0, n <= r.chunk[o].size
  PROVE  /\ AllocChunk(r, o, n) \in ZoneRecords
         /\ AllocChunk(r, o, n).next = r.next
         /\ AllocChunk(r, o, n).refs = r.refs + 1
         /\ AllocChunk(r, o, n).chunk = Split(r.chunk, o, n)
<1>1. Split(r.chunk, o, n) \in ChunkMaps
  BY SplitTiled DEF Tiled
<1>2. r.refs + 1 \in Nat
  BY DEF ZoneRecords
<1>. QED
  BY <1>1, <1>2 DEF AllocChunk, ZoneRecords

(* A chunk that fits is taken; the zone's references do not run out. *)
LEMMA ScanTakeInv ==
  ASSUME KallocInv, ScanTake
  PROVE  KallocInv' /\ LiveKept
<1>. DEFINE c == zones[Head].chunk
            s == Split(c, curr, size)
            r == AllocChunk(zones[Head], curr, size)
<1>1. pc = "scan" /\ curr < PAGE_SIZE /\ Fits
  BY DEF ScanTake
<1>2. /\ ZonesInv /\ PagesInv /\ LiveInv /\ ScanInv /\ PoolInv
      /\ zone = Head /\ Head \in DOMAIN zones /\ zones[Head] \in ZoneRecords
      /\ Tiled(c) /\ curr \in DOMAIN c /\ head = c[curr]
      /\ curr \in Nat /\ head.size \in Nat
      /\ size \in Nat /\ size % 8 = 0 /\ req \in Nat \ {0} /\ req <= size
  BY <1>1, ScanAt
<1>3. size <= c[curr].size /\ ~c[curr].used
  BY <1>1, <1>2 DEF Fits
<1>4. zones[Head].refs \in Nat /\ zones[Head].refs < MAX_REFS /\ MAX_REFS = 510
  BY <1>2, RefsBound DEF ZoneRecords, MAX_REFS
<1>5. /\ zones' = [zones EXCEPT ![Head] = r]
      /\ live' = [l \in DOMAIN live \cup {<<Head, curr>>} |->
                    IF l = <<Head, curr>> THEN req ELSE live[l]]
      /\ pc' = "idle" /\ result' = "ok"
      /\ UNCHANGED <<avail, junk, others, req, size, zone, curr, head>>
  BY <1>2, <1>4 DEF ScanTake, poolVars, callVars, scanVars
<1>6. r \in ZoneRecords /\ r.next = zones[Head].next /\ r.refs = zones[Head].refs + 1
      /\ r.chunk = s
  BY <1>2, <1>3, AllocChunkEffect
<1>7. /\ Tiled(s) /\ DOMAIN c \subseteq DOMAIN s
      /\ s[curr] = Used(size)
      /\ \A p \in DOMAIN c \ {curr} : s[p] = c[p]
      /\ \A p \in DOMAIN s \ DOMAIN c : ~s[p].used
  BY <1>2, <1>3, SplitTiled, SplitEffect
<1>. HIDE DEF c, s, r
<1>8. /\ ZonesInv' /\ DOMAIN zones' = DOMAIN zones
      /\ zones'[Head] = r /\ \A y \in DOMAIN zones \ {Head} : zones'[y] = zones[y]
  BY <1>2, <1>5, <1>6, <1>7, ZoneUpdate
<1>9. <<Head, curr>> \notin DOMAIN live /\ Head \in Pages /\ curr \in Offsets
  BY <1>1, <1>2, <1>3, HeadIsLowest, KallocAssumption DEF LiveInv, c, ScanInv
<1>10. /\ IsFiniteSet(DOMAIN live') /\ DOMAIN live' \subseteq Pages \X Offsets
       /\ DOMAIN live' = DOMAIN live \cup {<<Head, curr>>} /\ live'[<<Head, curr>>] = req
       /\ \A l \in DOMAIN live : live'[l] = live[l]
       /\ Cardinality({l \in DOMAIN live' : l[1] = Head}) = Cardinality(LiveIn(Head)) + 1
       /\ \A y : y # Head => {l \in DOMAIN live' : l[1] = y} = LiveIn(y)
  BY <1>2, <1>5, <1>9, LiveAdd DEF LiveInv
<1>11. PagesInv'
  BY <1>2, <1>5, <1>6, <1>8 DEF PagesInv
<1>12. \A l \in DOMAIN live' :
         /\ l[1] \in DOMAIN zones' /\ l[2] \in DOMAIN zones'[l[1]].chunk
         /\ live'[l] \in Nat \ {0} /\ live'[l] <= zones'[l[1]].chunk[l[2]].size
  <2>. SUFFICES ASSUME NEW l \in DOMAIN live'
               PROVE  /\ l[1] \in DOMAIN zones' /\ l[2] \in DOMAIN zones'[l[1]].chunk
                      /\ live'[l] \in Nat \ {0} /\ live'[l] <= zones'[l[1]].chunk[l[2]].size
    OBVIOUS
  <2>1. CASE l = <<Head, curr>>
    <3>1. l[1] = Head /\ l[2] = curr /\ Used(size).size = size
      BY <2>1 DEF Used
    <3>. QED
      BY <1>2, <1>6, <1>7, <1>8, <1>10, <2>1, <3>1
  <2>2. CASE l # <<Head, curr>>
    <3>1. /\ l \in DOMAIN live /\ live'[l] = live[l] /\ l[1] \in DOMAIN zones
          /\ l[2] \in DOMAIN zones[l[1]].chunk
          /\ live[l] \in Nat \ {0} /\ live[l] <= zones[l[1]].chunk[l[2]].size
      BY <1>2, <1>10, <2>2 DEF LiveInv
    <3>2. l[1] # Head \/ l[2] # curr
      BY <1>10, <2>2
    <3>. QED
      BY <1>2, <1>6, <1>7, <1>8, <3>1, <3>2 DEF c
  <2>. QED
    BY <2>1, <2>2
<1>13. \A z \in DOMAIN zones' :
         \A o \in DOMAIN zones'[z].chunk :
            zones'[z].chunk[o].used <=> <<z, o>> \in DOMAIN live'
  <2>. SUFFICES ASSUME NEW z \in DOMAIN zones, NEW o \in DOMAIN zones'[z].chunk
               PROVE  zones'[z].chunk[o].used <=> <<z, o>> \in DOMAIN live'
    BY <1>8
  <2>1. CASE z # Head
    BY <1>2, <1>8, <1>10, <2>1 DEF LiveInv
  <2>2. CASE z = Head /\ o = curr
    BY <1>6, <1>7, <1>8, <1>10, <2>2 DEF Used
  <2>3. CASE z = Head /\ o # curr /\ o \in DOMAIN c
    BY <1>2, <1>6, <1>7, <1>8, <1>10, <2>3 DEF LiveInv, c
  <2>4. CASE z = Head /\ o # curr /\ o \notin DOMAIN c
    <3>1. <<z, o>> \notin DOMAIN live'
      BY <1>2, <1>10, <2>4 DEF LiveInv, c
    <3>. QED
      BY <1>6, <1>7, <1>8, <2>4, <3>1
  <2>. QED
    BY <2>1, <2>2, <2>3, <2>4
<1>14. \A z \in DOMAIN zones' : zones'[z].refs = Cardinality({l \in DOMAIN live' : l[1] = z})
  BY <1>2, <1>6, <1>8, <1>10 DEF LiveInv
<1>15. LiveInv'
  BY <1>10, <1>12, <1>13, <1>14 DEF LiveInv, LiveIn
<1>16. \A z \in DOMAIN zones' : zones'[z].refs <= MAX_REFS
  BY <1>4, <1>6, <1>8 DEF KallocInv
<1>17. ScanInv' /\ PoolInv' /\ PanicOnlyFromJunk'
  BY <1>2, <1>5 DEF ScanInv, PoolInv, PanicOnlyFromJunk
<1>18. LiveKept
  <2>. SUFFICES ASSUME NEW l \in DOMAIN live \cap DOMAIN live'
               PROVE  zones'[l[1]].chunk[l[2]] = zones[l[1]].chunk[l[2]]
    BY DEF LiveKept
  <2>1. l \in DOMAIN live /\ l[1] \in DOMAIN zones /\ l[2] \in DOMAIN zones[l[1]].chunk
        /\ l = <<l[1], l[2]>>
    BY <1>2 DEF LiveInv
  <2>2. l[1] # Head \/ l[2] # curr
    BY <1>9, <2>1
  <2>. QED
    BY <1>6, <1>7, <1>8, <2>1, <2>2 DEF c
<1>. QED
  BY <1>8, <1>10, <1>11, <1>15, <1>16, <1>17, <1>18 DEF KallocInv

(* A free chunk that does not fit is merged with a free one behind it. *)
LEMMA ScanMergeInv ==
  ASSUME KallocInv, ScanOn, Mergeable(zones[zone].chunk[Behind])
  PROVE  KallocInv' /\ LiveKept
<1>. DEFINE c == zones[Head].chunk
            m == Merge(c, curr, c[curr].size)
            r == [zones[Head] EXCEPT !.chunk = m]
<1>1. pc = "scan" /\ curr < PAGE_SIZE /\ ~Fits
  BY DEF ScanOn
<1>2. /\ ZonesInv /\ PagesInv /\ LiveInv /\ ScanInv /\ PoolInv
      /\ zone = Head /\ Head \in DOMAIN zones /\ zones[Head] \in ZoneRecords
      /\ Tiled(c) /\ curr \in DOMAIN c /\ head = c[curr]
      /\ Behind = End(c, curr) /\ curr \in Nat /\ curr + 8 <= Behind /\ Behind \in Nat
  BY <1>1, ScanAt
<1>3. Behind \in DOMAIN c /\ ~c[curr].used /\ ~c[Behind].used
  BY <1>2 DEF ScanOn, Mergeable
<1>4. /\ zones' = [zones EXCEPT ![Head].chunk = m]
      /\ head' = m[curr] /\ curr' = curr
      /\ UNCHANGED <<avail, junk, others, live, pc, req, size, zone, result>>
  BY <1>2 DEF ScanOn, poolVars, callVars
<1>5. /\ Tiled(m) /\ DOMAIN m = DOMAIN c \ {Behind} /\ curr \in DOMAIN m
      /\ m[curr] = Free(c[curr].size + HEADER_SIZE + c[Behind].size)
      /\ \A p \in DOMAIN m \ {curr} : m[p] = c[p]
  BY <1>2, <1>3, MergeTiled
<1>6. ~m[curr].used
  BY <1>5 DEF Free
<1>7. m \in ChunkMaps
  BY <1>5 DEF Tiled
<1>. HIDE DEF m
<1>8. /\ r \in ZoneRecords /\ r.next = zones[Head].next /\ r.refs = zones[Head].refs
      /\ r.chunk = m
  BY <1>2, <1>7 DEF ZoneRecords
<1>9. zones' = [zones EXCEPT ![Head] = r]
  BY <1>4
<1>. HIDE DEF c, r
<1>10. /\ ZonesInv' /\ DOMAIN zones' = DOMAIN zones
       /\ zones'[Head] = r /\ \A y \in DOMAIN zones \ {Head} : zones'[y] = zones[y]
  BY <1>2, <1>5, <1>8, <1>9, ZoneUpdate
<1>11. <<Head, curr>> \notin DOMAIN live /\ <<Head, Behind>> \notin DOMAIN live
  BY <1>2, <1>3 DEF LiveInv, c
<1>12. PagesInv'
  BY <1>2, <1>4, <1>8, <1>10 DEF PagesInv
<1>13. \A l \in DOMAIN live' :
         /\ l[1] \in DOMAIN zones' /\ l[2] \in DOMAIN zones'[l[1]].chunk
         /\ live'[l] \in Nat \ {0} /\ live'[l] <= zones'[l[1]].chunk[l[2]].size
  <2>. SUFFICES ASSUME NEW l \in DOMAIN live
               PROVE  /\ l[1] \in DOMAIN zones' /\ l[2] \in DOMAIN zones'[l[1]].chunk
                      /\ live[l] \in Nat \ {0} /\ live[l] <= zones'[l[1]].chunk[l[2]].size
    BY <1>4
  <2>1. /\ l[1] \in DOMAIN zones /\ l[2] \in DOMAIN zones[l[1]].chunk
        /\ live[l] \in Nat \ {0} /\ live[l] <= zones[l[1]].chunk[l[2]].size
        /\ l = <<l[1], l[2]>>
    BY <1>2 DEF LiveInv
  <2>2. l[1] = Head => l[2] # curr /\ l[2] # Behind
    BY <1>11, <2>1
  <2>. QED
    BY <1>5, <1>8, <1>10, <2>1, <2>2 DEF c
<1>14. \A z \in DOMAIN zones' :
         \A o \in DOMAIN zones'[z].chunk :
            zones'[z].chunk[o].used <=> <<z, o>> \in DOMAIN live'
  <2>. SUFFICES ASSUME NEW z \in DOMAIN zones, NEW o \in DOMAIN zones'[z].chunk
               PROVE  zones'[z].chunk[o].used <=> <<z, o>> \in DOMAIN live
    BY <1>4, <1>10
  <2>1. CASE z # Head
    BY <1>2, <1>10, <2>1 DEF LiveInv
  <2>2. CASE z = Head /\ o = curr
    BY <1>6, <1>8, <1>10, <1>11, <2>2
  <2>3. CASE z = Head /\ o # curr
    BY <1>2, <1>5, <1>8, <1>10, <2>3 DEF LiveInv, c
  <2>. QED
    BY <2>1, <2>2, <2>3
<1>15. \A z \in DOMAIN zones' : zones'[z].refs = zones[z].refs
  BY <1>2, <1>8, <1>10
<1>16. LiveInv'
  <2>1. \A z : LiveIn(z)' = LiveIn(z)
    BY <1>4 DEF LiveIn
  <2>. QED
    BY <1>2, <1>4, <1>10, <1>13, <1>14, <1>15, <2>1 DEF LiveInv
<1>17. Scanned(curr)'
  <2>. SUFFICES ASSUME NEW o \in DOMAIN m, o < curr, ~m[o].used
               PROVE  m[o].size < size /\ (End(m, o) < PAGE_SIZE => m[End(m, o)].used)
    BY <1>4, <1>8, <1>10 DEF Scanned
  <2>1. o \in DOMAIN c /\ o \in Nat /\ End(c, o) \in Nat /\ m[o] = c[o] /\ End(m, o) = End(c, o)
    BY <1>2, <1>5, ChunkNumbers DEF End
  <2>2. c[o].size < size /\ (End(c, o) < PAGE_SIZE => c[End(c, o)].used)
    BY <1>1, <1>2, <2>1 DEF ScanInv, Scanned, c
  <2>3. curr <= o \/ End(c, o) <= curr
    BY <1>2, <2>1 DEF Tiled
  <2>4. End(c, o) < PAGE_SIZE => End(c, o) # curr /\ End(c, o) # Behind /\ End(c, o) \in DOMAIN c
    BY <1>2, <1>3, <2>1, <2>2, <2>3, KallocAssumption DEF Tiled
  <2>. QED
    BY <1>5, <2>1, <2>2, <2>4
<1>18. m[curr] \in Header
  BY <1>5, ChunkMapType DEF Tiled
<1>19. ScanInv'
  BY <1>1, <1>2, <1>4, <1>5, <1>8, <1>10, <1>17, <1>18 DEF ScanInv
<1>20. (\A z \in DOMAIN zones : zones[z].refs <= MAX_REFS)' /\ DOMAIN live' \subseteq Pages \X Offsets
  BY <1>4, <1>10, <1>15 DEF KallocInv
<1>21. LiveKept
  <2>. SUFFICES ASSUME NEW l \in DOMAIN live \cap DOMAIN live'
               PROVE  zones'[l[1]].chunk[l[2]] = zones[l[1]].chunk[l[2]]
    BY DEF LiveKept
  <2>1. l \in DOMAIN live /\ l[1] \in DOMAIN zones /\ l[2] \in DOMAIN zones[l[1]].chunk
        /\ l = <<l[1], l[2]>>
    BY <1>2 DEF LiveInv
  <2>2. l[1] = Head => l[2] # curr /\ l[2] # Behind
    BY <1>11, <2>1
  <2>. QED
    BY <1>5, <1>8, <1>10, <2>1, <2>2 DEF c
<1>. QED
  BY <1>1, <1>2, <1>4, <1>10, <1>12, <1>16, <1>19, <1>20, <1>21 DEF KallocInv, PoolInv, PanicOnlyFromJunk

(* Any other chunk that does not fit is left behind. *)
LEMMA ScanMoveInv ==
  ASSUME KallocInv, ScanOn, ~Mergeable(zones[zone].chunk[Behind])
  PROVE  KallocInv'
<1>. DEFINE c == zones[Head].chunk
<1>1. pc = "scan" /\ curr < PAGE_SIZE /\ ~Fits
  BY DEF ScanOn
<1>2. /\ ScanInv /\ zone = Head /\ Tiled(c) /\ curr \in DOMAIN c /\ head = c[curr]
      /\ Behind = End(c, curr) /\ curr \in Nat /\ curr + 8 <= Behind /\ Behind \in Nat
      /\ head.size \in Nat /\ size \in Nat
  BY <1>1, ScanAt
<1>3. Behind \in DOMAIN c /\ (c[curr].used \/ c[Behind].used)
  BY <1>2 DEF ScanOn, Mergeable
<1>4. /\ zones' = zones /\ head' = c[Behind] /\ curr' = Behind
      /\ UNCHANGED <<avail, junk, others, live, pc, req, size, zone, result>>
  BY <1>2 DEF ScanOn, MoveOn, poolVars, callVars
<1>5. /\ ZonesInv' /\ PoolInv' /\ PagesInv' /\ LiveInv'
      /\ (DOMAIN live \subseteq Pages \X Offsets)'
      /\ (\A z \in DOMAIN zones : zones[z].refs <= MAX_REFS)'
  BY <1>1, <1>4, Quiet
<1>6. \A o \in DOMAIN c : o < Behind /\ ~c[o].used =>
        c[o].size < size /\ (End(c, o) < PAGE_SIZE => c[End(c, o)].used)
  <2>. SUFFICES ASSUME NEW o \in DOMAIN c, o < Behind, ~c[o].used
               PROVE  c[o].size < size /\ (End(c, o) < PAGE_SIZE => c[End(c, o)].used)
    OBVIOUS
  <2>1. o \in Nat
    BY <1>2, ChunkNumbers
  <2>2. CASE o < curr
    BY <1>1, <1>2, <2>2 DEF Scanned, ScanInv
  <2>3. CASE o = curr
    BY <1>1, <1>2, <1>3, <2>3 DEF Fits
  <2>4. o <= curr \/ Behind <= o
    BY <1>2 DEF Tiled
  <2>. QED
    BY <1>2, <2>1, <2>2, <2>3, <2>4
<1>7. Scanned(curr)'
  BY <1>4, <1>6 DEF Scanned
<1>8. c[Behind] \in Header /\ Behind \in Offsets
  BY <1>2, <1>3, ChunkMapType DEF Tiled
<1>9. ScanInv'
  BY <1>1, <1>2, <1>3, <1>4, <1>7, <1>8 DEF ScanInv
<1>. QED
  BY <1>1, <1>4, <1>5, <1>9 DEF KallocInv, PanicOnlyFromJunk

(* A fresh zone as a record. *)
LEMMA NewZoneRecord ==
  /\ NewZone \in ZoneRecords /\ NewZone.next = 0 /\ NewZone.refs = 0
  /\ Tiled(NewZone.chunk) /\ DOMAIN NewZone.chunk = {8}
  /\ NewZone.chunk[8].size = MAX_CHUNK_SIZE /\ ~NewZone.chunk[8].used
<1>1. NewZone.chunk \in ChunkMaps
  BY NewZoneTiled DEF Tiled
<1>. QED
  BY <1>1, NewZoneTiled DEF NewZone, ZoneRecords, Free

(* grow_pool: the second zone, with its first chunk in use. *)
LEMMA GrowInv ==
  ASSUME KallocInv, Grow
  PROVE  KallocInv' /\ LiveKept
<1>. DEFINE page == Lowest(avail)
            a == AllocChunk(NewZone, 8, size)
            s == Split(NewZone.chunk, 8, size)
            h == [zones[Head] EXCEPT !.next = page]
<1>1. /\ pc = "grow" /\ avail # {} /\ page \notin junk
      /\ avail' = avail \ {page}
      /\ zones' = [z \in DOMAIN zones \cup {page} |->
                     IF z = page THEN a ELSE [zones EXCEPT ![Head].next = page][z]]
      /\ live' = [l \in DOMAIN live \cup {<<page, 8>>} |->
                    IF l = <<page, 8>> THEN req ELSE live[l]]
      /\ pc' = "idle" /\ result' = "ok"
      /\ UNCHANGED <<junk, others, req, size, zone, curr, head>>
  BY DEF Grow, PallocFaults, callVars, scanVars
<1>2. ZonesInv /\ PoolInv /\ PagesInv /\ LiveInv /\ ScanInv
  BY <1>1 DEF KallocInv
<1>3. page \in avail
  BY <1>1, <1>2, LowestAvail
<1>4. size \in Nat /\ size % 8 = 0 /\ size <= MAX_CHUNK_SIZE /\ req \in Nat \ {0} /\ req <= size
      /\ zones[Head].next = 0
  BY <1>1, <1>2 DEF ScanInv
<1>5. /\ a \in ZoneRecords /\ a.next = 0 /\ a.refs = 1 /\ a.chunk = s
  BY <1>4, NewZoneRecord, AllocChunkEffect
<1>6. /\ Tiled(s) /\ 8 \in DOMAIN s /\ s[8] = Used(size)
      /\ \A p \in DOMAIN s \ {8} : ~s[p].used
  BY <1>4, NewZoneRecord, SplitTiled, SplitEffect
<1>. HIDE DEF page, a, s
<1>7. page \in Pages /\ page \in Nat \ {0} /\ page \notin DOMAIN zones /\ page \notin others
      /\ page # Head
  BY <1>2, <1>3, HeadIsLowest DEF PoolInv, PagesInv, ZonesInv
<1>8. DOMAIN zones = {Head}
  BY <1>2, <1>4, HeadIsLowest DEF PagesInv, ZonesInv
<1>9. zones[Head] \in ZoneRecords
  BY <1>2 DEF ZonesInv
<1>10. h \in ZoneRecords /\ h.next = page /\ h.refs = zones[Head].refs
       /\ h.chunk = zones[Head].chunk
  BY <1>7, <1>9 DEF ZoneRecords
<1>11. DOMAIN zones' = {Head, page} /\ zones'[page] = a /\ zones'[Head] = h
  BY <1>1, <1>7, <1>8
<1>. HIDE DEF h
<1>12. zones' \in [DOMAIN zones' -> ZoneRecords]
  <2>1. zones' = [z \in {Head, page} |-> zones'[z]]
    BY <1>1, <1>8
  <2>. QED
    BY <1>5, <1>10, <1>11, <2>1
<1>13. ZonesInv'
  BY <1>2, <1>5, <1>6, <1>7, <1>8, <1>10, <1>11, <1>12, HeadIsLowest DEF ZonesInv
<1>14. PagesInv'
  BY <1>1, <1>2, <1>3, <1>5, <1>7, <1>8, <1>10, <1>11 DEF PagesInv
<1>15. <<page, 8>> \notin DOMAIN live /\ LiveIn(page) = {}
  BY <1>2, <1>7 DEF LiveInv, LiveIn
<1>16. 8 \in Offsets
  BY KallocAssumption DEF Offsets
<1>17. /\ IsFiniteSet(DOMAIN live') /\ DOMAIN live' \subseteq Pages \X Offsets
       /\ DOMAIN live' = DOMAIN live \cup {<<page, 8>>} /\ live'[<<page, 8>>] = req
       /\ \A l \in DOMAIN live : live'[l] = live[l]
       /\ Cardinality({l \in DOMAIN live' : l[1] = page}) = Cardinality(LiveIn(page)) + 1
       /\ \A y : y # page => {l \in DOMAIN live' : l[1] = y} = LiveIn(y)
  BY <1>1, <1>2, <1>7, <1>15, <1>16, LiveAdd DEF LiveInv
<1>18. \A l \in DOMAIN live' :
         /\ l[1] \in DOMAIN zones' /\ l[2] \in DOMAIN zones'[l[1]].chunk
         /\ live'[l] \in Nat \ {0} /\ live'[l] <= zones'[l[1]].chunk[l[2]].size
  <2>. SUFFICES ASSUME NEW l \in DOMAIN live'
               PROVE  /\ l[1] \in DOMAIN zones' /\ l[2] \in DOMAIN zones'[l[1]].chunk
                      /\ live'[l] \in Nat \ {0} /\ live'[l] <= zones'[l[1]].chunk[l[2]].size
    OBVIOUS
  <2>1. CASE l = <<page, 8>>
    <3>1. l[1] = page /\ l[2] = 8 /\ Used(size).size = size
      BY <2>1 DEF Used
    <3>. QED
      BY <1>4, <1>5, <1>6, <1>11, <1>17, <2>1, <3>1
  <2>2. CASE l # <<page, 8>>
    BY <1>2, <1>8, <1>10, <1>11, <1>17, <2>2 DEF LiveInv
  <2>. QED
    BY <2>1, <2>2
<1>19. \A z \in DOMAIN zones' :
         \A o \in DOMAIN zones'[z].chunk :
            zones'[z].chunk[o].used <=> <<z, o>> \in DOMAIN live'
  <2>1. \A o \in DOMAIN zones'[Head].chunk :
            zones'[Head].chunk[o].used <=> <<Head, o>> \in DOMAIN live'
    BY <1>2, <1>7, <1>8, <1>10, <1>11, <1>17 DEF LiveInv
  <2>2. \A o \in DOMAIN s : s[o].used <=> <<page, o>> \in DOMAIN live'
    <3>. SUFFICES ASSUME NEW o \in DOMAIN s PROVE s[o].used <=> <<page, o>> \in DOMAIN live'
      OBVIOUS
    <3>1. CASE o = 8
      BY <1>6, <1>17, <3>1 DEF Used
    <3>2. CASE o # 8
      <4>1. <<page, o>> \notin DOMAIN live
        BY <1>2, <1>7 DEF LiveInv
      <4>. QED
        BY <1>6, <1>17, <3>2, <4>1
    <3>. QED
      BY <3>1, <3>2
  <2>. QED
    BY <1>5, <1>11, <2>1, <2>2
<1>20. \A z \in DOMAIN zones' : zones'[z].refs = Cardinality({l \in DOMAIN live' : l[1] = z})
  <2>1. Cardinality({l \in DOMAIN live' : l[1] = page}) = 1
    BY <1>15, <1>17, FS_EmptySet
  <2>2. {l \in DOMAIN live' : l[1] = Head} = LiveIn(Head)
    BY <1>7, <1>17
  <2>3. zones[Head].refs = Cardinality(LiveIn(Head))
    BY <1>2, <1>8 DEF LiveInv
  <2>4. zones'[Head].refs = Cardinality({l \in DOMAIN live' : l[1] = Head})
    BY <1>10, <1>11, <2>2, <2>3
  <2>5. zones'[page].refs = Cardinality({l \in DOMAIN live' : l[1] = page})
    BY <1>5, <1>11, <2>1
  <2>. QED
    BY <1>11, <2>4, <2>5
<1>21. LiveInv'
  BY <1>17, <1>18, <1>19, <1>20 DEF LiveInv, LiveIn
<1>22. \A z \in DOMAIN zones' : zones'[z].refs <= MAX_REFS
  BY <1>5, <1>8, <1>10, <1>11 DEF KallocInv, MAX_REFS
<1>23. ScanInv' /\ PoolInv' /\ PanicOnlyFromJunk'
  BY <1>1, <1>2 DEF ScanInv, PoolInv, PanicOnlyFromJunk
<1>24. LiveKept
  <2>. SUFFICES ASSUME NEW l \in DOMAIN live \cap DOMAIN live'
               PROVE  zones'[l[1]].chunk[l[2]] = zones[l[1]].chunk[l[2]]
    BY DEF LiveKept
  <2>1. l[1] = Head
    BY <1>2, <1>8 DEF LiveInv
  <2>. QED
    BY <1>10, <1>11, <2>1
<1>. QED
  BY <1>13, <1>14, <1>17, <1>21, <1>22, <1>23, <1>24 DEF KallocInv

(* One allocation in use fewer. *)
LEMMA LiveRemove ==
  ASSUME IsFiniteSet(DOMAIN live), DOMAIN live \subseteq Pages \X Offsets,
         NEW z, NEW o, <<z, o>> \in DOMAIN live,
         live' = [l \in DOMAIN live \ {<<z, o>>} |-> live[l]]
  PROVE  /\ IsFiniteSet(DOMAIN live') /\ DOMAIN live' \subseteq Pages \X Offsets
         /\ DOMAIN live' = DOMAIN live \ {<<z, o>>}
         /\ \A l \in DOMAIN live' : live'[l] = live[l]
         /\ LiveIn(z)' = LiveIn(z) \ {<<z, o>>}
         /\ Cardinality(LiveIn(z)) \in Nat \ {0}
         /\ Cardinality(LiveIn(z)') = Cardinality(LiveIn(z)) - 1
         /\ \A y : y # z => LiveIn(y)' = LiveIn(y)
<1>. DEFINE n == <<z, o>>
<1>1. n[1] = z
  OBVIOUS
<1>2. DOMAIN live' = DOMAIN live \ {n} /\ \A l \in DOMAIN live' : live'[l] = live[l]
  OBVIOUS
<1>3. n \in DOMAIN live
  OBVIOUS
<1>. HIDE DEF n
<1>4. LiveIn(z)' = LiveIn(z) \ {n} /\ n \in LiveIn(z) /\ \A y : y # z => LiveIn(y)' = LiveIn(y)
  BY <1>1, <1>2, <1>3 DEF LiveIn
<1>5. IsFiniteSet(LiveIn(z)) /\ IsFiniteSet(DOMAIN live')
  BY <1>2, FS_Subset DEF LiveIn
<1>6. Cardinality(LiveIn(z) \ {n}) = Cardinality(LiveIn(z)) - 1
  BY <1>4, <1>5, FS_RemoveElement
<1>7. Cardinality(LiveIn(z)) \in Nat /\ Cardinality(LiveIn(z)) # 0
  BY <1>4, <1>5, FS_CardinalityType, FS_EmptySet
<1>. QED
  BY <1>2, <1>4, <1>5, <1>6, <1>7 DEF n

(* What free finds: the chunk in use and the references counted. *)
LEMMA FreeFinds ==
  ASSUME KallocInv, NEW z, NEW o, free(z, o)
  PROVE  /\ ZonesInv /\ PoolInv /\ PagesInv /\ LiveInv /\ ScanInv
         /\ z \in DOMAIN zones /\ zones[z] \in ZoneRecords
         /\ Tiled(zones[z].chunk) /\ o \in DOMAIN zones[z].chunk
         /\ zones[z].chunk[o].used
         /\ zones[z].refs \in Nat \ {0} /\ zones[z].refs = Cardinality(LiveIn(z))
         /\ pc = "idle" /\ <<z, o>> \in DOMAIN live
         /\ IF DecrementRefs(z) = 0 /\ z # Head THEN ReleaseZone(z, o) ELSE FreeInZone(z, o)
         /\ live' = [l \in DOMAIN live \ {<<z, o>>} |-> live[l]] /\ result' = "none"
         /\ UNCHANGED <<others, req, size, zone, curr, head>>
<1>1. /\ pc = "idle" /\ <<z, o>> \in DOMAIN live
      /\ live' = [l \in DOMAIN live \ {<<z, o>>} |-> live[l]] /\ result' = "none"
      /\ UNCHANGED <<others, req, size, zone, curr, head>>
  BY DEF free, callVars, scanVars
<1>2. ZonesInv /\ PoolInv /\ PagesInv /\ LiveInv /\ ScanInv
  BY <1>1 DEF KallocInv
<1>3. z \in DOMAIN zones /\ o \in DOMAIN zones[z].chunk
  <2>1. <<z, o>>[1] = z /\ <<z, o>>[2] = o
    OBVIOUS
  <2>. QED
    BY <1>1, <1>2, <2>1 DEF LiveInv
<1>4. zones[z].chunk[o].used /\ zones[z].refs = Cardinality(LiveIn(z))
  BY <1>1, <1>2, <1>3 DEF LiveInv
<1>5. Cardinality(LiveIn(z)) \in Nat \ {0}
  BY <1>1, <1>2, LiveRemove DEF LiveInv
<1>6. zones[z] \in ZoneRecords /\ Tiled(zones[z].chunk)
  BY <1>2, <1>3 DEF ZonesInv
<1>7. IF DecrementRefs(z) = 0 /\ z # Head THEN ReleaseZone(z, o) ELSE FreeInZone(z, o)
  <2>1. ~(~zones[z].chunk[o].used \/ zones[z].refs = 0)
    BY <1>4, <1>5
  <2>. QED
    BY <2>1, Zenon DEF free
<1>. QED
  BY <1>1, <1>2, <1>3, <1>4, <1>5, <1>6, <1>7

(* Clearing the used flag of a header. *)
LEMMA MarkHeader ==
  ASSUME NEW h \in Header
  PROVE  [h EXCEPT !.used = FALSE] = Free(h.size)
<1>. DEFINE r == [h EXCEPT !.used = FALSE]
<1>1. r \in Header /\ r.size = h.size
  BY DEF Header
<1>2. r.used = FALSE
  BY Zenon DEF Header
<1>. HIDE DEF r
<1>3. r = [size |-> r.size, used |-> r.used]
  BY <1>1 DEF Header
<1>4. r = [size |-> h.size, used |-> FALSE]
  BY <1>1, <1>2, <1>3, Zenon
<1>. QED
  BY <1>4 DEF r, Free

(* free in a zone that stays. *)
LEMMA FreeInZoneInv ==
  ASSUME KallocInv, NEW z, NEW o, free(z, o), ~(DecrementRefs(z) = 0 /\ z # Head)
  PROVE  KallocInv' /\ LiveKept
<1>. DEFINE c == zones[z].chunk
            d == zones[z].refs - 1
            f == IF d = 0 THEN [c EXCEPT ![o].used = FALSE] ELSE FreeMerge(c, o)
            r == [zones[z] EXCEPT !.refs = d, !.chunk = f]
<1>1. /\ ZonesInv /\ PoolInv /\ PagesInv /\ LiveInv /\ ScanInv
      /\ z \in DOMAIN zones /\ zones[z] \in ZoneRecords
      /\ Tiled(c) /\ o \in DOMAIN c /\ c[o].used
      /\ zones[z].refs \in Nat \ {0} /\ zones[z].refs = Cardinality(LiveIn(z))
      /\ pc = "idle" /\ <<z, o>> \in DOMAIN live
      /\ live' = [l \in DOMAIN live \ {<<z, o>>} |-> live[l]] /\ result' = "none"
      /\ UNCHANGED <<others, req, size, zone, curr, head>>
  BY FreeFinds
<1>2. FreeInZone(z, o)
  BY FreeFinds
<1>3. UNCHANGED <<avail, junk, pc>>
  BY <1>2 DEF FreeInZone
<1>4. /\ Tiled(f) /\ o \in DOMAIN f /\ ~f[o].used /\ DOMAIN f \subseteq DOMAIN c
      /\ \A p \in DOMAIN c \ {o} : c[p].used => p \in DOMAIN f
      /\ \A p \in DOMAIN f \ {o} : f[p] = c[p]
  <2>1. CASE d = 0
    <3>. DEFINE g == [c EXCEPT ![o] = Free(c[o].size)]
    <3>1. c[o] \in Header
      BY <1>1, ChunkMapType DEF Tiled
    <3>2. [c[o] EXCEPT !.used = FALSE] = Free(c[o].size)
      BY <3>1, MarkHeader
    <3>3. f = g
      BY <2>1, <3>2
    <3>4. /\ Tiled(g) /\ DOMAIN g = DOMAIN c /\ ~g[o].used
          /\ \A p \in DOMAIN c \ {o} : g[p] = c[p]
      BY <1>1, MarkTiled
    <3>. HIDE DEF f, g
    <3>. QED
      BY <1>1, <3>3, <3>4
  <2>2. CASE d # 0
    <3>. DEFINE g == FreeMerge(c, o)
    <3>1. f = g
      BY <2>2
    <3>2. /\ Tiled(g) /\ o \in DOMAIN g /\ ~g[o].used /\ DOMAIN g \subseteq DOMAIN c
          /\ \A p \in DOMAIN c \ {o} : c[p].used => p \in DOMAIN g
          /\ \A p \in DOMAIN g \ {o} : g[p] = c[p]
      BY <1>1, FreeMergeEffect
    <3>. HIDE DEF f, g
    <3>. QED
      BY <3>1, <3>2
  <2>. QED
    BY <2>1, <2>2
<1>5. zones' = [zones EXCEPT ![z].refs = d, ![z].chunk = f]
  BY <1>2 DEF FreeInZone, DecrementRefs
<1>. HIDE DEF f
<1>6. f \in ChunkMaps /\ d \in Nat
  BY <1>1, <1>4 DEF Tiled
<1>7. r \in ZoneRecords /\ r.next = zones[z].next /\ r.refs = d /\ r.chunk = f
  BY <1>1, <1>6 DEF ZoneRecords
<1>8. zones' = [zones EXCEPT ![z] = r]
  <2>1. zones \in [DOMAIN zones -> ZoneRecords]
    BY <1>1 DEF ZonesInv
  <2>. QED
    BY <1>1, <1>5, <2>1
<1>9. r.refs = zones[z].refs - 1
  BY <1>7
<1>. HIDE DEF c, d, r
<1>10. /\ ZonesInv' /\ DOMAIN zones' = DOMAIN zones
       /\ zones'[z] = r /\ \A y \in DOMAIN zones \ {z} : zones'[y] = zones[y]
  BY <1>1, <1>4, <1>7, <1>8, ZoneUpdate
<1>11. PagesInv'
  <2>1. Head \in DOMAIN zones /\ \A y \in DOMAIN zones : zones'[y].next = zones[y].next
    BY <1>1, <1>7, <1>10 DEF ZonesInv
  <2>. QED
    BY <1>1, <1>3, <1>10, <2>1 DEF PagesInv
<1>12. /\ IsFiniteSet(DOMAIN live') /\ DOMAIN live' \subseteq Pages \X Offsets
       /\ DOMAIN live' = DOMAIN live \ {<<z, o>>}
       /\ \A l \in DOMAIN live' : live'[l] = live[l]
       /\ Cardinality(LiveIn(z)') = Cardinality(LiveIn(z)) - 1
       /\ \A y : y # z => LiveIn(y)' = LiveIn(y)
  BY <1>1, LiveRemove DEF LiveInv
<1>13. \A l \in DOMAIN live' :
         /\ l[1] \in DOMAIN zones' /\ l[2] \in DOMAIN zones'[l[1]].chunk
         /\ live'[l] \in Nat \ {0} /\ live'[l] <= zones'[l[1]].chunk[l[2]].size
  <2>. SUFFICES ASSUME NEW l \in DOMAIN live, l # <<z, o>>
               PROVE  /\ l[1] \in DOMAIN zones' /\ l[2] \in DOMAIN zones'[l[1]].chunk
                      /\ live[l] \in Nat \ {0} /\ live[l] <= zones'[l[1]].chunk[l[2]].size
    BY <1>12
  <2>1. /\ l[1] \in DOMAIN zones /\ l[2] \in DOMAIN zones[l[1]].chunk
        /\ live[l] \in Nat \ {0} /\ live[l] <= zones[l[1]].chunk[l[2]].size
        /\ l = <<l[1], l[2]>>
    BY <1>1 DEF LiveInv
  <2>2. zones[l[1]].chunk[l[2]].used
    BY <1>1, <2>1 DEF LiveInv
  <2>3. l[1] = z => l[2] # o
    BY <2>1
  <2>. QED
    BY <1>4, <1>7, <1>10, <2>1, <2>2, <2>3 DEF c
<1>14. \A y \in DOMAIN zones' :
         \A p \in DOMAIN zones'[y].chunk :
            zones'[y].chunk[p].used <=> <<y, p>> \in DOMAIN live'
  <2>. SUFFICES ASSUME NEW y \in DOMAIN zones, NEW p \in DOMAIN zones'[y].chunk
               PROVE  zones'[y].chunk[p].used <=> <<y, p>> \in DOMAIN live'
    BY <1>10
  <2>1. CASE y # z
    BY <1>1, <1>10, <1>12, <2>1 DEF LiveInv
  <2>2. CASE y = z /\ p = o
    BY <1>4, <1>7, <1>10, <1>12, <2>2
  <2>3. CASE y = z /\ p # o
    BY <1>1, <1>4, <1>7, <1>10, <1>12, <2>3 DEF LiveInv, c
  <2>. QED
    BY <2>1, <2>2, <2>3
<1>15. \A y \in DOMAIN zones' : zones'[y].refs = Cardinality(LiveIn(y)')
  <2>1. \A y \in DOMAIN zones \ {z} : zones'[y].refs = Cardinality(LiveIn(y)')
    BY <1>1, <1>10, <1>12 DEF LiveInv
  <2>2. zones'[z].refs = Cardinality(LiveIn(z)')
    BY <1>1, <1>9, <1>10, <1>12
  <2>. QED
    BY <1>10, <2>1, <2>2
<1>16. LiveInv'
  BY <1>12, <1>13, <1>14, <1>15 DEF LiveInv
<1>17. \A y \in DOMAIN zones' : zones'[y].refs <= MAX_REFS
  <2>1. zones[z].refs \in Nat /\ zones[z].refs <= MAX_REFS /\ MAX_REFS \in Nat
    BY <1>1 DEF KallocInv, MAX_REFS
  <2>2. r.refs <= MAX_REFS
    BY <1>9, <2>1
  <2>. QED
    BY <1>10, <2>2 DEF KallocInv
<1>18. ScanInv' /\ PoolInv' /\ PanicOnlyFromJunk'
  BY <1>1, <1>3 DEF ScanInv, PoolInv, PanicOnlyFromJunk
<1>19. LiveKept
  <2>. SUFFICES ASSUME NEW l \in DOMAIN live \cap DOMAIN live'
               PROVE  zones'[l[1]].chunk[l[2]] = zones[l[1]].chunk[l[2]]
    BY DEF LiveKept
  <2>1. /\ l[1] \in DOMAIN zones /\ l[2] \in DOMAIN zones[l[1]].chunk
        /\ l = <<l[1], l[2]>> /\ l # <<z, o>>
    BY <1>1, <1>12 DEF LiveInv
  <2>2. zones[l[1]].chunk[l[2]].used
    BY <1>1, <2>1 DEF LiveInv
  <2>3. l[1] = z => l[2] # o
    BY <2>1
  <2>. QED
    BY <1>4, <1>7, <1>10, <2>1, <2>2, <2>3 DEF c
<1>. QED
  BY <1>10, <1>11, <1>12, <1>16, <1>17, <1>18, <1>19 DEF KallocInv

(* The last allocation of the second zone: the page goes back to the pool, *)
(* and the chunk's header is written into it.                              *)
LEMMA ReleaseZoneInv ==
  ASSUME KallocInv, NEW z, NEW o, free(z, o), DecrementRefs(z) = 0, z # Head
  PROVE  KallocInv' /\ LiveKept
<1>. DEFINE h == [zones[Head] EXCEPT !.next = 0]
<1>1. /\ ZonesInv /\ PoolInv /\ PagesInv /\ LiveInv /\ ScanInv
      /\ z \in DOMAIN zones /\ zones[z] \in ZoneRecords
      /\ zones[z].refs \in Nat \ {0} /\ zones[z].refs = Cardinality(LiveIn(z))
      /\ pc = "idle" /\ <<z, o>> \in DOMAIN live
      /\ live' = [l \in DOMAIN live \ {<<z, o>>} |-> live[l]] /\ result' = "none"
      /\ UNCHANGED <<others, req, size, zone, curr, head>>
  BY FreeFinds
<1>2. ReleaseZone(z, o)
  BY FreeFinds
<1>3. /\ z \in Pages /\ z # 0 /\ Head \in DOMAIN zones /\ zones[Head] \in ZoneRecords
      /\ Head # 0
  BY <1>1, HeadIsLowest DEF ZonesInv
<1>4. zones[Head].next = z /\ zones[z].next = 0 /\ DOMAIN zones = {Head, z}
  BY <1>1, <1>3 DEF PagesInv
<1>5. /\ IsFiniteSet(DOMAIN live') /\ DOMAIN live' \subseteq Pages \X Offsets
      /\ DOMAIN live' = DOMAIN live \ {<<z, o>>}
      /\ \A l \in DOMAIN live' : live'[l] = live[l]
      /\ Cardinality(LiveIn(z)') = Cardinality(LiveIn(z)) - 1
      /\ \A y : y # z => LiveIn(y)' = LiveIn(y)
  BY <1>1, LiveRemove DEF LiveInv
<1>6. CASE PfreeFaults(z)
  <2>1. pc' = "panicked" /\ UNCHANGED <<zones, avail, junk>> /\ junk # {}
    BY <1>2, <1>6 DEF ReleaseZone, PfreeFaults
  <2>2. ZonesInv' /\ PoolInv' /\ ScanInv'
    BY <1>1, <2>1 DEF ZonesInv, PoolInv, ScanInv
  <2>. QED
    BY <1>5, <2>1, <2>2 DEF KallocInv, PanicOnlyFromJunk, LiveKept
<1>7. CASE ~PfreeFaults(z)
  <2>1. /\ zones' = FreeSelf(z, CHOOSE y \in DOMAIN zones : zones[y].next = z)
        /\ avail' = avail \cup {z} /\ junk' \subseteq junk \cup {z} /\ junk \subseteq junk'
        /\ pc' = pc
    BY <1>2, <1>3, <1>4, <1>7 DEF ReleaseZone
  <2>2. (CHOOSE y \in DOMAIN zones : zones[y].next = z) = Head
    <3>1. \A y \in DOMAIN zones : zones[y].next = z <=> y = Head
      BY <1>3, <1>4
    <3>. QED
      BY <1>3, <3>1
  <2>3. zones' = FreeSelf(z, Head)
    BY <2>1, <2>2
  <2>4. DOMAIN zones' = {Head} /\ zones'[Head] = h /\ zones' = [y \in {Head} |-> h]
    BY <1>3, <1>4, <2>3 DEF FreeSelf
  <2>5. h \in ZoneRecords /\ h.next = 0 /\ h.refs = zones[Head].refs
        /\ h.chunk = zones[Head].chunk
    BY <1>3 DEF ZoneRecords
  <2>. HIDE DEF h
  <2>6. zones' \in [DOMAIN zones' -> ZoneRecords]
    BY <2>4, <2>5
  <2>7. ZonesInv'
    BY <1>1, <2>4, <2>5, <2>6 DEF ZonesInv
  <2>8. PagesInv'
    BY <1>1, <1>3, <1>4, <2>1, <2>4, <2>5 DEF PagesInv
  <2>9. LiveIn(z)' = {}
    <3>1. Cardinality(LiveIn(z)') = 0
      BY <1>1, <1>5 DEF DecrementRefs
    <3>2. IsFiniteSet(LiveIn(z)')
      BY <1>5, FS_Subset DEF LiveIn
    <3>. QED
      BY <3>1, <3>2, FS_EmptySet
  <2>10. \A l \in DOMAIN live' : l[1] = Head /\ l \in DOMAIN live
    BY <1>1, <1>4, <1>5, <2>9 DEF LiveInv, LiveIn
  <2>11. \A l \in DOMAIN live' :
           /\ l[1] \in DOMAIN zones' /\ l[2] \in DOMAIN zones'[l[1]].chunk
           /\ live'[l] \in Nat \ {0} /\ live'[l] <= zones'[l[1]].chunk[l[2]].size
    BY <1>1, <1>5, <2>4, <2>5, <2>10 DEF LiveInv
  <2>12. \A p \in DOMAIN zones'[Head].chunk :
            zones'[Head].chunk[p].used <=> <<Head, p>> \in DOMAIN live'
    BY <1>1, <1>3, <1>5, <2>4, <2>5 DEF LiveInv
  <2>13. zones'[Head].refs = Cardinality(LiveIn(Head)')
    BY <1>1, <1>3, <1>5, <2>4, <2>5 DEF LiveInv
  <2>14. LiveInv'
    BY <1>5, <2>4, <2>11, <2>12, <2>13 DEF LiveInv
  <2>15. \A y \in DOMAIN zones' : zones'[y].refs <= MAX_REFS
    BY <1>3, <2>4, <2>5 DEF KallocInv
  <2>16. ScanInv' /\ PoolInv' /\ PanicOnlyFromJunk'
    BY <1>1, <1>3, <2>1 DEF ScanInv, PoolInv, PanicOnlyFromJunk
  <2>17. LiveKept
    BY <2>4, <2>5, <2>10 DEF LiveKept
  <2>. QED
    BY <1>5, <2>7, <2>8, <2>14, <2>15, <2>16, <2>17 DEF KallocInv
<1>. QED
  BY <1>6, <1>7

(* The header and the fields of every request the specification makes. *)
LEMMA RequestSize ==
  ASSUME NEW n \in Requests, n # 0
  PROVE  n \in 1..MAX_CHUNK_SIZE
<1>1. MAX_CHUNK_SIZE \in Nat
  BY KallocAssumption DEF MAX_CHUNK_SIZE
<1>. QED
  BY <1>1, KallocAssumption

(* Every step keeps the invariant. *)
LEMMA KallocStep ==
  ASSUME KallocInv, [Next]_vars
  PROVE  KallocInv'
<1>1. CASE AllocVoid
  BY <1>1, AllocVoidInv
<1>2. ASSUME NEW n \in Requests, alloc(n) PROVE KallocInv'
  <2>1. n # 0
    BY <1>2 DEF alloc
  <2>. QED
    BY <1>2, <2>1, RequestSize, AllocInv
<1>3. ASSUME NEW l \in DOMAIN live, free(l[1], l[2]) PROVE KallocInv'
  BY <1>3, FreeInZoneInv, ReleaseZoneInv
<1>4. CASE OtherPalloc
  BY <1>4, OtherPallocInv
<1>5. ASSUME NEW p \in others, OtherPfree(p) PROVE KallocInv'
  BY <1>5, OtherPfreeInv
<1>6. CASE ScanTake
  BY <1>6, ScanTakeInv
<1>7. CASE ScanOn
  BY <1>7, ScanMergeInv, ScanMoveInv
<1>8. CASE ScanNone
  BY <1>8, ScanNoneInv
<1>9. CASE Grow
  BY <1>9, GrowInv
<1>10. CASE GrowFails
  BY <1>10, GrowFailsInv
<1>11. ASSUME NEW look \in AdjacentLooks, ScanLast(look) PROVE KallocInv'
  BY <1>11, ScanLastInv
<1>12. CASE UNCHANGED vars
  BY <1>12, KallocStutter
<1>13. CASE Halted
  BY <1>12, <1>13 DEF Halted
<1>. QED
  BY <1>1, <1>2, <1>3, <1>4, <1>5, <1>6, <1>7, <1>8, <1>9, <1>10, <1>11, <1>12, <1>13
     DEF Next, Work

(* No step changes the header of an allocation that stays in use. *)
LEMMA KallocKeeps ==
  ASSUME KallocInv, [Next]_vars
  PROVE  LiveKept
<1>1. CASE zones' = zones
  BY <1>1 DEF LiveKept
<1>2. ASSUME NEW l \in DOMAIN live, free(l[1], l[2]) PROVE LiveKept
  BY <1>2, FreeInZoneInv, ReleaseZoneInv
<1>3. CASE ScanTake
  BY <1>3, ScanTakeInv
<1>4. CASE ScanOn
  <2>1. CASE Mergeable(zones[zone].chunk[Behind])
    BY <1>4, <2>1, ScanMergeInv
  <2>2. CASE ~Mergeable(zones[zone].chunk[Behind])
    BY <1>1, <1>4, <2>2 DEF ScanOn
  <2>. QED
    BY <2>1, <2>2
<1>5. CASE Grow
  BY <1>5, GrowInv
<1>6. CASE \/ AllocVoid \/ OtherPalloc \/ ScanNone \/ GrowFails \/ Halted \/ UNCHANGED vars
           \/ \E n \in Requests : alloc(n)
           \/ \E p \in others : OtherPfree(p)
           \/ \E look \in AdjacentLooks : ScanLast(look)
  BY <1>1, <1>6 DEF AllocVoid, OtherPalloc, ScanNone, GrowFails, Halted, vars, alloc,
                    OtherPfree, ScanLast
<1>. QED
  BY <1>2, <1>3, <1>4, <1>5, <1>6 DEF Next, Work

-----------------------------------------------------------------------------
(* The allocator's bookkeeping, whatever is asked of it in whatever order. *)
THEOREM KallocInvHolds == Spec => []KallocInv
<1>1. KallocInv /\ [Next]_vars => KallocInv'
  BY KallocStep
<1>. QED
  BY KallocInit, <1>1, PTL DEF Spec

(* Every header is one the code can write, every link is a page or null,   *)
(* and no reference count passes MAX_REFS: the panic of alloc_chunk never  *)
(* happens.                                                                *)
THEOREM KallocTypeOK == Spec => []TypeOK
<1>1. KallocInv => TypeOK
  <2>. SUFFICES ASSUME KallocInv PROVE TypeOK
    OBVIOUS
  <2>1. ZonesInv /\ PoolInv /\ ScanInv /\ DOMAIN live \subseteq Pages \X Offsets
    BY DEF KallocInv
  <2>2. ASSUME NEW z \in DOMAIN zones
        PROVE  /\ zones[z].next \in Pages \cup {Null}
               /\ zones[z].refs \in 0..MAX_REFS
               /\ DOMAIN zones[z].chunk \subseteq Offsets \ {0}
               /\ \A o \in DOMAIN zones[z].chunk : zones[z].chunk[o] \in Header
    <3>1. zones[z] \in ZoneRecords /\ Tiled(zones[z].chunk) /\ zones[z].refs <= MAX_REFS
      BY <2>1 DEF ZonesInv, KallocInv
    <3>2. zones[z].refs \in 0..MAX_REFS /\ zones[z].next \in Pages \cup {Null}
      BY <3>1 DEF ZoneRecords, MAX_REFS
    <3>. QED
      BY <3>1, <3>2, ChunkMapType DEF Tiled
  <2>. QED
    BY <2>1, <2>2 DEF TypeOK, ZonesInv, PoolInv, ScanInv
<1>. QED
  BY <1>1, KallocInvHolds, PTL

(* The chunks of every zone tile it, in every size of page and after every *)
(* sequence of splits and merges.                                          *)
THEOREM KallocChunksTile == Spec => []ChunksTile
<1>1. KallocInv => ChunksTile
  BY DEF KallocInv, ZonesInv, Tiled, End, ChunksTile
<1>. QED
  BY <1>1, KallocInvHolds, PTL

(* The used chunks are the allocations callers hold, large enough for what *)
(* was asked, and the reference counts count them.                         *)
THEOREM KallocLiveExact == Spec => []LiveExact
<1>1. KallocInv => LiveExact
  <2>. SUFFICES ASSUME LiveInv, ZonesInv, pc # "panicked" PROVE LiveExact
    BY DEF KallocInv, LiveExact
  <2>1. ASSUME NEW l \in DOMAIN live
        PROVE  /\ l[1] \in DOMAIN zones /\ l[2] \in DOMAIN zones[l[1]].chunk
               /\ zones[l[1]].chunk[l[2]].size >= live[l]
    <3>1. /\ l[1] \in DOMAIN zones /\ l[2] \in DOMAIN zones[l[1]].chunk
          /\ live[l] \in Nat /\ live[l] <= zones[l[1]].chunk[l[2]].size
      BY DEF LiveInv
    <3>2. zones[l[1]].chunk[l[2]].size \in Nat
      BY <3>1, ChunkNumbers DEF ZonesInv
    <3>. QED
      BY <3>1, <3>2
  <2>. QED
    BY <2>1 DEF LiveInv, LiveIn, LiveExact
<1>. QED
  BY <1>1, KallocInvHolds, PTL

(* Every page has one owner, and every zone is reached from the first. *)
THEOREM KallocZonesLinked == Spec => []ZonesLinked
<1>1. KallocInv => ZonesLinked
  <2>. SUFFICES ASSUME PagesInv, ZonesInv, pc # "panicked" PROVE ZonesLinked
    BY DEF KallocInv, ZonesLinked
  <2>. QED
    BY DEF PagesInv, ZonesInv, ZonesLinked
<1>. QED
  BY <1>1, KallocInvHolds, PTL

(* When scan gives up on the first zone, nothing in it fits and nothing in *)
(* it is left to merge.                                                    *)
THEOREM KallocScanComplete == Spec => []ScanComplete
<1>1. KallocInv => ScanComplete
  <2>. SUFFICES ASSUME ZonesInv, ScanInv, pc = "grow" \/ result = "oom" PROVE ScanComplete
    BY DEF KallocInv, ScanComplete
  <2>1. Scanned(PAGE_SIZE)
    BY DEF ScanInv
  <2>2. \A o \in DOMAIN zones[Head].chunk : o < PAGE_SIZE
    BY ChunkNumbers DEF ZonesInv
  <2>. QED
    BY <2>1, <2>2 DEF Scanned, End, ScanComplete
<1>. QED
  BY <1>1, KallocInvHolds, PTL

(* No caller that frees what it holds, once, meets a panic of Kalloc's     *)
(* own.                                                                    *)
THEOREM KallocPanicOnlyFromJunk == Spec => []PanicOnlyFromJunk
<1>1. KallocInv => PanicOnlyFromJunk
  BY DEF KallocInv
<1>. QED
  BY <1>1, KallocInvHolds, PTL

(* Splits, merges, growth and releases leave the headers of allocations    *)
(* that stay in use alone.                                                 *)
THEOREM KallocLiveUntouched == Spec => LiveUntouched
<1>1. KallocInv /\ [Next]_vars => [LiveKept]_vars
  BY KallocKeeps
<1>2. KallocInv /\ [Next]_vars =>
        [\A l \in DOMAIN live \cap DOMAIN live' :
           zones'[l[1]].chunk[l[2]] = zones[l[1]].chunk[l[2]]]_vars
  BY <1>1 DEF LiveKept
<1>. QED
  BY <1>2, KallocInvHolds, PTL DEF Spec, LiveUntouched
=============================================================================
