------------------------------- MODULE Kalloc -------------------------------
(***************************************************************************)
(* The kernel's small-object allocator (src/vm/vmalloc.rs) on top of the   *)
(* page pool.  A zone is a page: a zone header (next zone and reference    *)
(* count), then chunks, each a header (size and used flag) and its data.   *)
(*                                                                         *)
(* Zones are named by page number and chunks by the byte offset of their   *)
(* header in the zone.  Words inside a chunk are data: the header that a   *)
(* merge overwrites with 0 is no longer one.  Every turn of the loop of    *)
(* scan is a step.  The page pool is represented by what PagePool promises *)
(* a single caller: palloc returns the lowest free page.                   *)
(***************************************************************************)
EXTENDS Integers, FiniteSets

CONSTANTS
  Pages,          \* the page numbers of the pool
  PAGE_SIZE,      \* bytes in a page (4096)
  Requests,       \* the sizes callers ask for
  MaxOthers,      \* bound: pages the rest of the kernel holds at a time
  AdjacentLooks   \* how the word behind a zone may look to Header::is_free

HEADER_SIZE    == 8
ZONE_SIZE      == 8
MAX_CHUNK_SIZE == PAGE_SIZE - ZONE_SIZE - HEADER_SIZE
MAX_REFS       == 510
Null           == 0

(* The global allocator sends requests of 1..MAX_CHUNK_SIZE bytes here.    *)
ASSUME KallocAssumption ==
  /\ Pages \subseteq Nat \ {Null} /\ IsFiniteSet(Pages) /\ Pages # {}
  /\ PAGE_SIZE \in Nat /\ PAGE_SIZE % 8 = 0 /\ PAGE_SIZE >= 24
  /\ PAGE_SIZE \div (2 * HEADER_SIZE) < MAX_REFS   \* 256: a zone's chunks can be counted
  /\ Requests \subseteq 0..MAX_CHUNK_SIZE
  /\ MaxOthers \in Nat
  /\ AdjacentLooks \subseteq {"free", "used"} /\ AdjacentLooks # {}

VARIABLES
  zones,   \* zone page -> [next, refs, chunk]; chunk: offset -> [size, used]
  avail,   \* the pages on the pool's free list
  junk,    \* those of them whose next pointer Kalloc has overwritten
  others,  \* the pages the rest of the kernel owns
  live,    \* <<zone, offset>> of every allocation in use -> the size asked for
  pc,      \* where the call under way is
  req,     \* argument size of alloc, as asked
  size,    \* the same rounded to 8 bytes
  zone,    \* local: the zone being scanned
  curr,    \* local of scan: offset of the header looked at
  head,    \* local of scan: the copy of that header
  result   \* outcome of the last call to alloc

vars == <<zones, avail, junk, others, live, pc, req, size, zone, curr, head, result>>
poolVars == <<avail, junk, others>>
callVars == <<req, size>>
scanVars == <<zone, curr, head>>

Lowest(S) == CHOOSE p \in S : \A q \in S : p <= q
Head == Lowest(Pages)

Free(n) == [size |-> n, used |-> FALSE]
Used(n) == [size |-> n, used |-> TRUE]

(* A page set up as a zone: write_zone_header_pair. *)
NewZone == [next  |-> Null,
            refs  |-> 0,
            chunk |-> [o \in {ZONE_SIZE} |-> Free(MAX_CHUNK_SIZE)]]

(* Galloc::new takes the first page of the pool for Kalloc::new. *)
Init ==
  /\ zones = [z \in {Head} |-> NewZone]
  /\ avail = Pages \ {Head}
  /\ junk = {}
  /\ others = {}
  /\ live = [l \in {} |-> 0]
  /\ pc = "idle"
  /\ req = 0 /\ size = 0
  /\ zone = Head /\ curr = 0 /\ head = Free(0)
  /\ result = "none"

-----------------------------------------------------------------------------
(* The page pool, for one caller at a time.  A page whose next pointer     *)
(* holds a chunk size sends the pool to an unmapped address: palloc when   *)
(* it takes that page, pfree when its walk passes it.                      *)

PallocFaults   == avail # {} /\ Lowest(avail) \in junk
PfreeFaults(p) == \E j \in junk : j < p

(* Page tables and large allocations come from the same pool. *)
OtherPalloc ==
  /\ pc = "idle" /\ avail # {} /\ Cardinality(others) < MaxOthers
  /\ pc' = IF PallocFaults THEN "panicked" ELSE pc
  /\ avail' = IF PallocFaults THEN avail ELSE avail \ {Lowest(avail)}
  /\ others' = IF PallocFaults THEN others ELSE others \cup {Lowest(avail)}
  /\ result' = "none"
  /\ UNCHANGED <<zones, junk, live, callVars, scanVars>>

OtherPfree(p) ==
  /\ pc = "idle" /\ p \in others
  /\ pc' = IF PfreeFaults(p) THEN "panicked" ELSE pc
  /\ avail' = IF PfreeFaults(p) THEN avail ELSE avail \cup {p}
  /\ others' = others \ {p}
  /\ result' = "none"
  /\ UNCHANGED <<zones, junk, live, callVars, scanVars>>

-----------------------------------------------------------------------------
(* Kalloc::alloc *)

(* Mutant of Round: no rounding. *)
NoRound(n) == n

Round(n) == IF n % 8 # 0 THEN ((n + 7) \div 8) * 8 ELSE n

(* Mutant of RestSize: no space is made for the inserted header. *)
RestSizeNoHeader(total, n) == total - n

RestSize(total, n) == total - n - HEADER_SIZE

(* Header::split of chunk o, which becomes a used chunk of n bytes: the    *)
(* rest is a free chunk of its own, unless nothing is left.                *)
Split(chunk, o, n) ==
  LET rest == o + HEADER_SIZE + n
  IN  IF n = chunk[o].size THEN [chunk EXCEPT ![o] = Used(n)]
      ELSE [p \in DOMAIN chunk \cup {rest} |->
              IF p = o THEN Used(n)
              ELSE IF p = rest THEN Free(RestSize(chunk[o].size, n))
              ELSE chunk[p]]

(* Header::merge of chunk o with the free chunk behind it. *)
Merge(chunk, o, n) ==
  [p \in DOMAIN chunk \ {o + HEADER_SIZE + n} |->
     IF p = o THEN Free(n + HEADER_SIZE + chunk[o + HEADER_SIZE + n].size)
     ELSE chunk[p]]

(* Mutant of AllocChunk: the zone's reference is not counted. *)
AllocChunkUncounted(z, o, n) == [z EXCEPT !.chunk = Split(z.chunk, o, n)]

(* alloc_chunk; more than MAX_REFS chunks in a zone is a panic. *)
AllocChunk(z, o, n) ==
  [z EXCEPT !.refs = @ + 1, !.chunk = Split(z.chunk, o, n)]

AllocVoid ==
  /\ pc = "idle" /\ 0 \in Requests
  /\ result' = "void"
  /\ UNCHANGED <<zones, poolVars, live, pc, callVars, scanVars>>

alloc(n) ==
  /\ pc = "idle" /\ n # 0
  /\ req' = n /\ size' = Round(n)
  /\ result' = "none"
  /\ pc' = "scan"
  /\ zone' = Head /\ curr' = ZONE_SIZE /\ head' = zones[Head].chunk[ZONE_SIZE]
  /\ UNCHANGED <<zones, poolVars, live>>

Fits == head.size >= size /\ ~head.used

(* The chunk fits: take it. *)
ScanTake ==
  /\ pc = "scan" /\ curr < PAGE_SIZE /\ Fits
  /\ IF zones[zone].refs + 1 > MAX_REFS
     THEN pc' = "panicked" /\ UNCHANGED <<zones, live, result>>
     ELSE /\ zones' = [zones EXCEPT ![zone] = AllocChunk(@, curr, size)]
          /\ live' = [l \in DOMAIN live \cup {<<zone, curr>>} |->
                        IF l = <<zone, curr>> THEN req ELSE live[l]]
          /\ pc' = "idle" /\ result' = "ok"
  /\ UNCHANGED <<poolVars, callVars, scanVars>>

(* The chunk does not fit: read the header behind it.  Two free chunks in  *)
(* a row are merged and looked at again.                                   *)
Behind == curr + HEADER_SIZE + head.size

(* Mutants of ScanOn: free neighbours are never merged; a used chunk is    *)
(* merged as well; the loop does not move on.                              *)
NeverMergeable(behind)  == FALSE
MergeableIfUsed(behind) == ~behind.used
Stay == curr

Mergeable(behind) == ~head.used /\ ~behind.used
MoveOn == Behind

ScanOn ==
  /\ pc = "scan" /\ curr < PAGE_SIZE /\ ~Fits
  /\ Behind \in DOMAIN zones[zone].chunk
  /\ LET behind == zones[zone].chunk[Behind]
         merged == Merge(zones[zone].chunk, curr, head.size)
     IN  IF Mergeable(behind)
         THEN /\ zones' = [zones EXCEPT ![zone].chunk = merged]
              /\ head' = merged[curr]
              /\ curr' = curr
         ELSE /\ head' = behind
              /\ curr' = MoveOn
              /\ zones' = zones
  /\ UNCHANGED <<poolVars, live, pc, callVars, zone, result>>

(* Behind the last chunk that header is the first word of the next page.   *)
(* If the last chunk is free and that word has bit 12 clear, merge writes  *)
(* 0 over it and adds it to the chunk; what the kernel does with the page  *)
(* it hit is not followed any further.                                     *)
ScanLast(look) ==
  /\ pc = "scan" /\ curr < PAGE_SIZE /\ ~Fits
  /\ Behind = PAGE_SIZE
  /\ pc' = IF ~head.used /\ look = "free" THEN "overrun" ELSE "scan"
  /\ curr' = Behind
  /\ UNCHANGED <<zones, poolVars, live, callVars, zone, head, result>>

(* scan returned None: on to the next zone, unless it lies behind end,     *)
(* which is still the end of the first zone; without a next zone, grow.    *)
ScanNone ==
  LET nextZone == zones[zone].next
  IN  /\ pc = "scan" /\ curr >= PAGE_SIZE
      /\ pc' = CASE nextZone = Null -> "grow"
                 [] nextZone # Null /\ nextZone <= Head -> "scan"
                 [] OTHER -> "idle"
      /\ result' = IF pc' = "idle" THEN "oom" ELSE "none"
      /\ zone' = IF pc' = "scan" THEN nextZone ELSE zone
      /\ curr' = IF pc' = "scan" THEN ZONE_SIZE ELSE curr
      /\ head' = IF pc' = "scan" THEN zones[nextZone].chunk[ZONE_SIZE] ELSE head
      /\ UNCHANGED <<zones, poolVars, live, callVars>>

(* grow_pool: a new zone behind the first one (trail never moves), and its *)
(* first chunk is allocated.                                               *)
Grow ==
  LET page == Lowest(avail)
      zs   == [zones EXCEPT ![Head].next = page]
  IN  /\ pc = "grow" /\ avail # {} /\ ~PallocFaults
      /\ avail' = avail \ {page}
      /\ zones' = [z \in DOMAIN zones \cup {page} |->
                     IF z = page THEN AllocChunk(NewZone, ZONE_SIZE, size)
                     ELSE zs[z]]
      /\ live' = [l \in DOMAIN live \cup {<<page, ZONE_SIZE>>} |->
                    IF l = <<page, ZONE_SIZE>> THEN req ELSE live[l]]
      /\ pc' = "idle" /\ result' = "ok"
      /\ UNCHANGED <<junk, others, callVars, scanVars>>

GrowFails ==
  /\ pc = "grow" /\ (avail = {} \/ PallocFaults)
  /\ pc' = IF avail = {} THEN "idle" ELSE "panicked"
  /\ result' = IF avail = {} THEN "oom" ELSE "none"
  /\ UNCHANGED <<zones, poolVars, live, callVars, scanVars>>

-----------------------------------------------------------------------------
(* Kalloc::free of an allocation in use. *)

(* Mutant of FreeMerges: a used chunk behind is merged as well. *)
FreeMergesUsed(chunk, behind) == behind < PAGE_SIZE

FreeMerges(chunk, behind) == behind < PAGE_SIZE /\ ~chunk[behind].used

(* The header is marked unused and, if a free chunk follows it in the      *)
(* zone, merged with that one.                                             *)
FreeMerge(chunk, o) ==
  LET n     == chunk[o].size
      freed == [chunk EXCEPT ![o] = Free(n)]
  IN  IF FreeMerges(chunk, o + HEADER_SIZE + n) THEN Merge(freed, o, n) ELSE freed

DecrementRefs(z) == zones[z].refs - 1

(* Taking the last reference from the first zone leaves it in the pool,    *)
(* and skips the merge.                                                    *)
FreeInZone(z, o) ==
  /\ zones' = [zones EXCEPT ![z].refs = DecrementRefs(z),
                            ![z].chunk = IF DecrementRefs(z) = 0
                                         THEN [@ EXCEPT ![o].used = FALSE]
                                         ELSE FreeMerge(@, o)]
  /\ UNCHANGED <<avail, junk, pc>>

(* Mutant of FreeSelf: the zone before still points to the released one. *)
FreeSelfLinked(z, before) == [y \in DOMAIN zones \ {z} |-> zones[y]]

(* free_self: the zones without z, the one before it linked to the next.   *)
FreeSelf(z, before) ==
  [y \in DOMAIN zones \ {z} |->
     IF y = before THEN [zones[y] EXCEPT !.next = zones[z].next] ELSE zones[y]]

(* shrink_pool looks for the zone before z, free_self unlinks z and gives  *)
(* its page back to the pool; then free writes the chunk's header, into    *)
(* that page.  The word behind the zone header is the pool's next pointer. *)
ReleaseZone(z, o) ==
  IF PfreeFaults(z) \/ \A y \in DOMAIN zones : zones[y].next # z
  THEN pc' = "panicked" /\ UNCHANGED <<zones, avail, junk>>
  ELSE /\ zones' = FreeSelf(z, CHOOSE y \in DOMAIN zones : zones[y].next = z)
       /\ avail' = avail \cup {z}
       /\ junk' = IF o = ZONE_SIZE THEN junk \cup {z} ELSE junk
       /\ pc' = pc

free(z, o) ==
  /\ pc = "idle" /\ <<z, o>> \in DOMAIN live
  /\ IF ~zones[z].chunk[o].used \/ zones[z].refs = 0
     THEN pc' = "panicked" /\ UNCHANGED <<zones, avail, junk>>
     ELSE IF DecrementRefs(z) = 0 /\ z # Head
     THEN ReleaseZone(z, o)
     ELSE FreeInZone(z, o)
  /\ live' = [l \in DOMAIN live \ {<<z, o>>} |-> live[l]]
  /\ result' = "none"
  /\ UNCHANGED <<others, callVars, scanVars>>

(* A panic, and a neighbouring page overwritten, are the end of the model. *)
Halted == pc \in {"panicked", "overrun"} /\ UNCHANGED vars

-----------------------------------------------------------------------------
Work == \/ ScanTake \/ ScanOn \/ ScanNone \/ Grow \/ GrowFails
        \/ \E look \in AdjacentLooks : ScanLast(look)

Next ==
  \/ AllocVoid
  \/ \E n \in Requests : alloc(n)
  \/ \E l \in DOMAIN live : free(l[1], l[2])
  \/ OtherPalloc
  \/ \E p \in others : OtherPfree(p)
  \/ Work
  \/ Halted

Spec == Init /\ [][Next]_vars

(* A call to alloc that has started goes on. *)
FairSpec == Spec /\ WF_vars(Work)

-----------------------------------------------------------------------------
Offsets == {o \in 0..(PAGE_SIZE - 1) : o % 8 = 0}
Header  == [size : 0..MAX_CHUNK_SIZE, used : BOOLEAN]

TypeOK ==
  /\ DOMAIN zones \subseteq Pages /\ Head \in DOMAIN zones
  /\ \A z \in DOMAIN zones :
       /\ zones[z].next \in Pages \cup {Null}
       /\ zones[z].refs \in 0..MAX_REFS
       /\ DOMAIN zones[z].chunk \subseteq Offsets \ {0}
       /\ \A o \in DOMAIN zones[z].chunk : zones[z].chunk[o] \in Header
  /\ avail \subseteq Pages /\ others \subseteq Pages /\ junk \subseteq avail
  /\ DOMAIN live \subseteq Pages \X Offsets
  /\ pc \in {"idle", "scan", "grow", "panicked", "overrun"}
  /\ zone \in DOMAIN zones
  /\ curr \in Offsets \cup {PAGE_SIZE}
  /\ head \in Header
  /\ result \in {"none", "ok", "void", "oom"}

(* The chunks of a zone cover it without gap or overlap: every chunk ends  *)
(* where another one starts, or at the end of the zone, at every step of   *)
(* every split and merge (the invariant scan and free navigate by).        *)
ChunksTile ==
  \A z \in DOMAIN zones :
    LET chunk == zones[z].chunk
        End(o) == o + HEADER_SIZE + chunk[o].size
    IN  /\ ZONE_SIZE \in DOMAIN chunk
        /\ \A o \in DOMAIN chunk :
             /\ End(o) \in DOMAIN chunk \cup {PAGE_SIZE}
             /\ \A p \in DOMAIN chunk : p <= o \/ End(o) <= p

(* The used chunks of all zones are exactly the allocations callers hold,  *)
(* each as large as was asked for, and a zone's reference count is their   *)
(* number: free releases a zone when, and only when, nobody uses it.       *)
LiveExact ==
  pc # "panicked" =>
    /\ \A z \in DOMAIN zones :
         /\ \A o \in DOMAIN zones[z].chunk :
              zones[z].chunk[o].used <=> <<z, o>> \in DOMAIN live
         /\ zones[z].refs = Cardinality({l \in DOMAIN live : l[1] = z})
    /\ \A l \in DOMAIN live :
         /\ l[1] \in DOMAIN zones /\ l[2] \in DOMAIN zones[l[1]].chunk
         /\ zones[l[1]].chunk[l[2]].size >= live[l]

(* Every page is free, the rest of the kernel's or a zone, and every zone  *)
(* is reached from the first one: no zone is lost or used after it went    *)
(* back to the pool.                                                       *)
ZonesLinked ==
  pc # "panicked" =>
    /\ avail \cap others = {} /\ DOMAIN zones \cap (avail \cup others) = {}
    /\ avail \cup others \cup DOMAIN zones = Pages
    /\ \A z \in DOMAIN zones \ {Head} :
         \E y \in DOMAIN zones : zones[y].next = z
    /\ \A y \in DOMAIN zones : zones[y].next \in (DOMAIN zones \ {Head}) \cup {Null}

(* When alloc goes to grow_pool or gives up, no chunk of the first zone    *)
(* fits and no two free chunks in it are neighbours, whatever the order of *)
(* the frees that left them: free merges forwards only, scan does the rest *)
(* (vmalloc.rs:302-314).                                                   *)
ScanComplete ==
  pc = "grow" \/ result = "oom" =>
    \A o \in DOMAIN zones[Head].chunk :
      LET c == zones[Head].chunk[o]
          e == o + HEADER_SIZE + c.size
      IN  ~c.used => c.size < size /\ (e < PAGE_SIZE => zones[Head].chunk[e].used)

(* Callers that free what they hold, once, never meet the panics of this   *)
(* allocator ("Kalloc double free.", MaxRefs, "Negative zone refs count",  *)
(* "Not in the pool..."): it dies only of a page list it has overwritten.  *)
PanicOnlyFromJunk == pc = "panicked" => junk # {}

(* No step changes the header of an allocation that stays in use. *)
LiveUntouched ==
  [][\A l \in DOMAIN live \cap DOMAIN live' :
       zones'[l[1]].chunk[l[2]] = zones[l[1]].chunk[l[2]]]_vars

(* The loop of scan ends: each turn moves on or merges. *)
AllocReturns == pc = "scan" ~> pc \in {"idle", "panicked", "overrun"}

(* "Scan this zone for the first free chunk" within "Start and end (start  *)
(* + PAGE_SIZE) bounds of zone" (vmalloc.rs:293, 297).                     *)
ScanStaysInZone == pc # "overrun"

(* "Check if zone refs count is 0, if so, release zone" (vmalloc.rs:442):  *)
(* a released page belongs to the pool, free leaves it alone.              *)
ReleasedZoneUntouched == junk = {}


(* alloc fails only when no zone has a chunk that fits and palloc has no   *)
(* page for another: "Else, move to next zone and go back to step 1.", "If *)
(* no zone had a fit, then try to allocate a new zone", "Else, fail with   *)
(* OOM." (vmalloc.rs:404-406).                                             *)
OOMOnlyWhenFull ==
  result = "oom" =>
    /\ avail = {}
    /\ \A z \in DOMAIN zones : \A o \in DOMAIN zones[z].chunk :
         ~zones[z].chunk[o].used => zones[z].chunk[o].size < size
=============================================================================
