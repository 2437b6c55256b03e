---------------------------- MODULE GallocProofs ----------------------------
(***************************************************************************)
(* Proofs about Galloc, the global allocator of src/vm/global.rs: blocks   *)
(* share no byte with one another or with what the allocators below keep   *)
(* to themselves, and none of their chunks and pages is lost.              *)
(***************************************************************************)
EXTENDS Galloc, KallocProofs

USE DEF HEADER_SIZE, ZONE_SIZE, Null

-----------------------------------------------------------------------------
(* Addresses. *)

(* A page is a multiple of 8 bytes, and a chunk as large as a zone lets it. *)
LEMMA PageSize ==
  /\ PAGE_SIZE \in Nat /\ PAGE_SIZE >= 24 /\ PAGE_SIZE % 8 = 0
  /\ MAX_CHUNK_SIZE = PAGE_SIZE - 16
BY KallocAssumption DEF MAX_CHUNK_SIZE

(* Quotient and remainder of n * q + r. *)
LEMMA DivMod ==
  ASSUME NEW n \in Nat \ {0}, NEW q \in Nat, NEW r \in 0..(n - 1)
  PROVE  (n * q + r) \div n = q /\ (n * q + r) % n = r
OBVIOUS

(* Byte i of page z. *)
LEMMA ByteOfPage ==
  ASSUME NEW z \in Nat, NEW i \in 0..(PAGE_SIZE - 1)
  PROVE  /\ PageAddr(z) \in Nat /\ PageOf(PageAddr(z) + i) = z
         /\ (PageAddr(z) + i) % PAGE_SIZE = i
<1>1. PageAddr(z) + i = PAGE_SIZE * z + i /\ PageAddr(z) \in Nat
  BY PageSize DEF PageAddr
<1>2. PAGE_SIZE \in Nat \ {0}
  BY PageSize
<1>. QED
  BY <1>1, <1>2, DivMod DEF PageOf

(* The address of a chunk's data leads back to the chunk. *)
LEMMA ChunkAddress ==
  ASSUME NEW z \in Nat, NEW o \in Nat, o + 8 < PAGE_SIZE
  PROVE  /\ DataAddr(<<z, o>>) = PageAddr(z) + o + 8 /\ DataAddr(<<z, o>>) \in Nat
         /\ PageOf(DataAddr(<<z, o>>)) = z
         /\ DataAddr(<<z, o>>) % PAGE_SIZE = o + 8
         /\ ChunkOf(DataAddr(<<z, o>>)) = <<z, o>>
<1>1. o + 8 \in 0..(PAGE_SIZE - 1)
  BY PageSize
<1>2. DataAddr(<<z, o>>) = PageAddr(z) + o + 8
  BY DEF DataAddr
<1>3. PageAddr(z) \in Nat
  BY PageSize DEF PageAddr
<1>4. DataAddr(<<z, o>>) = PageAddr(z) + (o + 8)
  BY <1>2, <1>3
<1>5. PageOf(DataAddr(<<z, o>>)) = z /\ DataAddr(<<z, o>>) % PAGE_SIZE = o + 8
  BY <1>1, <1>4, ByteOfPage
<1>6. (DataAddr(<<z, o>>) % PAGE_SIZE) - 8 = o
  BY <1>5
<1>. QED
  BY <1>2, <1>3, <1>5, <1>6 DEF ChunkOf

(* Bytes p..p+n-1 lie in the pages g..g+m-1. *)
InPages(p, n, g, m) == PageAddr(g) <= p /\ p + n <= PageAddr(g) + m * PAGE_SIZE

(* Blocks inside runs of pages that share none share no byte. *)
LEMMA PagesApart ==
  ASSUME NEW p \in Nat, NEW n \in Nat, NEW g \in Nat, NEW m \in Nat, InPages(p, n, g, m),
         NEW q \in Nat, NEW k \in Nat, NEW h \in Nat, NEW j \in Nat, InPages(q, k, h, j),
         g + m <= h \/ h + j <= g
  PROVE  Apart(p, n, q, k)
<1>1. ASSUME NEW a \in Nat, NEW b \in Nat, NEW c \in Nat, a + b <= c
      PROVE  PageAddr(a) + b * PAGE_SIZE <= PageAddr(c)
  <2>1. PICK d \in Nat : c = a + b + d
    <3>1. c - (a + b) \in Nat /\ c = a + b + (c - (a + b))
      BY <1>1
    <3>. QED
      BY <3>1
  <2>2. c * PAGE_SIZE = a * PAGE_SIZE + b * PAGE_SIZE + d * PAGE_SIZE /\ d * PAGE_SIZE \in Nat
        /\ a * PAGE_SIZE \in Nat /\ b * PAGE_SIZE \in Nat
    BY <2>1, PageSize
  <2>. QED
    BY <2>2 DEF PageAddr
<1>2. /\ PageAddr(g) \in Nat /\ PageAddr(h) \in Nat
      /\ m * PAGE_SIZE \in Nat /\ j * PAGE_SIZE \in Nat
  BY PageSize DEF PageAddr
<1>3. CASE g + m <= h
  <2>1. PageAddr(g) + m * PAGE_SIZE <= PageAddr(h)
    BY <1>1, <1>3
  <2>. QED
    BY <1>2, <2>1 DEF InPages, Apart
<1>4. CASE h + j <= g
  <2>1. PageAddr(h) + j * PAGE_SIZE <= PageAddr(g)
    BY <1>1, <1>4
  <2>. QED
    BY <1>2, <2>1 DEF InPages, Apart
<1>. QED
  BY <1>3, <1>4

(* Runs of pages without a page in common are one behind the other. *)
LEMMA RunsApart ==
  ASSUME NEW g \in Nat, NEW m \in Nat \ {0}, NEW h \in Nat, NEW j \in Nat \ {0},
         Run(g, m) \cap Run(h, j) = {}
  PROVE  g + m <= h \/ h + j <= g
<1>1. g \notin Run(h, j) \/ g \notin Run(g, m)
  OBVIOUS
<1>2. h \notin Run(h, j) \/ h \notin Run(g, m)
  OBVIOUS
<1>. QED
  BY <1>1, <1>2 DEF Run

(* A page is a run of one. *)
LEMMA OnePage == \A g \in Nat : Run(g, 1) = {g}
BY DEF Run

(* The pages of a large request hold it, and the last one is needed. *)
LEMMA PageCounts ==
  ASSUME NEW n \in Nat \ {0}, NEW a \in Nat
  PROVE  /\ PageCount(n, a) \in Nat
         /\ PageCount(n, a) = 0 <=> n <= MAX_CHUNK_SIZE /\ a <= 8
         /\ PageCount(n, a) # 0 =>
              /\ n <= PageCount(n, a) * PAGE_SIZE
              /\ PageCount(n, a) - 1 = (n - 1) \div PAGE_SIZE
<1>. DEFINE k == (n + PAGE_SIZE - 1) \div PAGE_SIZE
<1>1. k \in Nat /\ n <= k * PAGE_SIZE /\ k - 1 = (n - 1) \div PAGE_SIZE
  <2>. DEFINE q == (n - 1) \div PAGE_SIZE
              r == (n - 1) % PAGE_SIZE
  <2>1. q \in Nat /\ r \in 0..(PAGE_SIZE - 1) /\ n - 1 = PAGE_SIZE * q + r
    BY PageSize
  <2>. HIDE DEF q, r
  <2>2. n + PAGE_SIZE - 1 = PAGE_SIZE * (q + 1) + r
    BY <2>1, PageSize
  <2>3. k = q + 1
    BY <2>1, <2>2, DivMod, PageSize
  <2>4. k * PAGE_SIZE = PAGE_SIZE * q + PAGE_SIZE /\ PAGE_SIZE * q \in Nat
    BY <2>1, <2>3, PageSize
  <2>. QED
    BY <2>1, <2>3, <2>4, PageSize DEF q
<1>. HIDE DEF k
<1>2. CASE n <= MAX_CHUNK_SIZE
  <2>1. (n - 1) \div PAGE_SIZE = 0 /\ n <= 1 * PAGE_SIZE
    BY <1>2, PageSize
  <2>. QED
    BY <1>2, <2>1 DEF PageCount
<1>3. CASE ~(n <= MAX_CHUNK_SIZE)
  <2>1. PageCount(n, a) = k
    BY <1>3 DEF PageCount, k
  <2>2. k # 0
    BY <1>1, PageSize
  <2>. QED
    BY <1>1, <1>3, <2>1, <2>2
<1>. QED
  BY <1>2, <1>3

(* A multiple of a multiple. *)
LEMMA Divides ==
  ASSUME NEW a \in Nat \ {0}, NEW m \in Nat, m % a = 0, NEW x \in Nat, NEW k \in Nat, x = k * m
  PROVE  x % a = 0
<1>. DEFINE q == m \div a
<1>1. q \in Nat /\ m = a * q
  OBVIOUS
<1>. HIDE DEF q
<1>2. x = a * (q * k) + 0 /\ q * k \in Nat
  BY <1>1
<1>. QED
  BY <1>2, DivMod

-----------------------------------------------------------------------------
(* The inductive invariant. *)

(* What a caller may ask an alignment to be. *)
AlignOK(a) ==
  /\ a \in Nat \ {0}
  /\ a <= PAGE_SIZE => PAGE_SIZE % a = 0
  /\ a <= 8 => 8 % a = 0

BlockOK(b) ==
  b.size \in Nat \ {0} /\ AlignOK(b.align) /\ b.align <= PAGE_SIZE

Small(p) == PageCount(blocks[p].size, blocks[p].align) = 0

(* A small block is a chunk in use, as large as asked for; a large one is  *)
(* a run of others, which no other block has a page of; every page of      *)
(* others belongs to one.                                                  *)
BlocksInv ==
  /\ DOMAIN blocks \subseteq Nat
  /\ \A p \in DOMAIN blocks : BlockOK(blocks[p])
  /\ \A p \in DOMAIN blocks :
       Small(p) => \E l \in DOMAIN live : p = DataAddr(l) /\ live[l] = blocks[p].size
  /\ \A p \in DOMAIN blocks :
       ~Small(p) => p = PageAddr(PageOf(p)) /\ PagesOf(p) \subseteq others
  /\ \A p, q \in DOMAIN blocks :
       p # q /\ ~Small(p) /\ ~Small(q) => PagesOf(p) \cap PagesOf(q) = {}
  /\ \A g \in others : \E p \in DOMAIN blocks : ~Small(p) /\ g \in PagesOf(p)

(* Every chunk in use is a block. *)
LiveCovered == \A l \in DOMAIN live : DataAddr(l) \in DOMAIN blocks

(* Every chunk but one, of the size the call asks for. *)
LiveCoveredButOne ==
  \E new \in DOMAIN live :
    /\ DataAddr(new) \notin DOMAIN blocks /\ live[new] = call.size
    /\ \A l \in DOMAIN live \ {new} : DataAddr(l) \in DOMAIN blocks

CallOK(c) ==
  /\ c.size \in Nat \ {0} /\ AlignOK(c.align) /\ c.align <= PAGE_SIZE
  /\ c.kind = "realloc" => c.old \in DOMAIN blocks

(* The calls of Galloc and the state that Kalloc is in meanwhile. *)
GCallInv ==
  /\ gpc \in {"ready", "small", "copy", "panicked", "overrun"}
  /\ gpc = "ready" => /\ pc \in {"idle", "panicked"} /\ result # "oom"
                      /\ pc = "idle" => LiveCovered
  /\ gpc = "copy" => /\ pc = "idle" /\ result # "oom" /\ LiveCovered
                     /\ call.old \in DOMAIN blocks /\ out \in DOMAIN blocks
                     /\ out # call.old /\ blocks[out].size = call.size
  /\ gpc = "small" => /\ CallOK(call) /\ PageCount(call.size, call.align) = 0
                      /\ pc \in {"scan", "grow"} => req = call.size /\ LiveCovered
                      /\ pc = "idle" /\ result = "ok" => LiveCoveredButOne

(* A panic stops the allocators half way, but nothing moves any more. *)
GallocInv ==
  /\ GrowthFits
  /\ gpc = "panicked" \/ pc = "panicked" => BlocksApart
  /\ gpc # "panicked" => KallocInv /\ GCallInv /\ (pc # "panicked" => BlocksInv)

-----------------------------------------------------------------------------
(* A chunk in use: where it is and how far it goes. *)
LEMMA LiveChunk ==
  ASSUME KallocInv, pc # "panicked", NEW l \in DOMAIN live
  PROVE  /\ l = <<l[1], l[2]>> /\ l[1] \in DOMAIN zones /\ l[1] \in Nat
         /\ l[2] \in DOMAIN zones[l[1]].chunk /\ Tiled(zones[l[1]].chunk)
         /\ l[2] \in Nat /\ 8 <= l[2] /\ l[2] + 8 < PAGE_SIZE
         /\ live[l] \in Nat \ {0} /\ live[l] <= zones[l[1]].chunk[l[2]].size
         /\ l[2] + 8 + live[l] <= End(zones[l[1]].chunk, l[2])
         /\ End(zones[l[1]].chunk, l[2]) <= PAGE_SIZE
         /\ DataAddr(l) = PageAddr(l[1]) + l[2] + 8 /\ DataAddr(l) \in Nat
         /\ DataAddr(l) % PAGE_SIZE = l[2] + 8
         /\ ChunkOf(DataAddr(l)) = l
<1>1. LiveInv /\ ZonesInv
  BY DEF KallocInv
<1>2. l = <<l[1], l[2]>>
  BY <1>1 DEF LiveInv
<1>3. /\ l[1] \in DOMAIN zones /\ l[2] \in DOMAIN zones[l[1]].chunk
      /\ live[l] \in Nat \ {0} /\ live[l] <= zones[l[1]].chunk[l[2]].size
  BY <1>1 DEF LiveInv
<1>4. l[1] \in Nat /\ Tiled(zones[l[1]].chunk)
  BY <1>1, <1>3, HeadIsLowest DEF ZonesInv
<1>. DEFINE c == zones[l[1]].chunk
<1>5. /\ l[2] \in Nat /\ 8 <= l[2] /\ c[l[2]].size \in Nat
      /\ End(c, l[2]) \in Nat /\ End(c, l[2]) <= PAGE_SIZE
  BY <1>3, <1>4, ChunkNumbers
<1>6. End(c, l[2]) = l[2] + 8 + c[l[2]].size
  BY DEF End
<1>7. l[2] + 8 < PAGE_SIZE /\ l[2] + 8 + live[l] <= End(c, l[2])
  BY <1>3, <1>5, <1>6, PageSize
<1>8. /\ DataAddr(<<l[1], l[2]>>) = PageAddr(l[1]) + l[2] + 8
      /\ DataAddr(<<l[1], l[2]>>) \in Nat
      /\ DataAddr(<<l[1], l[2]>>) % PAGE_SIZE = l[2] + 8
      /\ ChunkOf(DataAddr(<<l[1], l[2]>>)) = <<l[1], l[2]>>
  BY <1>4, <1>5, <1>7, ChunkAddress
<1>. QED
  BY <1>2, <1>3, <1>4, <1>5, <1>7, <1>8

(* The chunk of a small block. *)
LEMMA SmallBlock ==
  ASSUME KallocInv, pc # "panicked", BlocksInv, NEW p \in DOMAIN blocks, Small(p)
  PROVE  /\ ChunkOf(p) \in DOMAIN live /\ DataAddr(ChunkOf(p)) = p
         /\ live[ChunkOf(p)] = blocks[p].size /\ p % PAGE_SIZE # 0
         /\ p \in Nat /\ blocks[p].size \in Nat
         /\ InPages(p, blocks[p].size, ChunkOf(p)[1], 1)
<1>1. PICK l \in DOMAIN live : p = DataAddr(l) /\ live[l] = blocks[p].size
  BY DEF BlocksInv
<1>2. /\ l[1] \in Nat /\ l[2] \in Nat /\ 8 <= l[2] /\ p = PageAddr(l[1]) + l[2] + 8
      /\ p % PAGE_SIZE = l[2] + 8 /\ ChunkOf(p) = l /\ p \in Nat
      /\ l[2] + 8 + live[l] <= End(zones[l[1]].chunk, l[2])
      /\ End(zones[l[1]].chunk, l[2]) <= PAGE_SIZE
      /\ End(zones[l[1]].chunk, l[2]) \in Nat /\ live[l] \in Nat
  BY <1>1, LiveChunk, ChunkNumbers
<1>3. PageAddr(l[1]) \in Nat
  BY <1>2, PageSize DEF PageAddr
<1>4. InPages(p, live[l], l[1], 1)
  BY <1>2, <1>3, PageSize DEF InPages
<1>5. p % PAGE_SIZE # 0
  BY <1>2
<1>. QED
  BY <1>1, <1>2, <1>4, <1>5, Zenon

(* The pages of a large block. *)
LEMMA LargeBlock ==
  ASSUME BlocksInv, PoolInv, NEW p \in DOMAIN blocks, ~Small(p)
  PROVE  LET n == PageCount(blocks[p].size, blocks[p].align)
         IN  /\ p = PageAddr(PageOf(p)) /\ p % PAGE_SIZE = 0
             /\ p \in Nat /\ PageOf(p) \in Nat /\ n \in Nat \ {0} /\ blocks[p].size \in Nat
             /\ PagesOf(p) = Run(PageOf(p), n) /\ PagesOf(p) \subseteq others
             /\ InPages(p, blocks[p].size, PageOf(p), n)
<1>. DEFINE n == PageCount(blocks[p].size, blocks[p].align)
<1>1. /\ p = PageAddr(PageOf(p)) /\ p \in Nat /\ PagesOf(p) \subseteq others
      /\ blocks[p].size \in Nat \ {0} /\ blocks[p].align \in Nat
  BY DEF BlocksInv, BlockOK, AlignOK
<1>2. n \in Nat \ {0} /\ blocks[p].size <= n * PAGE_SIZE
  BY <1>1, PageCounts DEF Small
<1>3. PageOf(p) \in Nat
  BY <1>1, PageSize DEF PageOf
<1>4. p % PAGE_SIZE = 0
  <2>1. 0 \in 0..(PAGE_SIZE - 1) /\ PageAddr(PageOf(p)) + 0 = p
    BY <1>1, PageSize
  <2>. QED
    BY <1>3, <2>1, ByteOfPage
<1>5. InPages(p, blocks[p].size, PageOf(p), n)
  <2>1. n * PAGE_SIZE \in Nat
    BY <1>2, PageSize
  <2>. QED
    BY <1>1, <1>2, <2>1 DEF InPages
<1>6. PagesOf(p) = Run(PageOf(p), n)
  BY DEF PagesOf
<1>. QED
  BY <1>1, <1>2, <1>3, <1>4, <1>5, <1>6

(* Two chunks in use share no byte, nor does one with a header. *)
LEMMA ChunksApart ==
  ASSUME KallocInv, pc # "panicked", NEW l \in DOMAIN live
  PROVE  /\ \A k \in DOMAIN live : k # l /\ k[1] = l[1] =>
              Apart(DataAddr(l), live[l], DataAddr(k), live[k])
         /\ \A o \in DOMAIN zones[l[1]].chunk \cup {0} :
              Apart(DataAddr(l), live[l], PageAddr(l[1]) + o, 8)
<1>. DEFINE z == l[1]
            c == zones[z].chunk
            a == PageAddr(z)
<1>1. /\ l = <<z, l[2]>> /\ z \in Nat /\ l[2] \in DOMAIN c /\ l[2] \in Nat /\ Tiled(c)
      /\ 8 <= l[2] /\ live[l] \in Nat /\ l[2] + 8 + live[l] <= End(c, l[2])
      /\ DataAddr(l) = a + l[2] + 8
  BY LiveChunk
<1>2. a \in Nat
  BY <1>1, PageSize DEF PageAddr
<1>3. \A o \in DOMAIN c : o \in Nat /\ End(c, o) \in Nat /\ o + 8 <= End(c, o)
  BY <1>1, ChunkNumbers DEF End
<1>4. \A o \in DOMAIN c : o # l[2] => End(c, o) <= l[2] \/ End(c, l[2]) <= o
  BY <1>1, <1>3 DEF Tiled
<1>5. ASSUME NEW k \in DOMAIN live, k # l, k[1] = z
      PROVE  Apart(DataAddr(l), live[l], DataAddr(k), live[k])
  <2>1. /\ k = <<z, k[2]>> /\ k[2] \in DOMAIN c /\ live[k] \in Nat /\ k[2] \in Nat
        /\ k[2] + 8 + live[k] <= End(c, k[2]) /\ DataAddr(k) = a + k[2] + 8
    BY <1>5, LiveChunk
  <2>2. k[2] # l[2]
    BY <1>1, <1>5, <2>1
  <2>3. End(c, k[2]) <= l[2] \/ End(c, l[2]) <= k[2]
    BY <1>4, <2>1, <2>2
  <2>4. End(c, k[2]) \in Nat /\ End(c, l[2]) \in Nat
    BY <1>1, <1>3, <2>1
  <2>. HIDE DEF a, c
  <2>. QED
    BY <1>1, <1>2, <2>1, <2>3, <2>4 DEF Apart
<1>6. ASSUME NEW o \in DOMAIN c \cup {0} PROVE Apart(DataAddr(l), live[l], a + o, 8)
  <2>1. End(c, l[2]) \in Nat
    BY <1>1, <1>3
  <2>2. CASE o = 0 \/ o = l[2]
    <3>. HIDE DEF a, c
    <3>. QED
      BY <1>1, <1>2, <2>2 DEF Apart
  <2>3. CASE o \in DOMAIN c /\ o # l[2]
    <3>1. End(c, o) <= l[2] \/ End(c, l[2]) <= o
      BY <1>4, <2>3
    <3>2. o \in Nat /\ End(c, o) \in Nat /\ o + 8 <= End(c, o)
      BY <1>3, <2>3
    <3>. HIDE DEF a, c
    <3>. QED
      BY <1>1, <1>2, <2>1, <3>1, <3>2 DEF Apart
  <2>. QED
    BY <2>2, <2>3
<1>. QED
  BY <1>5, <1>6

(* Chunks and pages are as well aligned as a caller may ask. *)
LEMMA BlockAligned ==
  ASSUME KallocInv, pc # "panicked", BlocksInv, NEW p \in DOMAIN blocks
  PROVE  p % blocks[p].align = 0
<1>. DEFINE a == blocks[p].align
<1>1. /\ a \in Nat \ {0} /\ PAGE_SIZE % a = 0 /\ (a <= 8 => 8 % a = 0) /\ p \in Nat
      /\ blocks[p].size \in Nat \ {0}
  BY DEF BlocksInv, BlockOK, AlignOK
<1>2. CASE Small(p)
  <2>1. PICK l \in DOMAIN live : p = DataAddr(l)
    BY <1>2 DEF BlocksInv
  <2>2. /\ l[1] \in Nat /\ l[2] \in DOMAIN zones[l[1]].chunk /\ Tiled(zones[l[1]].chunk)
        /\ p = PageAddr(l[1]) + l[2] + 8
    BY <2>1, LiveChunk
  <2>3. l[2] \in Nat /\ l[2] % 8 = 0
    BY <2>2, ChunkNumbers
  <2>4. p = l[1] * PAGE_SIZE + l[2] + 8
    BY <2>2 DEF PageAddr
  <2>5. PICK j \in Nat : PAGE_SIZE = 8 * j
    <3>1. PAGE_SIZE \div 8 \in Nat /\ PAGE_SIZE = 8 * (PAGE_SIZE \div 8)
      BY PageSize
    <3>. QED
      BY <3>1
  <2>6. PICK i \in Nat : l[2] = 8 * i
    <3>1. l[2] \div 8 \in Nat /\ l[2] = 8 * (l[2] \div 8)
      BY <2>3
    <3>. QED
      BY <3>1
  <2>7. p = (l[1] * j + i + 1) * 8 /\ l[1] * j + i + 1 \in Nat
    BY <2>2, <2>4, <2>5, <2>6
  <2>8. a <= 8
    BY <1>1, <1>2, PageCounts DEF Small
  <2>. QED
    BY <1>1, <2>7, <2>8, Divides
<1>3. CASE ~Small(p)
  <2>1. p = PageOf(p) * PAGE_SIZE /\ PageOf(p) \in Nat
    BY <1>1, <1>3, PageSize DEF BlocksInv, PageAddr, PageOf
  <2>. QED
    BY <1>1, <2>1, PageSize, Divides
<1>. QED
  BY <1>2, <1>3

(* The blocks are apart if they are chunks and runs of pages. *)
LEMMA BlocksInvApart ==
  ASSUME KallocInv, pc # "panicked", BlocksInv
  PROVE  BlocksApart
<1>1. ZonesInv /\ PoolInv /\ PagesInv /\ LiveInv
  BY DEF KallocInv
<1>2. Pages \subseteq Nat
  BY HeadIsLowest
<1>. SUFFICES ASSUME NEW p \in DOMAIN blocks
     PROVE  /\ p % blocks[p].align = 0
            /\ \A q \in DOMAIN blocks \ {p} : Apart(p, blocks[p].size, q, blocks[q].size)
            /\ \A z \in DOMAIN zones : \A o \in DOMAIN zones[z].chunk \cup {0} :
                 Apart(p, blocks[p].size, PageAddr(z) + o, HEADER_SIZE)
            /\ \A f \in avail : Apart(p, blocks[p].size, PageAddr(f), PAGE_SIZE)
  BY DEF BlocksApart
<1>3. p % blocks[p].align = 0
  BY BlockAligned
<1>5. ASSUME NEW z \in DOMAIN zones, NEW o \in DOMAIN zones[z].chunk \cup {0}
      PROVE  PageAddr(z) + o \in Nat /\ z \in Nat /\ InPages(PageAddr(z) + o, 8, z, 1)
  <2>1. z \in Nat /\ PageAddr(z) \in Nat /\ Tiled(zones[z].chunk)
    BY <1>1, <1>2, PageSize DEF ZonesInv, PageAddr
  <2>2. o \in Nat /\ o + 8 <= PAGE_SIZE
    <3>1. CASE o = 0
      BY <3>1, PageSize
    <3>2. CASE o \in DOMAIN zones[z].chunk
      <4>. DEFINE c == zones[z].chunk
      <4>1. o \in Nat /\ c[o].size \in Nat /\ End(c, o) <= PAGE_SIZE
        BY <2>1, <3>2, ChunkNumbers
      <4>2. End(c, o) = o + 8 + c[o].size
        BY DEF End
      <4>. QED
        BY <4>1, <4>2, PageSize
    <3>. QED
      BY <3>1, <3>2
  <2>. QED
    BY <2>1, <2>2, PageSize DEF InPages
<1>6. ASSUME NEW f \in avail
      PROVE  PageAddr(f) \in Nat /\ f \in Nat /\ InPages(PageAddr(f), PAGE_SIZE, f, 1)
  <2>1. f \in Nat /\ PageAddr(f) \in Nat
    BY <1>1, <1>2, PageSize DEF PoolInv, PageAddr
  <2>. QED
    BY <2>1, PageSize DEF InPages
<1>7. CASE Small(p)
  <2>. DEFINE l == ChunkOf(p)
              s == blocks[p].size
  <2>1. /\ l \in DOMAIN live /\ DataAddr(l) = p /\ live[l] = s
        /\ p \in Nat /\ s \in Nat /\ InPages(p, s, l[1], 1)
    BY <1>7, SmallBlock
  <2>2. l[1] \in DOMAIN zones /\ l[1] \in Nat
    BY <2>1, LiveChunk
  <2>. HIDE DEF l, s
  <2>3. ASSUME NEW q \in Nat, NEW n \in Nat, NEW g \in Nat, NEW m \in Nat \ {0},
               InPages(q, n, g, m), l[1] \notin Run(g, m)
        PROVE  Apart(p, s, q, n)
    <3>1. l[1] + 1 <= g \/ g + m <= l[1]
      BY <2>2, <2>3 DEF Run
    <3>. QED
      BY <2>1, <2>2, <2>3, <3>1, PagesApart
  <2>4. ASSUME NEW q \in DOMAIN blocks \ {p} PROVE Apart(p, s, q, blocks[q].size)
    <3>1. CASE ~Small(q)
      <4>1. PICK n \in Nat \ {0} :
              /\ q \in Nat /\ PageOf(q) \in Nat /\ blocks[q].size \in Nat
              /\ Run(PageOf(q), n) \subseteq others
              /\ InPages(q, blocks[q].size, PageOf(q), n)
        BY <1>1, <3>1, LargeBlock
      <4>2. l[1] \notin others
        BY <1>1, <2>2 DEF PagesInv
      <4>. QED
        BY <2>3, <4>1, <4>2
    <3>2. CASE Small(q)
      <4>1. PICK k \in DOMAIN live :
              /\ DataAddr(k) = q /\ live[k] = blocks[q].size /\ q \in Nat
              /\ blocks[q].size \in Nat /\ InPages(q, blocks[q].size, k[1], 1)
        BY <3>2, SmallBlock
      <4>2. k # l
        BY <2>1, <4>1
      <4>3. CASE k[1] = l[1]
        BY <2>1, <4>1, <4>2, <4>3, ChunksApart
      <4>4. CASE k[1] # l[1]
        <5>1. k[1] \in Nat
          BY <4>1, LiveChunk
        <5>2. l[1] \notin Run(k[1], 1)
          BY <4>4, <5>1, OnePage
        <5>. QED
          BY <2>3, <4>1, <5>1, <5>2
      <4>. QED
        BY <4>3, <4>4
    <3>. QED
      BY <3>1, <3>2
  <2>5. ASSUME NEW z \in DOMAIN zones, NEW o \in DOMAIN zones[z].chunk \cup {0}
        PROVE  Apart(p, s, PageAddr(z) + o, 8)
    <3>1. CASE z = l[1]
      BY <2>1, <2>5, <3>1, ChunksApart
    <3>2. CASE z # l[1]
      BY <1>5, <2>3, <3>2, OnePage
    <3>. QED
      BY <3>1, <3>2
  <2>6. ASSUME NEW f \in avail PROVE Apart(p, s, PageAddr(f), PAGE_SIZE)
    <3>1. f # l[1]
      BY <1>1, <2>2 DEF PagesInv
    <3>. QED
      BY <1>6, <2>3, <3>1, OnePage, PageSize
  <2>. QED
    BY <1>3, <2>4, <2>5, <2>6 DEF s
<1>8. CASE ~Small(p)
  <2>. DEFINE s == blocks[p].size
              n == PageCount(s, blocks[p].align)
  <2>1. /\ p \in Nat /\ s \in Nat /\ PageOf(p) \in Nat /\ n \in Nat \ {0}
        /\ PagesOf(p) = Run(PageOf(p), n) /\ PagesOf(p) \subseteq others
        /\ InPages(p, s, PageOf(p), n)
    BY <1>1, <1>8, LargeBlock
  <2>. HIDE DEF s, n
  <2>2. ASSUME NEW q \in Nat, NEW k \in Nat, NEW g \in Nat, NEW m \in Nat \ {0},
               InPages(q, k, g, m), PagesOf(p) \cap Run(g, m) = {}
        PROVE  Apart(p, s, q, k)
    BY <2>1, <2>2, RunsApart, PagesApart
  <2>3. ASSUME NEW q \in DOMAIN blocks \ {p} PROVE Apart(p, s, q, blocks[q].size)
    <3>1. CASE ~Small(q)
      <4>1. PICK m \in Nat \ {0} :
              /\ q \in Nat /\ PageOf(q) \in Nat /\ blocks[q].size \in Nat
              /\ PagesOf(q) = Run(PageOf(q), m)
              /\ InPages(q, blocks[q].size, PageOf(q), m)
        BY <1>1, <3>1, LargeBlock
      <4>2. PagesOf(p) \cap PagesOf(q) = {}
        BY <1>8, <3>1 DEF BlocksInv
      <4>. QED
        BY <2>2, <4>1, <4>2
    <3>2. CASE Small(q)
      <4>1. PICK k \in DOMAIN live :
              /\ q \in Nat /\ blocks[q].size \in Nat /\ InPages(q, blocks[q].size, k[1], 1)
        BY <3>2, SmallBlock
      <4>2. k[1] \in DOMAIN zones /\ k[1] \in Nat
        BY <4>1, LiveChunk
      <4>3. PagesOf(p) \cap Run(k[1], 1) = {}
        BY <1>1, <2>1, <4>2, OnePage DEF PagesInv
      <4>. QED
        BY <2>2, <4>1, <4>2, <4>3
    <3>. QED
      BY <3>1, <3>2
  <2>4. ASSUME NEW z \in DOMAIN zones, NEW o \in DOMAIN zones[z].chunk \cup {0}
        PROVE  Apart(p, s, PageAddr(z) + o, 8)
    <3>1. PageAddr(z) + o \in Nat /\ z \in Nat /\ InPages(PageAddr(z) + o, 8, z, 1)
      BY <1>5
    <3>2. PagesOf(p) \cap Run(z, 1) = {}
      BY <1>1, <2>1, <3>1, OnePage DEF PagesInv
    <3>. QED
      BY <2>2, <3>1, <3>2
  <2>5. ASSUME NEW f \in avail PROVE Apart(p, s, PageAddr(f), PAGE_SIZE)
    <3>1. PageAddr(f) \in Nat /\ f \in Nat /\ InPages(PageAddr(f), PAGE_SIZE, f, 1)
      BY <1>6
    <3>2. PagesOf(p) \cap Run(f, 1) = {}
      BY <1>1, <2>1, <3>1, OnePage DEF PagesInv
    <3>. QED
      BY <2>2, <3>1, <3>2, PageSize
  <2>. QED
    BY <1>3, <2>3, <2>4, <2>5 DEF s
<1>. QED
  BY <1>7, <1>8

-----------------------------------------------------------------------------
(* What the steps change. *)

(* Nothing moves and no block is new. *)
LEMMA ApartKept ==
  ASSUME BlocksApart, UNCHANGED <<zones, avail>>, DOMAIN blocks' \subseteq DOMAIN blocks,
         \A q \in DOMAIN blocks' : blocks'[q] = blocks[q]
  PROVE  BlocksApart'
BY DEF BlocksApart

(* Kalloc gets new chunks, nothing else. *)
LEMMA BlocksKept ==
  ASSUME BlocksInv, UNCHANGED <<blocks, others>>, DOMAIN live \subseteq DOMAIN live',
         \A l \in DOMAIN live : live'[l] = live[l]
  PROVE  BlocksInv'
<1>1. \A q : (Small(q)' <=> Small(q)) /\ PagesOf(q)' = PagesOf(q)
  BY DEF Small, PagesOf
<1>. QED
  BY <1>1 DEF BlocksInv

(* Pages change hands between the pool and the large blocks. *)
LEMMA PoolTransfer ==
  ASSUME KallocInv, pc = "idle", result # "oom",
         UNCHANGED <<zones, junk, live, pc, req, size, zone, curr, head, result>>,
         avail' \cup others' = avail \cup others, avail' \cap others' = {}, junk \subseteq avail'
  PROVE  KallocInv'
<1>1. ZonesInv /\ PoolInv /\ PagesInv /\ LiveInv /\ ScanInv
  BY DEF KallocInv
<1>2. ZonesInv' /\ ScanInv'
  BY <1>1 DEF ZonesInv, ScanInv
<1>3. PoolInv' /\ PagesInv'
  BY <1>1 DEF PoolInv, PagesInv
<1>4. LiveInv'
  BY <1>1 DEF LiveInv, LiveIn
<1>. QED
  BY <1>2, <1>3, <1>4 DEF KallocInv, PanicOnlyFromJunk

(* A new block. *)
LEMMA ObtainEffect ==
  ASSUME NEW p, NEW c, Obtain(p, c), p \notin DOMAIN blocks, CallOK(c)
  PROVE  /\ DOMAIN blocks' = DOMAIN blocks \cup {p}
         /\ BlockOK(blocks'[p]) /\ blocks'[p].size = c.size /\ blocks'[p].align = c.align
         /\ Small(p)' <=> PageCount(c.size, c.align) = 0
         /\ PagesOf(p)' = Run(PageOf(p), PageCount(c.size, c.align))
         /\ \A q \in DOMAIN blocks : /\ blocks'[q] = blocks[q] /\ (Small(q)' <=> Small(q))
                                     /\ PagesOf(q)' = PagesOf(q)
         /\ \/ c.kind = "realloc" /\ gpc' = "copy" /\ call' = c /\ out' = p
            \/ gpc' = "ready"
<1>. DEFINE b == [size |-> c.size, align |-> c.align]
<1>1. DOMAIN blocks' = DOMAIN blocks \cup {p} /\ blocks'[p] = b
      /\ \A q \in DOMAIN blocks : blocks'[q] = blocks[q]
  BY DEF Obtain
<1>2. b.size = c.size /\ b.align = c.align
  OBVIOUS
<1>. HIDE DEF b
<1>4. BlockOK(b)
  BY <1>2 DEF BlockOK, CallOK
<1>5. Small(p)' <=> PageCount(c.size, c.align) = 0
  BY <1>1, <1>2 DEF Small
<1>6. PagesOf(p)' = Run(PageOf(p), PageCount(c.size, c.align))
  BY <1>1, <1>2 DEF PagesOf
<1>7. \A q \in DOMAIN blocks : (Small(q)' <=> Small(q)) /\ PagesOf(q)' = PagesOf(q)
  BY <1>1 DEF Small, PagesOf
<1>8. \/ c.kind = "realloc" /\ gpc' = "copy" /\ call' = c /\ out' = p
      \/ gpc' = "ready"
  BY DEF Obtain
<1>. QED
  BY <1>1, <1>2, <1>4, <1>5, <1>6, <1>7, <1>8

(* An address without a block, as far as the chunks and pages tell. *)
LEMMA NewAddress ==
  ASSUME KallocInv, pc # "panicked", BlocksInv
  PROVE  /\ \A g \in avail : PageAddr(g) \notin DOMAIN blocks
         /\ \A z \in Nat, o \in Nat :
              o + 8 < PAGE_SIZE /\ <<z, o>> \notin DOMAIN live =>
                DataAddr(<<z, o>>) \notin DOMAIN blocks
<1>1. PoolInv /\ PagesInv
  BY DEF KallocInv
<1>2. ASSUME NEW g \in avail, PageAddr(g) \in DOMAIN blocks PROVE FALSE
  <2>. DEFINE p == PageAddr(g)
  <2>1. g \in Nat /\ 0 \in 0..(PAGE_SIZE - 1) /\ p + 0 = p
    BY <1>1, HeadIsLowest, PageSize DEF PoolInv, PageAddr
  <2>2. p % PAGE_SIZE = 0 /\ PageOf(p) = g
    BY <2>1, ByteOfPage
  <2>3. ~Small(p)
    BY <1>2, <2>2, SmallBlock
  <2>4. PICK n \in Nat \ {0} : PagesOf(p) = Run(PageOf(p), n) /\ PagesOf(p) \subseteq others
    BY <1>1, <1>2, <2>3, LargeBlock
  <2>5. g \in others
    BY <2>1, <2>2, <2>4 DEF Run
  <2>. QED
    BY <1>1, <2>5 DEF PagesInv
<1>3. ASSUME NEW z \in Nat, NEW o \in Nat, o + 8 < PAGE_SIZE, <<z, o>> \notin DOMAIN live,
             DataAddr(<<z, o>>) \in DOMAIN blocks
      PROVE  FALSE
  <2>1. PICK p \in DOMAIN blocks : p = DataAddr(<<z, o>>)
    BY <1>3
  <2>2. p % PAGE_SIZE = o + 8 /\ ChunkOf(p) = <<z, o>>
    BY <1>3, <2>1, ChunkAddress
  <2>3. p % PAGE_SIZE # 0
    BY <2>2
  <2>4. Small(p)
    BY <1>1, <2>3, LargeBlock
  <2>. QED
    BY <1>3, <2>2, <2>4, SmallBlock
<1>. QED
  BY <1>2, <1>3

-----------------------------------------------------------------------------
(* Galloc::alloc *)

(* A panic on the arguments, or without memory. *)
LEMMA PanicsInv ==
  ASSUME GallocInv, gpc # "panicked", pc # "panicked", Panics, UNCHANGED vars
  PROVE  GallocInv'
<1>1. gpc' = "panicked" /\ UNCHANGED <<blocks, zones, avail>>
  BY DEF Panics, vars
<1>2. BlocksApart
  BY BlocksInvApart DEF GallocInv
<1>3. BlocksApart'
  BY <1>1, <1>2, ApartKept
<1>. QED
  BY <1>1, <1>3 DEF GallocInv, GrowthFits

(* A small request goes to Kalloc. *)
LEMMA ToKallocInv ==
  ASSUME GallocInv, gpc = "ready", pc = "idle", NEW c, CallOK(c),
         PageCount(c.size, c.align) = 0, alloc(c.size),
         gpc' = "small", call' = c, UNCHANGED <<blocks, out>>
  PROVE  GallocInv'
<1>1. KallocInv /\ GCallInv /\ BlocksInv
  BY DEF GallocInv
<1>2. c.size \in 1..MAX_CHUNK_SIZE
  <2>1. c.size \in Nat \ {0} /\ c.align \in Nat
    BY DEF CallOK, AlignOK
  <2>. QED
    BY <2>1, PageCounts, PageSize
<1>3. KallocInv'
  BY <1>1, <1>2, AllocInv
<1>4. pc' = "scan" /\ req' = c.size /\ UNCHANGED <<zones, avail, junk, others, live>>
  BY DEF alloc, poolVars
<1>5. BlocksInv'
  BY <1>1, <1>4, BlocksKept
<1>6. LiveCovered'
  BY <1>1, <1>4 DEF GCallInv, LiveCovered
<1>7. CallOK(call)'
  BY DEF CallOK
<1>8. GCallInv'
  BY <1>4, <1>6, <1>7 DEF GCallInv
<1>. QED
  BY <1>3, <1>4, <1>5, <1>8 DEF GallocInv, GrowthFits

(* A large request is served with the pages at the front of the pool. *)
LEMMA ToPagesInv ==
  ASSUME GallocInv, gpc = "ready", pc = "idle", NEW c, CallOK(c),
         NEW n \in Nat \ {0}, n = PageCount(c.size, c.align), RunServed(n),
         NEW p, p = Lowest(avail),
         avail' = avail \ Run(p, n), others' = others \cup Run(p, n),
         Obtain(PageAddr(p), c),
         UNCHANGED <<zones, junk, live, pc, callVars, scanVars, result>>
  PROVE  GallocInv'
<1>. DEFINE a == PageAddr(p)
<1>1. KallocInv /\ GCallInv /\ BlocksInv /\ PoolInv /\ PagesInv /\ result # "oom" /\ LiveCovered
  BY DEF GallocInv, KallocInv, GCallInv
<1>2. p \in avail /\ p \in Nat
  BY <1>1, LowestAvail, HeadIsLowest DEF RunServed, PoolInv
<1>3. Run(p, n) \subseteq avail /\ Run(p, n) \cap junk = {} /\ p \in Run(p, n)
  <2>1. CASE n = 1
    BY <1>2, <2>1, OnePage DEF RunServed
  <2>2. CASE n > 1
    <3>1. Run(p, n + 1) \subseteq avail
      BY <2>2 DEF RunServed
    <3>2. Run(p, n) \subseteq Run(p, n + 1) /\ p \in Run(p, n)
      BY <1>2 DEF Run
    <3>. QED
      BY <3>1, <3>2 DEF RunServed
  <2>. QED
    BY <2>1, <2>2
<1>4. KallocInv'
  <2>1. UNCHANGED <<zones, junk, live, pc, req, size, zone, curr, head, result>>
    BY DEF callVars, scanVars
  <2>2. /\ avail' \cup others' = avail \cup others /\ avail' \cap others' = {}
        /\ junk \subseteq avail'
    BY <1>1, <1>3 DEF PagesInv, PoolInv
  <2>. QED
    BY <1>1, <2>1, <2>2, PoolTransfer
<1>5. /\ a \in Nat /\ PageOf(a) = p /\ a = PageAddr(PageOf(a))
  <2>1. 0 \in 0..(PAGE_SIZE - 1) /\ a + 0 = a
    BY <1>2, PageSize DEF PageAddr
  <2>. QED
    BY <1>2, <2>1, ByteOfPage
<1>6. a \notin DOMAIN blocks
  BY <1>1, <1>2, NewAddress
<1>. HIDE DEF a
<1>7. /\ DOMAIN blocks' = DOMAIN blocks \cup {a}
      /\ BlockOK(blocks'[a]) /\ blocks'[a].size = c.size
      /\ ~Small(a)'
      /\ PagesOf(a)' = Run(PageOf(a), n)
      /\ \A q \in DOMAIN blocks : /\ blocks'[q] = blocks[q] /\ (Small(q)' <=> Small(q))
                                  /\ PagesOf(q)' = PagesOf(q)
      /\ \/ c.kind = "realloc" /\ gpc' = "copy" /\ call' = c /\ out' = a
         \/ gpc' = "ready"
  <2>1. Obtain(a, c)
    BY DEF a
  <2>. QED
    BY <1>6, <2>1, ObtainEffect
<1>8. BlocksInv'
  <2>1. (DOMAIN blocks \subseteq Nat)' /\ (\A q \in DOMAIN blocks : BlockOK(blocks[q]))'
    BY <1>1, <1>5, <1>7 DEF BlocksInv
  <2>2. (\A q \in DOMAIN blocks :
           Small(q) => \E l \in DOMAIN live : q = DataAddr(l) /\ live[l] = blocks[q].size)'
    BY <1>1, <1>7 DEF BlocksInv
  <2>3. (\A q \in DOMAIN blocks :
           ~Small(q) => q = PageAddr(PageOf(q)) /\ PagesOf(q) \subseteq others)'
    BY <1>1, <1>5, <1>7 DEF BlocksInv
  <2>4. (\A q, r \in DOMAIN blocks :
           q # r /\ ~Small(q) /\ ~Small(r) => PagesOf(q) \cap PagesOf(r) = {})'
    <3>1. \A q \in DOMAIN blocks : ~Small(q) => PagesOf(q) \cap Run(p, n) = {}
      BY <1>1, <1>3 DEF BlocksInv, PagesInv
    <3>. QED
      BY <1>1, <1>5, <1>7, <3>1 DEF BlocksInv
  <2>5. (\A g \in others : \E q \in DOMAIN blocks : ~Small(q) /\ g \in PagesOf(q))'
    BY <1>1, <1>5, <1>7 DEF BlocksInv
  <2>. QED
    BY <2>1, <2>2, <2>3, <2>4, <2>5 DEF BlocksInv
<1>9. LiveCovered'
  BY <1>1, <1>7 DEF LiveCovered
<1>10. GCallInv'
  BY <1>1, <1>6, <1>7, <1>9 DEF GCallInv, CallOK
<1>. QED
  BY <1>4, <1>7, <1>8, <1>10 DEF GallocInv, GrowthFits

(* Galloc::alloc: a refusal, a large block, or a call of Kalloc::alloc. *)
LEMMA AllocateInv ==
  ASSUME GallocInv, NEW c, c.size \in Nat, AlignOK(c.align),
         c.kind = "realloc" => c.old \in DOMAIN blocks, Allocate(c)
  PROVE  GallocInv'
<1>. DEFINE n == PageCount(c.size, c.align)
<1>1. gpc = "ready" /\ pc = "idle"
  BY DEF Allocate
<1>2. CASE Panics /\ UNCHANGED vars
  BY <1>1, <1>2, PanicsInv
<1>3. ASSUME ~Rejected(c.size, c.align) PROVE CallOK(c) /\ n \in Nat
  <2>1. CallOK(c)
    BY <1>3, PageSize DEF Rejected, CallOK, AlignOK
  <2>. QED
    BY <2>1, PageCounts DEF CallOK, AlignOK
<1>4. CASE /\ ~Rejected(c.size, c.align) /\ n = 0
           /\ alloc(c.size) /\ gpc' = "small" /\ call' = c /\ UNCHANGED <<blocks, out>>
  BY <1>1, <1>3, <1>4, ToKallocInv
<1>5. CASE /\ ~Rejected(c.size, c.align) /\ n > 0 /\ RunServed(n)
           /\ avail' = avail \ Run(Lowest(avail), n)
           /\ others' = others \cup Run(Lowest(avail), n)
           /\ Obtain(PageAddr(Lowest(avail)), c)
           /\ UNCHANGED <<zones, junk, live, pc, callVars, scanVars, result>>
  <2>1. CallOK(c) /\ n \in Nat \ {0}
    BY <1>3, <1>5
  <2>2. PICK p : p = Lowest(avail)
    OBVIOUS
  <2>3. PICK m \in Nat \ {0} : m = n
    BY <2>1
  <2>. HIDE DEF n
  <2>4. /\ RunServed(m) /\ avail' = avail \ Run(p, m) /\ others' = others \cup Run(p, m)
        /\ Obtain(PageAddr(p), c)
        /\ UNCHANGED <<zones, junk, live, pc, callVars, scanVars, result>>
    BY <1>5, <2>2, <2>3
  <2>. QED
    BY <1>1, <2>1, <2>2, <2>3, <2>4, ToPagesInv DEF n
<1>. QED
  BY <1>2, <1>4, <1>5 DEF Allocate

(* What a step of Kalloc does for the call: it goes on, or ends without a  *)
(* chunk, or ends with a chunk that was not in use.                        *)
NoChunk == live' = live /\ ~(pc' = "idle" /\ result' = "ok")

NewChunk(z, o) ==
  /\ <<z, o>> \notin DOMAIN live /\ o + 8 < PAGE_SIZE
  /\ DOMAIN live' = DOMAIN live \cup {<<z, o>>} /\ live'[<<z, o>>] = req
  /\ \A l \in DOMAIN live : live'[l] = live[l]
  /\ pc' = "idle" /\ result' = "ok"

(* What a step of Kalloc::alloc changes: nothing its callers hold, or it ends *)
(* with one chunk more in use.                                             *)
LEMMA WorkEffect ==
  ASSUME KallocInv, Work
  PROVE  /\ pc \in {"scan", "grow"} /\ UNCHANGED <<others, req>>
         /\ pc' = "panicked" => UNCHANGED <<zones, avail>>
         /\ NoChunk \/ \E z \in Nat, o \in Nat : NewChunk(z, o)
<1>1. pc \in {"scan", "grow"} /\ UNCHANGED <<others, req>>
  BY DEF Work, ScanTake, ScanOn, ScanNone, Grow, GrowFails, ScanLast, poolVars, callVars
<1>2. CASE ScanTake
  <2>1. /\ pc = "scan" /\ curr < PAGE_SIZE /\ head.size >= size /\ ~head.used
    BY <1>2 DEF ScanTake, Fits
  <2>2. /\ ZonesInv /\ LiveInv /\ zone = Head /\ Head \in DOMAIN zones
        /\ curr \in DOMAIN zones[Head].chunk /\ head = zones[Head].chunk[curr]
        /\ Tiled(zones[Head].chunk) /\ curr \in Nat /\ head.size \in Nat
        /\ size \in Nat /\ req \in Nat \ {0} /\ req <= size
        /\ Behind <= PAGE_SIZE
    BY <2>1, ScanAt
  <2>3. ~(zones[zone].refs + 1 > MAX_REFS)
    <3>1. zones[Head].refs < MAX_REFS /\ zones[Head].refs \in Nat
      BY <2>2, RefsBound DEF ZonesInv, ZoneRecords
    <3>. QED
      BY <2>2, <3>1 DEF MAX_REFS
  <2>4. /\ live' = [l \in DOMAIN live \cup {<<zone, curr>>} |->
                      IF l = <<zone, curr>> THEN req ELSE live[l]]
        /\ pc' = "idle" /\ result' = "ok"
    BY <1>2, <2>3 DEF ScanTake
  <2>5. <<Head, curr>> \notin DOMAIN live
    BY <2>1, <2>2 DEF LiveInv
  <2>6. curr + 8 < PAGE_SIZE
    BY <2>1, <2>2, PageSize DEF Behind
  <2>7. Head \in Nat
    BY HeadIsLowest
  <2>8. NewChunk(Head, curr)
    BY <2>2, <2>4, <2>5, <2>6 DEF NewChunk
  <2>. QED
    BY <1>1, <2>2, <2>4, <2>7, <2>8
<1>3. CASE Grow
  <2>1. PICK z : z = Lowest(avail)
    OBVIOUS
  <2>2. /\ avail # {} /\ pc = "grow" /\ pc' = "idle" /\ result' = "ok"
        /\ live' = [l \in DOMAIN live \cup {<<z, 8>>} |->
                      IF l = <<z, 8>> THEN req ELSE live[l]]
    BY <1>3, <2>1 DEF Grow
  <2>3. LiveInv /\ PoolInv /\ PagesInv
    BY <2>2 DEF KallocInv
  <2>4. z \in avail /\ z \notin DOMAIN zones /\ z \in Nat
    BY <2>1, <2>2, <2>3, LowestAvail, HeadIsLowest DEF PagesInv, PoolInv
  <2>5. <<z, 8>> \notin DOMAIN live
    BY <2>3, <2>4 DEF LiveInv
  <2>6. NewChunk(z, 8)
    BY <2>2, <2>5, PageSize DEF NewChunk
  <2>. QED
    BY <1>1, <2>2, <2>4, <2>6
<1>4. CASE ScanOn \/ ScanNone \/ GrowFails \/ \E look \in AdjacentLooks : ScanLast(look)
  <2>1. ScanInv
    BY DEF KallocInv
  <2>2. live' = live /\ (pc' = "panicked" => UNCHANGED <<zones, avail>>)
    BY <1>4 DEF ScanOn, ScanNone, GrowFails, ScanLast, poolVars
  <2>3. ~(pc' = "idle" /\ result' = "ok")
    <3>1. CASE ScanOn
      BY <3>1 DEF ScanOn
    <3>2. CASE ScanNone
      <4>1. result' = IF pc' = "idle" THEN "oom" ELSE "none"
        BY <3>2 DEF ScanNone
      <4>. QED
        BY <4>1
    <3>3. CASE GrowFails
      BY <3>3 DEF GrowFails
    <3>4. ASSUME NEW look \in AdjacentLooks, ScanLast(look) PROVE pc' # "idle"
      BY <3>4 DEF ScanLast
    <3>. QED
      BY <1>4, <3>1, <3>2, <3>3, <3>4
  <2>. QED
    BY <1>1, <2>2, <2>3 DEF NoChunk
<1>. QED
  BY <1>2, <1>3, <1>4 DEF Work

(* Such a step keeps the invariant of Galloc. *)
LEMMA SmallWorkInv ==
  ASSUME GallocInv, SmallWork
  PROVE  GallocInv'
<1>1. gpc = "small" /\ Work /\ UNCHANGED <<blocks, gpc, call, out>>
  BY DEF SmallWork, gvars
<1>2. KallocInv /\ GCallInv
  BY <1>1 DEF GallocInv
<1>3. /\ pc \in {"scan", "grow"} /\ UNCHANGED <<others, req>>
      /\ pc' = "panicked" => UNCHANGED <<zones, avail>>
      /\ NoChunk \/ \E z \in Nat, o \in Nat : NewChunk(z, o)
  BY <1>1, <1>2, WorkEffect
<1>4. KallocInv'
  BY <1>1, <1>2, KallocStep DEF Next
<1>5. BlocksInv /\ req = call.size /\ LiveCovered
  BY <1>1, <1>2, <1>3 DEF GallocInv, GCallInv
<1>6. BlocksApart
  BY <1>2, <1>3, <1>5, BlocksInvApart
<1>7. pc' = "panicked" => BlocksApart'
  BY <1>1, <1>3, <1>6, ApartKept
<1>8. CallOK(call)' /\ PageCount(call.size, call.align)' = 0
  BY <1>1, <1>2 DEF GCallInv, CallOK, PageCount
<1>9. CASE NoChunk
  <2>1. BlocksInv' /\ LiveCovered'
    BY <1>1, <1>3, <1>5, <1>9, BlocksKept DEF NoChunk, LiveCovered
  <2>2. GCallInv'
    BY <1>1, <1>3, <1>5, <1>8, <1>9, <2>1 DEF GCallInv, NoChunk
  <2>. QED
    BY <1>1, <1>4, <1>7, <2>1, <2>2 DEF GallocInv, GrowthFits
<1>10. ASSUME NEW z \in Nat, NEW o \in Nat, NewChunk(z, o) PROVE GallocInv'
  <2>1. /\ <<z, o>> \notin DOMAIN live /\ o + 8 < PAGE_SIZE
        /\ DOMAIN live' = DOMAIN live \cup {<<z, o>>} /\ live'[<<z, o>>] = req
        /\ \A l \in DOMAIN live : live'[l] = live[l]
        /\ pc' = "idle" /\ result' = "ok"
    BY <1>10 DEF NewChunk
  <2>2. DataAddr(<<z, o>>) \notin DOMAIN blocks
    BY <1>2, <1>3, <1>5, <2>1, NewAddress
  <2>3. BlocksInv'
    BY <1>1, <1>3, <1>5, <2>1, BlocksKept
  <2>4. LiveCoveredButOne'
    <3>1. \A l \in DOMAIN live' \ {<<z, o>>} : DataAddr(l) \in DOMAIN blocks
      BY <1>5, <2>1 DEF LiveCovered
    <3>. QED
      BY <1>1, <1>5, <2>1, <2>2, <3>1 DEF LiveCoveredButOne
  <2>5. GCallInv'
    BY <1>1, <1>8, <2>1, <2>4 DEF GCallInv
  <2>. QED
    BY <1>1, <1>4, <2>1, <2>3, <2>5 DEF GallocInv, GrowthFits
<1>. QED
  BY <1>3, <1>9, <1>10

(* The chunk becomes a block. *)
LEMMA SmallReturnsInv ==
  ASSUME GallocInv, SmallReturns
  PROVE  GallocInv'
<1>1. /\ gpc = "small" /\ pc = "idle" /\ result = "ok"
      /\ UNCHANGED <<zones, avail, junk, others, live, pc, req, size, zone, curr, head, result>>
  BY DEF SmallReturns, vars
<1>2. KallocInv /\ GCallInv /\ BlocksInv
  BY <1>1 DEF GallocInv
<1>3. CallOK(call) /\ PageCount(call.size, call.align) = 0 /\ LiveCoveredButOne
  BY <1>1, <1>2 DEF GCallInv
<1>4. PICK l \in DOMAIN live : /\ DataAddr(l) \notin DOMAIN blocks
                               /\ Obtain(DataAddr(l), call)
  BY DEF SmallReturns
<1>5. live[l] = call.size /\ \A k \in DOMAIN live \ {l} : DataAddr(k) \in DOMAIN blocks
  BY <1>3, <1>4 DEF LiveCoveredButOne
<1>6. PICK p : p = DataAddr(l)
  OBVIOUS
<1>7. PICK c : c = call
  OBVIOUS
<1>9. p \in Nat
  BY <1>1, <1>2, <1>6, LiveChunk
<1>10. /\ DOMAIN blocks' = DOMAIN blocks \cup {p}
       /\ BlockOK(blocks'[p]) /\ blocks'[p].size = c.size
       /\ Small(p)'
       /\ \A q \in DOMAIN blocks : /\ blocks'[q] = blocks[q] /\ (Small(q)' <=> Small(q))
                                   /\ PagesOf(q)' = PagesOf(q)
       /\ \/ c.kind = "realloc" /\ gpc' = "copy" /\ call' = c /\ out' = p
          \/ gpc' = "ready"
  <2>1. Obtain(p, c)
    BY <1>4, <1>6, <1>7, Zenon
  <2>2. p \notin DOMAIN blocks /\ CallOK(c)
    BY <1>3, <1>4, <1>6, <1>7
  <2>3. PageCount(c.size, c.align) = 0
    BY <1>3, <1>7
  <2>. QED
    BY <2>1, <2>2, <2>3, ObtainEffect
<1>11. BlocksInv'
  <2>1. (DOMAIN blocks \subseteq Nat)' /\ (\A q \in DOMAIN blocks : BlockOK(blocks[q]))'
    BY <1>2, <1>9, <1>10 DEF BlocksInv
  <2>2. (\A q \in DOMAIN blocks :
           Small(q) => \E k \in DOMAIN live : q = DataAddr(k) /\ live[k] = blocks[q].size)'
    BY <1>1, <1>2, <1>5, <1>6, <1>7, <1>10 DEF BlocksInv
  <2>3. (\A q \in DOMAIN blocks :
           ~Small(q) => q = PageAddr(PageOf(q)) /\ PagesOf(q) \subseteq others)'
    BY <1>1, <1>2, <1>10 DEF BlocksInv
  <2>4. (\A q, r \in DOMAIN blocks :
           q # r /\ ~Small(q) /\ ~Small(r) => PagesOf(q) \cap PagesOf(r) = {})'
    BY <1>2, <1>10 DEF BlocksInv
  <2>5. (\A g \in others : \E q \in DOMAIN blocks : ~Small(q) /\ g \in PagesOf(q))'
    BY <1>1, <1>2, <1>10 DEF BlocksInv
  <2>. QED
    BY <2>1, <2>2, <2>3, <2>4, <2>5 DEF BlocksInv
<1>12. LiveCovered'
  BY <1>1, <1>5, <1>6, <1>10 DEF LiveCovered
<1>13. GCallInv'
  BY <1>1, <1>3, <1>4, <1>6, <1>7, <1>10, <1>12 DEF GCallInv, CallOK
<1>14. KallocInv'
  BY <1>1, <1>2, KallocStutter DEF vars
<1>. QED
  BY <1>1, <1>10, <1>11, <1>13, <1>14 DEF GallocInv, GrowthFits

(* Galloc::alloc panics when Kalloc has no memory. *)
LEMMA SmallFailsInv ==
  ASSUME GallocInv, SmallFails
  PROVE  GallocInv'
BY PanicsInv DEF SmallFails

-----------------------------------------------------------------------------
(* Galloc::dealloc and the copy of realloc *)

(* A block is gone. *)
LEMMA BlockGone ==
  ASSUME NEW p, blocks' = [q \in DOMAIN blocks \ {p} |-> blocks[q]]
  PROVE  /\ DOMAIN blocks' = DOMAIN blocks \ {p}
         /\ \A q \in DOMAIN blocks \ {p} :
              /\ blocks'[q] = blocks[q] /\ (Small(q)' <=> Small(q)) /\ PagesOf(q)' = PagesOf(q)
<1>1. DOMAIN blocks' = DOMAIN blocks \ {p} /\ \A q \in DOMAIN blocks \ {p} : blocks'[q] = blocks[q]
  OBVIOUS
<1>. QED
  BY <1>1 DEF Small, PagesOf

(* The chunk of a small block goes back to Kalloc. *)
LEMMA ReleaseSmallInv ==
  ASSUME GallocInv, gpc \in {"ready", "copy"}, pc = "idle", NEW p \in DOMAIN blocks, Small(p),
         Release(p)
  PROVE  GallocInv'
<1>1. KallocInv /\ GCallInv /\ BlocksInv /\ LiveCovered
  BY DEF GallocInv, GCallInv
<1>2. PICK l : l = ChunkOf(p)
  OBVIOUS
<1>3. /\ l \in DOMAIN live /\ DataAddr(l) = p /\ l = <<l[1], l[2]>>
      /\ \A k \in DOMAIN live : ChunkOf(DataAddr(k)) = k
  BY <1>1, <1>2, SmallBlock, LiveChunk
<1>4. free(l[1], l[2]) /\ gpc' = "ready" /\ blocks' = [q \in DOMAIN blocks \ {p} |-> blocks[q]]
  BY <1>2 DEF Release, Small
<1>5. /\ DOMAIN blocks' = DOMAIN blocks \ {p}
      /\ \A q \in DOMAIN blocks \ {p} :
           /\ blocks'[q] = blocks[q] /\ (Small(q)' <=> Small(q)) /\ PagesOf(q)' = PagesOf(q)
  BY <1>4, BlockGone
<1>6. PICK z, o : z = l[1] /\ o = l[2]
  OBVIOUS
<1>7. free(z, o) /\ l = <<z, o>>
  BY <1>3, <1>4, <1>6
<1>8. /\ live' = [k \in DOMAIN live \ {l} |-> live[k]] /\ result' = "none" /\ others' = others
      /\ IF DecrementRefs(z) = 0 /\ z # Head THEN ReleaseZone(z, o) ELSE FreeInZone(z, o)
  BY <1>1, <1>7, FreeFinds
<1>9. KallocInv'
  BY <1>1, <1>7, FreeInZoneInv, ReleaseZoneInv
<1>10. pc' \in {"idle", "panicked"} /\ (pc' = "panicked" => UNCHANGED <<zones, avail>>)
  BY <1>8 DEF ReleaseZone, FreeInZone
<1>11. pc' = "panicked" => BlocksApart'
  <2>1. BlocksApart
    BY <1>1, BlocksInvApart
  <2>. QED
    BY <1>5, <1>10, <2>1, ApartKept
<1>12. BlocksInv'
  <2>1. (DOMAIN blocks \subseteq Nat)' /\ (\A q \in DOMAIN blocks : BlockOK(blocks[q]))'
    BY <1>1, <1>5 DEF BlocksInv
  <2>2. (\A q \in DOMAIN blocks :
           Small(q) => \E k \in DOMAIN live : q = DataAddr(k) /\ live[k] = blocks[q].size)'
    <3>. SUFFICES ASSUME NEW q \in DOMAIN blocks \ {p}, Small(q)
                 PROVE  \E k \in DOMAIN live' : q = DataAddr(k) /\ live'[k] = blocks[q].size
      BY <1>5
    <3>1. PICK k \in DOMAIN live : q = DataAddr(k) /\ live[k] = blocks[q].size
      BY <1>1 DEF BlocksInv
    <3>2. k # l
      BY <1>3, <3>1
    <3>. QED
      BY <1>8, <3>1, <3>2
  <2>3. (\A q \in DOMAIN blocks :
           ~Small(q) => q = PageAddr(PageOf(q)) /\ PagesOf(q) \subseteq others)'
    BY <1>1, <1>5, <1>8 DEF BlocksInv
  <2>4. (\A q, r \in DOMAIN blocks :
           q # r /\ ~Small(q) /\ ~Small(r) => PagesOf(q) \cap PagesOf(r) = {})'
    BY <1>1, <1>5 DEF BlocksInv
  <2>5. (\A g \in others : \E q \in DOMAIN blocks : ~Small(q) /\ g \in PagesOf(q))'
    BY <1>1, <1>5, <1>8 DEF BlocksInv
  <2>. QED
    BY <2>1, <2>2, <2>3, <2>4, <2>5 DEF BlocksInv
<1>13. LiveCovered'
  <2>. SUFFICES ASSUME NEW k \in DOMAIN live \ {l} PROVE DataAddr(k) \in DOMAIN blocks \ {p}
    BY <1>5, <1>8 DEF LiveCovered
  <2>1. DataAddr(k) # p
    BY <1>2, <1>3
  <2>. QED
    BY <1>1, <2>1 DEF LiveCovered
<1>14. GCallInv'
  BY <1>4, <1>8, <1>10, <1>13 DEF GCallInv
<1>. QED
  BY <1>4, <1>9, <1>11, <1>12, <1>14 DEF GallocInv, GrowthFits

(* The pages of a large block go back to the pool, and none of them to     *)
(* another block: dealloc works out the same run that alloc took.          *)
LEMMA ReleaseLargeInv ==
  ASSUME GallocInv, gpc \in {"ready", "copy"}, pc = "idle", NEW p \in DOMAIN blocks, ~Small(p),
         Release(p)
  PROVE  GallocInv'
<1>1. /\ KallocInv /\ GCallInv /\ BlocksInv /\ LiveCovered /\ PoolInv /\ PagesInv
      /\ result # "oom"
  BY DEF GallocInv, GCallInv, KallocInv
<1>2. /\ blocks' = [q \in DOMAIN blocks \ {p} |-> blocks[q]]
      /\ gpc' = IF PfreeFaults(PageOf(p)) THEN "panicked" ELSE "ready"
      /\ avail' = IF PfreeFaults(PageOf(p)) THEN avail ELSE avail \cup PagesOf(p)
      /\ others' = others \ PagesOf(p)
      /\ UNCHANGED <<zones, junk, live, pc, req, size, zone, curr, head, result>>
  BY DEF Release, Small, callVars, scanVars
<1>3. /\ DOMAIN blocks' = DOMAIN blocks \ {p}
      /\ \A q \in DOMAIN blocks \ {p} :
           /\ blocks'[q] = blocks[q] /\ (Small(q)' <=> Small(q)) /\ PagesOf(q)' = PagesOf(q)
  BY <1>2, BlockGone
<1>4. CASE PfreeFaults(PageOf(p))
  <2>1. BlocksApart
    BY <1>1, BlocksInvApart
  <2>2. BlocksApart'
    BY <1>2, <1>3, <1>4, <2>1, ApartKept
  <2>. QED
    BY <1>2, <1>4, <2>2 DEF GallocInv, GrowthFits
<1>5. CASE ~PfreeFaults(PageOf(p))
  <2>1. avail' = avail \cup PagesOf(p) /\ gpc' = "ready"
    BY <1>2, <1>5
  <2>2. PagesOf(p) \subseteq others /\ p % PAGE_SIZE = 0
    BY <1>1, LargeBlock
  <2>3. KallocInv'
    <3>1. /\ avail' \cup others' = avail \cup others /\ avail' \cap others' = {}
          /\ junk \subseteq avail'
      BY <1>1, <1>2, <2>1, <2>2 DEF PagesInv, PoolInv
    <3>. QED
      BY <1>1, <1>2, <3>1, PoolTransfer
  <2>4. BlocksInv'
    <3>1. (DOMAIN blocks \subseteq Nat)' /\ (\A q \in DOMAIN blocks : BlockOK(blocks[q]))'
      BY <1>1, <1>3 DEF BlocksInv
    <3>2. (\A q \in DOMAIN blocks :
             Small(q) => \E k \in DOMAIN live : q = DataAddr(k) /\ live[k] = blocks[q].size)'
      BY <1>1, <1>2, <1>3 DEF BlocksInv
    <3>3. (\A q \in DOMAIN blocks :
             ~Small(q) => q = PageAddr(PageOf(q)) /\ PagesOf(q) \subseteq others)'
      BY <1>1, <1>2, <1>3 DEF BlocksInv
    <3>4. (\A q, r \in DOMAIN blocks :
             q # r /\ ~Small(q) /\ ~Small(r) => PagesOf(q) \cap PagesOf(r) = {})'
      BY <1>1, <1>3 DEF BlocksInv
    <3>5. (\A g \in others : \E q \in DOMAIN blocks : ~Small(q) /\ g \in PagesOf(q))'
      <4>. SUFFICES ASSUME NEW g \in others, g \notin PagesOf(p)
                   PROVE  \E q \in DOMAIN blocks \ {p} : ~Small(q) /\ g \in PagesOf(q)
        BY <1>2, <1>3
      <4>. QED
        BY <1>1 DEF BlocksInv
    <3>. QED
      BY <3>1, <3>2, <3>3, <3>4, <3>5 DEF BlocksInv
  <2>5. LiveCovered'
    <3>1. ASSUME NEW k \in DOMAIN live PROVE DataAddr(k) # p
      <4>1. DataAddr(k) % PAGE_SIZE = k[2] + 8 /\ k[2] \in Nat
        BY <1>1, LiveChunk
      <4>2. DataAddr(k) % PAGE_SIZE # 0
        BY <4>1
      <4>. QED
        BY <2>2, <4>2
    <3>. QED
      BY <1>1, <1>2, <1>3, <3>1 DEF LiveCovered
  <2>6. GCallInv'
    BY <1>1, <1>2, <2>1, <2>5 DEF GCallInv
  <2>. QED
    BY <1>2, <2>1, <2>3, <2>4, <2>6 DEF GallocInv, GrowthFits
<1>. QED
  BY <1>4, <1>5

(* There is room in a block for what it was asked to hold. *)
LEMMA CapacityEnough ==
  ASSUME KallocInv, pc # "panicked", BlocksInv, NEW p \in DOMAIN blocks
  PROVE  Capacity(p) \in Nat /\ blocks[p].size \in Nat /\ blocks[p].size <= Capacity(p)
<1>. DEFINE n == PageCount(blocks[p].size, blocks[p].align)
<1>1. blocks[p].size \in Nat \ {0} /\ blocks[p].align \in Nat
  BY DEF BlocksInv, BlockOK, AlignOK
<1>2. CASE Small(p)
  <2>1. PICK l \in DOMAIN live : l = ChunkOf(p) /\ live[l] = blocks[p].size
    BY <1>2, SmallBlock
  <2>2. /\ live[l] <= zones[l[1]].chunk[l[2]].size /\ l[2] \in DOMAIN zones[l[1]].chunk
        /\ Tiled(zones[l[1]].chunk)
    BY LiveChunk
  <2>3. zones[l[1]].chunk[l[2]].size \in Nat
    BY <2>2, ChunkNumbers
  <2>4. Capacity(p) = zones[l[1]].chunk[l[2]].size
    BY <1>2, <2>1 DEF Capacity, Small
  <2>. QED
    BY <1>1, <2>1, <2>2, <2>3, <2>4
<1>3. CASE ~Small(p)
  <2>1. n \in Nat \ {0} /\ blocks[p].size <= n * PAGE_SIZE
    BY <1>1, <1>3, PageCounts DEF Small
  <2>2. Capacity(p) = n * PAGE_SIZE
    BY <1>3 DEF Capacity, Small
  <2>3. n * PAGE_SIZE \in Nat
    BY <2>1, PageSize
  <2>. QED
    BY <1>1, <2>1, <2>2, <2>3
<1>. QED
  BY <1>2, <1>3

(* The copy of realloc, and the dealloc of the old block behind it. *)
LEMMA CopyInv ==
  ASSUME GallocInv, Copy
  PROVE  GallocInv'
<1>1. gpc = "copy"
  BY DEF Copy
<1>2. /\ KallocInv /\ GCallInv /\ pc = "idle" /\ BlocksInv
      /\ call.old \in DOMAIN blocks /\ out \in DOMAIN blocks /\ blocks[out].size = call.size
  BY <1>1 DEF GallocInv, GCallInv
<1>3. CASE blocks[call.old].size > Capacity(out)
  <2>1. gpc' = "overrun" /\ UNCHANGED vars /\ UNCHANGED <<blocks, call, out>>
    BY <1>3 DEF Copy
  <2>2. UNCHANGED <<live, others, pc>>
    BY <2>1 DEF vars
  <2>3. KallocInv' /\ BlocksInv'
    BY <1>2, <2>1, <2>2, KallocStutter, BlocksKept
  <2>4. call.size < blocks[call.old].size
    <3>1. /\ Capacity(out) \in Nat /\ blocks[out].size \in Nat /\ blocks[out].size <= Capacity(out)
          /\ blocks[call.old].size \in Nat
      BY <1>2, CapacityEnough
    <3>. QED
      BY <1>2, <1>3, <3>1
  <2>5. GCallInv' /\ GrowthFits'
    BY <2>1, <2>4 DEF GCallInv, GrowthFits
  <2>. QED
    BY <1>2, <2>1, <2>2, <2>3, <2>5 DEF GallocInv
<1>4. CASE ~(blocks[call.old].size > Capacity(out))
  <2>1. PICK p : p = call.old
    OBVIOUS
  <2>2. Release(p) /\ p \in DOMAIN blocks
    BY <1>2, <1>4, <2>1 DEF Copy
  <2>. QED
    BY <1>1, <1>2, <2>2, ReleaseSmallInv, ReleaseLargeInv
<1>. QED
  BY <1>3, <1>4

(* A stuttering step. *)
LEMMA GallocStutter ==
  ASSUME GallocInv, UNCHANGED allVars
  PROVE  GallocInv'
<1>1. UNCHANGED vars /\ UNCHANGED <<blocks, gpc, call, out>>
  BY DEF allVars, gvars
<1>2. UNCHANGED <<zones, avail, others, live, pc, req, result>>
  BY <1>1 DEF vars
<1>3. GrowthFits' /\ (gpc = "panicked" \/ pc = "panicked" => BlocksApart)'
  BY <1>1, <1>2, ApartKept DEF GallocInv, GrowthFits
<1>4. KallocInv => KallocInv'
  BY <1>1, KallocStutter
<1>5. BlocksInv => BlocksInv'
  BY <1>1, <1>2, BlocksKept
<1>6. GCallInv => GCallInv'
  BY <1>1, <1>2 DEF GCallInv, LiveCovered, LiveCoveredButOne, CallOK
<1>. QED
  BY <1>1, <1>2, <1>3, <1>4, <1>5, <1>6 DEF GallocInv

(* Every step keeps the invariant. *)
LEMMA GallocStep ==
  ASSUME GallocInv, [GNext]_allVars
  PROVE  GallocInv'
<1>1. ASSUME NEW n \in Sizes, NEW align \in Aligns, Allocate(Layout("alloc", n, align, 0))
      PROVE  GallocInv'
  <2>1. PICK c : c = Layout("alloc", n, align, 0)
    OBVIOUS
  <2>2. c.size = n /\ c.align = align /\ c.kind = "alloc"
    BY <2>1 DEF Layout
  <2>3. n \in Nat /\ AlignOK(align)
    BY GallocAssumption DEF AlignOK
  <2>. QED
    BY <1>1, <2>1, <2>2, <2>3, AllocateInv
<1>2. ASSUME NEW p \in DOMAIN blocks, NEW n \in Sizes,
             Allocate(Layout("realloc", n, blocks[p].align, p))
      PROVE  GallocInv'
  <2>1. PICK c : c = Layout("realloc", n, blocks[p].align, p)
    OBVIOUS
  <2>2. c.size = n /\ c.align = blocks[p].align /\ c.kind = "realloc" /\ c.old = p
    BY <2>1 DEF Layout
  <2>3. gpc = "ready" /\ pc = "idle"
    BY <1>2 DEF Allocate
  <2>4. n \in Nat /\ AlignOK(blocks[p].align)
    BY <2>3, GallocAssumption DEF GallocInv, BlocksInv, BlockOK
  <2>. QED
    BY <1>2, <2>1, <2>2, <2>4, AllocateInv
<1>3. ASSUME NEW p \in DOMAIN blocks, dealloc(p) PROVE GallocInv'
  BY <1>3, ReleaseSmallInv, ReleaseLargeInv DEF dealloc
<1>4. CASE GWork
  BY <1>4, SmallWorkInv, SmallReturnsInv, SmallFailsInv, CopyInv DEF GWork
<1>5. CASE GStopped \/ UNCHANGED allVars
  BY <1>5, GallocStutter DEF GStopped
<1>. QED
  BY <1>1, <1>2, <1>3, <1>4, <1>5 DEF GNext

(* At the start there is no block. *)
LEMMA GallocInit == GInit => GallocInv
<1>. SUFFICES ASSUME GInit PROVE GallocInv
  OBVIOUS
<1>1. Init /\ DOMAIN blocks = {} /\ gpc = "ready"
  BY DEF GInit
<1>2. KallocInv
  BY <1>1, KallocInit
<1>3. others = {} /\ DOMAIN live = {} /\ pc = "idle" /\ result = "none"
  BY <1>1 DEF Init
<1>4. BlocksInv /\ GCallInv
  BY <1>1, <1>3 DEF BlocksInv, GCallInv, LiveCovered
<1>. QED
  BY <1>1, <1>2, <1>3, <1>4 DEF GallocInv, GrowthFits


(* The chunks and pages taken, between two calls, are those of the blocks. *)
LEMMA NothingLostInv == GallocInv => NothingLost
<1>. DEFINE large == {p \in DOMAIN blocks : p % PAGE_SIZE = 0}
            pages(p) == PageOf(p)..PageOf(p + blocks[p].size - 1)
<1>. SUFFICES ASSUME GallocInv, gpc = "ready", pc = "idle"
              PROVE  /\ {DataAddr(l) : l \in DOMAIN live} = DOMAIN blocks \ large
                     /\ others = UNION {pages(p) : p \in large}
  BY DEF NothingLost
<1>1. KallocInv /\ BlocksInv /\ LiveCovered /\ PoolInv
  BY DEF GallocInv, GCallInv, KallocInv
<1>2. \A p \in DOMAIN blocks : p \in large <=> ~Small(p)
  <2>1. ASSUME NEW p \in DOMAIN blocks, Small(p) PROVE p \notin large
    BY <1>1, <2>1, SmallBlock
  <2>2. ASSUME NEW p \in DOMAIN blocks, ~Small(p) PROVE p \in large
    BY <1>1, <2>2, LargeBlock
  <2>. QED
    BY <2>1, <2>2
<1>3. {DataAddr(l) : l \in DOMAIN live} = DOMAIN blocks \ large
  <2>1. ASSUME NEW l \in DOMAIN live PROVE DataAddr(l) \in DOMAIN blocks \ large
    <3>1. DataAddr(l) % PAGE_SIZE = l[2] + 8 /\ l[2] \in Nat
      BY <1>1, LiveChunk
    <3>2. DataAddr(l) % PAGE_SIZE # 0
      BY <3>1
    <3>. QED
      BY <1>1, <3>2 DEF LiveCovered
  <2>2. ASSUME NEW p \in DOMAIN blocks \ large
        PROVE  \E l \in DOMAIN live : p = DataAddr(l)
    <3>1. Small(p)
      BY <1>2
    <3>. QED
      BY <1>1, <3>1, SmallBlock
  <2>. QED
    BY <2>1, <2>2
<1>4. ASSUME NEW p \in large PROVE pages(p) = PagesOf(p)
  <2>. DEFINE s == blocks[p].size
              n == PageCount(s, blocks[p].align)
              g == PageOf(p)
  <2>1. ~Small(p) /\ p \in DOMAIN blocks
    BY <1>2
  <2>2. s \in Nat \ {0} /\ blocks[p].align \in Nat
    BY <1>1 DEF BlocksInv, BlockOK, AlignOK
  <2>3. n \in Nat \ {0} /\ n - 1 = (s - 1) \div PAGE_SIZE
    BY <2>1, <2>2, PageCounts DEF Small
  <2>4. p = PageAddr(g) /\ g \in Nat /\ PagesOf(p) = Run(g, n)
    BY <1>1, <2>1, LargeBlock
  <2>5. PageOf(p + s - 1) = g + n - 1
    <3>. DEFINE r == (s - 1) % PAGE_SIZE
    <3>. HIDE DEF n, s, g
    <3>1. r \in 0..(PAGE_SIZE - 1) /\ s - 1 = PAGE_SIZE * (n - 1) + r
      <4>1. \A a \in Nat : /\ a % PAGE_SIZE \in 0..(PAGE_SIZE - 1)
                           /\ a = PAGE_SIZE * (a \div PAGE_SIZE) + (a % PAGE_SIZE)
        BY PageSize
      <4>2. s - 1 \in Nat
        BY <2>2
      <4>. QED
        BY <2>3, <4>1, <4>2
    <3>. HIDE DEF r
    <3>2. p = PAGE_SIZE * g
      BY <2>4, PageSize DEF PageAddr
    <3>3. p + s - 1 = PAGE_SIZE * (g + n - 1) + r
      BY <2>2, <2>3, <2>4, <3>1, <3>2, PageSize
    <3>4. g + n - 1 \in Nat
      BY <2>3, <2>4
    <3>. QED
      BY <3>1, <3>3, <3>4, DivMod, PageSize DEF PageOf
  <2>. QED
    BY <2>4, <2>5 DEF Run
<1>5. ASSUME NEW x \in others PROVE \E p \in large : x \in pages(p)
  <2>1. PICK p \in DOMAIN blocks : ~Small(p) /\ x \in PagesOf(p)
    BY <1>1 DEF BlocksInv
  <2>. HIDE DEF large, pages
  <2>. QED
    BY <1>2, <1>4, <2>1
<1>6. ASSUME NEW p \in large, NEW x \in pages(p) PROVE x \in others
  <2>1. ~Small(p) /\ p \in DOMAIN blocks
    BY <1>2
  <2>2. PagesOf(p) \subseteq others
    BY <1>1, <2>1 DEF BlocksInv
  <2>. HIDE DEF pages
  <2>. QED
    BY <1>4, <1>6, <2>2
<1>7. others = UNION {pages(p) : p \in large}
  <2>. HIDE DEF large, pages
  <2>. QED
    BY <1>5, <1>6
<1>. QED
  BY <1>3, <1>7

-----------------------------------------------------------------------------
(* The inductive invariant of the global allocator over Kalloc's. *)
THEOREM GallocInvHolds == GSpec => []GallocInv
BY GallocInit, GallocStep, PTL DEF GSpec

(* For every page size, set of sizes and set of alignments, a block of     *)
(* alloc, alloc_zeroed or realloc is aligned and shares no byte with       *)
(* another block, a header or a free page.                                 *)
THEOREM GallocBlocksApart == GSpec => []BlocksApart
<1>1. GallocInv => BlocksApart
  BY BlocksInvApart DEF GallocInv
<1>. QED
  BY <1>1, GallocInvHolds, PTL

(* Between two calls every chunk and page taken belongs to a block: what   *)
(* dealloc and realloc compute again from a layout is what alloc took.     *)
THEOREM GallocNothingLost == GSpec => []NothingLost
BY NothingLostInv, GallocInvHolds, PTL

(* realloc writes behind the new block only when asked to shrink.          *)
THEOREM GallocGrowthFits == GSpec => []GrowthFits
<1>1. GallocInv => GrowthFits
  BY DEF GallocInv
<1>. QED
  BY <1>1, GallocInvHolds, PTL
=============================================================================
