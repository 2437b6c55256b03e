------------------------------- MODULE Galloc -------------------------------
(***************************************************************************)
(* The kernel's global allocator (src/vm/global.rs, reached through        *)
(* GlobalWrapper of src/vm.rs): small objects come from Kalloc, the rest   *)
(* in whole pages from the page pool that Kalloc takes its zones from.     *)
(*                                                                         *)
(* Kalloc's module is composed as it stands; the pages of large blocks are *)
(* its others.  A block is named by its address.  One caller at a time, in *)
(* the dev profile, as the kernel runs.                                    *)
(***************************************************************************)
EXTENDS Kalloc

CONSTANTS
  Sizes,      \* sizes callers ask for, of any scheme
  Aligns,     \* alignments callers ask for
  MaxBlocks   \* bound: blocks in use at a time

(* Alignments are powers of two (Layout), and so is the size of a page:    *)
(* the smaller divides the larger.                                         *)
ASSUME GallocAssumption ==
  /\ Sizes \subseteq Nat /\ Aligns \subseteq Nat \ {0} /\ MaxBlocks \in Nat
  /\ \A a \in Aligns : (a <= PAGE_SIZE => PAGE_SIZE % a = 0) /\ (a <= 8 => 8 % a = 0)

VARIABLES
  blocks,   \* address of a block in use -> [size, align]
  gpc,      \* "ready", "small" (in Kalloc), "copy", "panicked" or "overrun"
  call,     \* the call: [kind, size, align, old]; old is realloc's ptr
  out       \* what alloc returned

gvars == <<blocks, gpc, call, out>>
allVars == <<vars, gvars>>

Layout(kind, n, align, old) == [kind |-> kind, size |-> n, align |-> align, old |-> old]
NoCall == Layout("none", 0, 1, 0)

GInit ==
  /\ Init
  /\ blocks = [p \in {} |-> 0] /\ gpc = "ready" /\ call = NoCall /\ out = 0

-----------------------------------------------------------------------------
(* Mutants of PageCount: the last, partial page is missing; an alignment   *)
(* that Kalloc cannot give is not sent to the pages.                       *)
PageCountFloor(n, align) ==
  IF n <= MAX_CHUNK_SIZE THEN IF align <= 8 THEN 0 ELSE 1 ELSE n \div PAGE_SIZE

PageCountUnaligned(n, align) ==
  IF n <= MAX_CHUNK_SIZE THEN 0 ELSE (n + PAGE_SIZE - 1) \div PAGE_SIZE

(* decide_internal_scheme: 0 is Kalloc. *)
PageCount(n, align) ==
  IF n <= MAX_CHUNK_SIZE THEN IF align <= 8 THEN 0 ELSE 1
  ELSE (n + PAGE_SIZE - 1) \div PAGE_SIZE

(* The panics on arguments. *)
Rejected(n, align) == align > PAGE_SIZE \/ n = 0

PageAddr(p) == p * PAGE_SIZE
DataAddr(l) == PageAddr(l[1]) + l[2] + HEADER_SIZE
PageOf(a)   == a \div PAGE_SIZE
ChunkOf(a)  == <<PageOf(a), (a % PAGE_SIZE) - HEADER_SIZE>>

Run(p, n) == p..(p + n - 1)

(* palloc_plural for one caller.  A run of several pages is found at the   *)
(* front of the free list or not at all, and must not end the list (see    *)
(* PagePool); a junk link in it is a fault.                                *)
RunServed(n) ==
  LET p == Lowest(avail)
  IN  /\ avail # {} /\ Run(p, n) \cap junk = {}
      /\ n > 1 => Run(p, n + 1) \subseteq avail

(* The block exists: alloc returns it, realloc goes on to copy. *)
Obtain(p, c) ==
  /\ blocks' = [q \in DOMAIN blocks \cup {p} |->
                  IF q = p THEN [size |-> c.size, align |-> c.align] ELSE blocks[q]]
  /\ IF c.kind = "realloc" THEN gpc' = "copy" /\ call' = c /\ out' = p
     ELSE gpc' = "ready" /\ call' = NoCall /\ out' = 0

Panics == gpc' = "panicked" /\ UNCHANGED <<blocks, call, out>>

(* Galloc::alloc as called by c. *)
Allocate(c) ==
  LET n == PageCount(c.size, c.align)
      p == Lowest(avail)
  IN  /\ gpc = "ready" /\ pc = "idle" /\ Cardinality(DOMAIN blocks) < MaxBlocks
      /\ \/ /\ Rejected(c.size, c.align)
            /\ Panics /\ UNCHANGED vars
         \/ /\ ~Rejected(c.size, c.align) /\ n = 0
            /\ alloc(c.size) /\ gpc' = "small" /\ call' = c /\ UNCHANGED <<blocks, out>>
         \/ /\ ~Rejected(c.size, c.align) /\ n > 0 /\ ~RunServed(n)
            /\ Panics /\ UNCHANGED vars
         \/ /\ ~Rejected(c.size, c.align) /\ n > 0 /\ RunServed(n)
            /\ avail' = avail \ Run(p, n) /\ others' = others \cup Run(p, n)
            /\ Obtain(PageAddr(p), c)
            /\ UNCHANGED <<zones, junk, live, pc, callVars, scanVars, result>>

SmallWork == gpc = "small" /\ Work /\ UNCHANGED gvars

(* Kalloc::alloc returned a chunk: the one that no block accounts for yet. *)
SmallReturns ==
  /\ gpc = "small" /\ pc = "idle" /\ result = "ok"
  /\ \E l \in DOMAIN live : DataAddr(l) \notin DOMAIN blocks /\ Obtain(DataAddr(l), call)
  /\ UNCHANGED vars

(* Mutant of SmallFails: the request is repeated. *)
SmallRetries ==
  /\ gpc = "small" /\ pc = "idle" /\ result = "oom"
  /\ alloc(call.size) /\ UNCHANGED gvars

SmallFails ==
  /\ gpc = "small" /\ pc = "idle" /\ result = "oom"
  /\ Panics /\ UNCHANGED vars

(* Mutant of PagesOf: a block's last page stays behind. *)
PagesOfShort(p) ==
  Run(PageOf(p), IF blocks[p].size <= PAGE_SIZE THEN 1
                 ELSE PageCount(blocks[p].size, blocks[p].align) - 1)

(* The pages of a large block, by the layout it is freed with. *)
PagesOf(p) == Run(PageOf(p), PageCount(blocks[p].size, blocks[p].align))

(* Galloc::dealloc with the layout of the block. *)
Release(p) ==
  /\ blocks' = [q \in DOMAIN blocks \ {p} |-> blocks[q]]
  /\ IF PageCount(blocks[p].size, blocks[p].align) = 0
     THEN free(ChunkOf(p)[1], ChunkOf(p)[2]) /\ gpc' = "ready"
     ELSE /\ gpc' = IF PfreeFaults(PageOf(p)) THEN "panicked" ELSE "ready"
          /\ avail' = IF PfreeFaults(PageOf(p)) THEN avail ELSE avail \cup PagesOf(p)
          /\ others' = others \ PagesOf(p)
          /\ UNCHANGED <<zones, junk, live, pc, callVars, scanVars, result>>

dealloc(p) ==
  /\ gpc = "ready" /\ pc = "idle" /\ p \in DOMAIN blocks
  /\ Release(p) /\ UNCHANGED <<call, out>>

(* The bytes of the chunk or the pages behind a block. *)
Capacity(p) ==
  LET n == PageCount(blocks[p].size, blocks[p].align)
  IN  IF n = 0 THEN zones[ChunkOf(p)[1]].chunk[ChunkOf(p)[2]].size
      ELSE n * PAGE_SIZE

(* The rest of realloc: copy layout.size() bytes, the size of the old      *)
(* block, and free the old block.  A copy that does not fit overwrites     *)
(* what lies behind the new block, and the model stops.                    *)
Copy ==
  /\ gpc = "copy"
  /\ IF blocks[call.old].size > Capacity(out)
     THEN gpc' = "overrun" /\ UNCHANGED <<vars, blocks, call, out>>
     ELSE Release(call.old) /\ call' = NoCall /\ out' = 0

GStopped ==
  /\ pc \in {"panicked", "overrun"} \/ gpc \in {"panicked", "overrun"}
  /\ UNCHANGED allVars

-----------------------------------------------------------------------------
GWork == SmallWork \/ SmallReturns \/ SmallFails \/ Copy

(* alloc_zeroed is alloc, and clears the bytes of the block it returns.    *)
GNext ==
  \/ \E n \in Sizes, align \in Aligns : Allocate(Layout("alloc", n, align, 0))
  \/ \E p \in DOMAIN blocks, n \in Sizes :
       Allocate(Layout("realloc", n, blocks[p].align, p))
  \/ \E p \in DOMAIN blocks : dealloc(p)
  \/ GWork \/ GStopped

GSpec == GInit /\ [][GNext]_allVars /\ WF_allVars(GWork)

-----------------------------------------------------------------------------
Apart(p, m, q, n) == p + m <= q \/ q + n <= p

(* Whatever the sizes, alignments and order of the calls, every block is   *)
(* aligned and shares no byte with another block, a zone or chunk header,  *)
(* or a free page of the pool.                                             *)
BlocksApart ==
  \A p \in DOMAIN blocks :
    LET b == blocks[p]
    IN  /\ p % b.align = 0
        /\ \A q \in DOMAIN blocks \ {p} : Apart(p, b.size, q, blocks[q].size)
        /\ \A z \in DOMAIN zones : \A o \in DOMAIN zones[z].chunk \cup {0} :
             Apart(p, b.size, PageAddr(z) + o, HEADER_SIZE)
        /\ \A f \in avail : Apart(p, b.size, PageAddr(f), PAGE_SIZE)

(* Between two calls the allocators below hold exactly the blocks in use:  *)
(* each chunk and each page taken belongs to one, so that realloc and      *)
(* dealloc, which work out again where a block came from, lose none.       *)
NothingLost ==
  gpc = "ready" /\ pc = "idle" =>
    LET large == {p \in DOMAIN blocks : p % PAGE_SIZE = 0}
    IN  /\ {DataAddr(l) : l \in DOMAIN live} = DOMAIN blocks \ large
        /\ others = UNION {PageOf(p)..PageOf(p + blocks[p].size - 1) : p \in large}

(* A realloc that does not shrink the block copies within the new one,     *)
(* also from a chunk to pages.                                             *)
GrowthFits == gpc = "overrun" => call.size < blocks[call.old].size

(* Every call returns or panics. *)
GallocReturns ==
  gpc \in {"small", "copy"} ~>
    gpc \in {"ready", "panicked", "overrun"} \/ pc \in {"panicked", "overrun"}

(* "We currently support Rust's `GlobalAlloc`" (README.md:11), whose       *)
(* realloc carries over as many bytes as both blocks have: it writes       *)
(* nothing behind the new block.                                           *)
CopyInBounds == gpc # "overrun"
=============================================================================
