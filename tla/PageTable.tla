------------------------------ MODULE PageTable ------------------------------
(***************************************************************************)
(* The kernel's three-level page tables: walk and page_map of              *)
(* src/vm/ptable.rs.  Addresses are byte addresses; a table is a page of   *)
(* the pool, named by its address; an entry is the number the hardware     *)
(* reads.  The page pool is what PagePool promises one caller: palloc      *)
(* returns the lowest free page, zeroed.                                   *)
(*                                                                         *)
(* The caller may make any of Calls, one after the other, whatever became  *)
(* of the last one.  walk is only ever called with alloc_new = true.       *)
(***************************************************************************)
EXTENDS Integers, FiniteSets

CONSTANTS
  PAGE_SIZE,  \* bytes in a page (4096)
  PTE_TOP,    \* entries in a table (512)
  USIZE,      \* the number of values of usize (2^64)
  Calls,      \* the arguments [va, pa, size, flag] of page_map
  Pools       \* the page pools to start with: sets of page addresses

VA_TOP == PAGE_SIZE * PTE_TOP * PTE_TOP * PTE_TOP

PTE_VALID == 1
PTE_READ  == 2
PTE_WRITE == 4
PTE_EXEC  == 8

Aligned(a) == a % PAGE_SIZE = 0

(* A call without a byte to map comes from an empty, page-aligned section. *)
ASSUME PageTableAssumption ==
  /\ PAGE_SIZE \in Nat \ {0} /\ PTE_TOP \in Nat \ {0, 1}
  /\ USIZE \in Nat /\ USIZE > 2 * VA_TOP
  /\ \A c \in Calls :
       /\ c.va \in 0..(USIZE - 1) /\ c.pa \in Nat /\ c.size \in Nat
       /\ c.flag \in {PTE_READ, PTE_READ + PTE_WRITE, PTE_READ + PTE_EXEC}
       /\ c.size = 0 => Aligned(c.va) /\ c.va # 0
       /\ c.va + c.size <= USIZE
  /\ \A p \in Pools : p \subseteq Nat \ {0} /\ \A a \in p : Aligned(a)

VARIABLES
  tables,   \* address of a table -> its entries
  avail,    \* the free pages of the pool
  root,     \* the root table, kpage_table.base; 0 before it exists
  pc,       \* "root", "idle", "loop", "walk" or "panicked"
  start, end, phys, flag,   \* locals of page_map
  table, level,             \* locals of walk
  result    \* how the last call of page_map ended

memory  == <<tables, avail, root>>
mapVars == <<start, end, phys, flag>>
walkVars == <<table, level>>
vars == <<memory, pc, mapVars, walkVars, result>>

Indexes == 0..(PTE_TOP - 1)
Lowest(S) == CHOOSE p \in S : \A q \in S : p <= q

-----------------------------------------------------------------------------
(* Addresses and entries. *)

PageAlignDown(a) == a - (a % PAGE_SIZE)

(* The bytes one entry of a table of level l stands for. *)
Span(l) == CASE l = 0 -> PAGE_SIZE
             [] l = 1 -> PAGE_SIZE * PTE_TOP
             [] l = 2 -> PAGE_SIZE * PTE_TOP * PTE_TOP

vpn(a, l) == (a \div Span(l)) % PTE_TOP

(* An entry: the frame number above ten bits of flags. *)
phy_to_pte(a) == (a \div PAGE_SIZE) * 1024
pte_to_phy(pte) == (pte \div 1024) * PAGE_SIZE

Valid(pte) == pte % 2 = PTE_VALID
Flags(pte) == pte % 1024

ZeroPage == [i \in Indexes |-> 0]

(* What walk stores for a new table, and page_map for a page. *)
PointerTo(pg) == phy_to_pte(pg) + PTE_VALID
LeafEntry(pa, f) == phy_to_pte(pa) + f + PTE_VALID

(* Mutants of LastPage: the size counts from the page, not from va; the    *)
(* end is not rounded down.                                                *)
LastPageOfAligned(c) == PageAlignDown((PageAlignDown(c.va) + ((c.size - 1) % USIZE)) % USIZE)
LastPageUnaligned(c) == (c.va + ((c.size - 1) % USIZE)) % USIZE

(* end of page_map.  size - 1 and the sum wrap in the release profile. *)
LastPage(c) == PageAlignDown((c.va + ((c.size - 1) % USIZE)) % USIZE)

-----------------------------------------------------------------------------
Start(pool) ==
  /\ tables = [t \in {} |-> ZeroPage] /\ avail = pool /\ root = 0
  /\ pc = "root" /\ result = "none"
  /\ start = 0 /\ end = 0 /\ phys = 0 /\ flag = 0
  /\ table = 0 /\ level = 0

Init == \E p \in Pools : Start(p)

(* palloc, and the page becomes a table. *)
TakeTable(link, at) ==
  LET pg == Lowest(avail)
  IN  /\ avail' = avail \ {pg}
      /\ tables' = [t \in DOMAIN tables \cup {pg} |->
                      IF t = pg THEN ZeroPage
                      ELSE IF t = link THEN [tables[t] EXCEPT ![at] = PointerTo(pg)]
                      ELSE tables[t]]

(* The start of kpage_init: "Couldn't allocate root kernel page table."    *)
AllocRoot ==
  /\ pc = "root"
  /\ IF avail = {} THEN pc' = "panicked" /\ UNCHANGED memory
     ELSE TakeTable(0, 0) /\ root' = Lowest(avail) /\ pc' = "idle"
  /\ UNCHANGED <<mapVars, walkVars, result>>

page_map(c) ==
  /\ pc = "idle"
  /\ start' = PageAlignDown(c.va) /\ end' = LastPage(c)
  /\ phys' = c.pa /\ flag' = c.flag
  /\ pc' = "loop" /\ result' = "none"
  /\ UNCHANGED <<memory, walkVars>>

(* The dev profile checks size - 1. *)
page_map_empty(c) ==
  /\ pc = "idle" /\ c.size = 0
  /\ pc' = "panicked" /\ result' = "none"
  /\ UNCHANGED <<memory, mapVars, walkVars>>

Return(r) == pc' = "idle" /\ result' = r

MapDone ==
  /\ pc = "loop" /\ start > end
  /\ Return("ok") /\ UNCHANGED <<memory, mapVars, walkVars>>

(* walk, called for start. *)
WalkEnter ==
  /\ pc = "loop" /\ start <= end
  /\ pc' = IF start < VA_TOP THEN "walk" ELSE "panicked"
  /\ table' = root /\ level' = 2
  /\ UNCHANGED <<memory, mapVars, result>>

Entry == tables[table][vpn(start, level)]

WalkDown ==
  /\ pc = "walk" /\ level > 0 /\ Valid(Entry)
  /\ table' = pte_to_phy(Entry) /\ level' = level - 1
  /\ UNCHANGED <<memory, pc, mapVars, result>>

(* Mutant of WalkAlloc: the new table is not linked to the one above. *)
WalkAllocUnlinked ==
  /\ pc = "walk" /\ level > 0 /\ ~Valid(Entry) /\ avail # {}
  /\ TakeTable(0, 0)
  /\ table' = Lowest(avail) /\ level' = level - 1
  /\ UNCHANGED <<root, pc, mapVars, result>>

WalkAlloc ==
  /\ pc = "walk" /\ level > 0 /\ ~Valid(Entry) /\ avail # {}
  /\ TakeTable(table, vpn(start, level))
  /\ table' = Lowest(avail) /\ level' = level - 1
  /\ UNCHANGED <<root, pc, mapVars, result>>

(* Mutant of WalkFails: the loop tries the same page again. *)
WalkRetries ==
  /\ pc = "walk" /\ level > 0 /\ ~Valid(Entry) /\ avail = {}
  /\ pc' = "loop" /\ UNCHANGED <<memory, mapVars, walkVars, result>>

WalkFails ==
  /\ pc = "walk" /\ level > 0 /\ ~Valid(Entry) /\ avail = {}
  /\ Return("err") /\ UNCHANGED <<memory, mapVars, walkVars>>

(* Mutant of Taken: the test looks at an entry next to it. *)
TakenNext == Valid(tables[table][(vpn(start, level) + 1) % PTE_TOP])

Taken == Valid(Entry)

MapFails ==
  /\ pc = "walk" /\ level = 0 /\ Taken
  /\ Return("err") /\ UNCHANGED <<memory, mapVars, walkVars>>

MapPage ==
  /\ pc = "walk" /\ level = 0 /\ ~Taken
  /\ tables' = [tables EXCEPT ![table][vpn(start, 0)] = LeafEntry(phys, flag)]
  /\ start' = start + PAGE_SIZE /\ phys' = phys + PAGE_SIZE
  /\ pc' = "loop"
  /\ UNCHANGED <<avail, root, end, flag, walkVars, result>>

-----------------------------------------------------------------------------
Work == \/ AllocRoot \/ MapDone \/ WalkEnter \/ WalkDown \/ WalkAlloc
        \/ WalkFails \/ MapFails \/ MapPage

Panicked == pc = "panicked" /\ UNCHANGED vars

Next ==
  \/ Work \/ Panicked
  \/ \E c \in Calls : page_map(c) \/ page_map_empty(c)

Spec == Init /\ [][Next]_vars

(* A call that has started goes on. *)
FairSpec == Spec /\ WF_vars(Work)

-----------------------------------------------------------------------------
(* The address translation of the hart (Sv39): an entry with a permission  *)
(* is a leaf, one without points to the next table.                        *)

Pointer(pte) == Valid(pte) /\ Flags(pte) = PTE_VALID
Leaf(pte)    == Valid(pte) /\ Flags(pte) # PTE_VALID

Lookup(t, v, l) == tables[t][vpn(v * PAGE_SIZE, l)]

VPages == PTE_TOP * PTE_TOP * PTE_TOP

(* The entry that translates page v; 0 if there is none. *)
LeafOf(v) ==
  IF root = 0 \/ ~Pointer(Lookup(root, v, 2)) THEN 0
  ELSE LET middle == pte_to_phy(Lookup(root, v, 2))
       IN  IF ~Pointer(Lookup(middle, v, 1)) THEN 0
           ELSE Lookup(pte_to_phy(Lookup(middle, v, 1)), v, 0)

Mapped == {v \in 0..(VPages - 1) : Leaf(LeafOf(v))}

Translate(v) == <<LeafOf(v) \div 1024, Flags(LeafOf(v)) - PTE_VALID>>

-----------------------------------------------------------------------------
TypeOK ==
  /\ \A t \in DOMAIN tables :
       t \in Nat \ {0} /\ Aligned(t) /\ tables[t] \in [Indexes -> Nat]
  /\ \A a \in avail : a \in Nat \ {0} /\ Aligned(a)
  /\ root \in DOMAIN tables \cup {0} /\ table \in DOMAIN tables \cup {0}
  /\ pc \in {"root", "idle", "loop", "walk", "panicked"}
  /\ start \in Nat /\ end \in 0..(USIZE - 1) /\ phys \in Nat
  /\ Aligned(start) /\ Aligned(end) /\ level \in 0..2
  /\ result \in {"none", "ok", "err"}

ValidIn(ts) == {ti \in ts \X Indexes : Valid(tables[ti[1]][ti[2]])}
Children(ts) == {pte_to_phy(tables[ti[1]][ti[2]]) : ti \in ValidIn(ts)}

(* The tables are a tree of three levels under the root, at every step and *)
(* after every failure: no page taken from the pool is lost or reached     *)
(* twice, no table is free, and an entry above the last level is a pointer *)
(* and never a translation of its own.                                     *)
TablesAreATree ==
  root # 0 =>
    LET middle == Children({root})
        last   == Children(middle)
        above  == ValidIn({root} \cup middle)
    IN  /\ DOMAIN tables = {root} \cup middle \cup last
        /\ Cardinality(above) = Cardinality(DOMAIN tables) - 1
        /\ avail \cap DOMAIN tables = {}
        /\ \A ti \in above : Pointer(tables[ti[1]][ti[2]])
        /\ middle \cap last = {} /\ root \notin middle \cup last

(* page_map fails for two reasons only: no page is left for a table, or    *)
(* the page it came to is mapped already.                                  *)
FailureExplained ==
  result = "err" => avail = {} \/ start \div PAGE_SIZE \in Mapped

(* page_map gets to an end: every turn maps a page or returns. *)
PageMapReturns == pc \in {"loop", "walk"} ~> pc \in {"idle", "panicked"}

(* The pages that hold the bytes va..va+size-1. *)
PageRequest(c) ==
  [next  |-> c.va \div PAGE_SIZE,
   last  |-> IF c.size = 0 THEN c.va \div PAGE_SIZE - 1
             ELSE (c.va + c.size - 1) \div PAGE_SIZE,
   frame |-> c.pa \div PAGE_SIZE,
   flags |-> c.flag]

(* What the hardware translates by the tables is an address space that     *)
(* page_map extends as AddressSpace says, also while it runs and when it   *)
(* fails half way: tables come and go unseen, each page of the range gets  *)
(* its frame in order, and nothing already mapped changes.                 *)
Space == INSTANCE AddressSpace WITH
  Requests <- {PageRequest(c) : c \in Calls},
  map      <- [v \in Mapped |-> Translate(v)],
  todo     <- [next  |-> start \div PAGE_SIZE, last |-> end \div PAGE_SIZE,
               frame |-> phys \div PAGE_SIZE, flags |-> flag],
  outcome  <- CASE pc = "panicked" -> "panicked"
                [] pc \in {"loop", "walk"} -> "busy"
                [] OTHER -> result

RefinesAddressSpace == Space!Spec
=============================================================================
