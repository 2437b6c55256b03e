------------------------------ MODULE KernelMap ------------------------------
(***************************************************************************)
(* Setting up the kernel's memory on hart 0: vm::init and the two tests    *)
(* (src/vm.rs) and kpage_init (src/vm/ptable.rs) over PageTable, with the  *)
(* layout of kernel.ld, hw/param.rs and asm/entry.s.                       *)
(*                                                                         *)
(* A layout is the number of pages of text, rodata, data and bss and of    *)
(* the RAM; the linker script aligns every section to pages.               *)
(***************************************************************************)
EXTENDS PageTable, Sequences

CONSTANTS
  UART_BASE, DRAM_BASE,
  NHART,      \* number of harts (2)
  Layouts     \* [text, rodata, data, bss, ram], in pages

VARIABLES
  layout,     \* what the kernel was linked to
  boot,       \* where vm::init and main are
  step,       \* calls of page_map that kpage_init has made
  small,      \* the page of Galloc's small pool
  satp        \* 0, or the page number of the root table (phy_to_satp)

bootVars == <<layout, boot, step, small, satp>>
kvars == <<vars, bootVars>>

Bytes(n) == n * PAGE_SIZE

text_end        == DRAM_BASE + Bytes(layout.text)
rodata_end      == text_end + Bytes(layout.rodata)
data_end        == rodata_end + Bytes(layout.data)
stacks_start    == data_end
stacks_end      == stacks_start + Bytes(3 * NHART)
intstacks_start == stacks_end
intstacks_end   == intstacks_start + Bytes(4 * NHART)
bss_start       == intstacks_end + PAGE_SIZE   \* a guard page between
bss_end         == bss_start + Bytes(layout.bss)
dram_end        == DRAM_BASE + Bytes(layout.ram)

ASSUME KernelMapAssumption ==
  /\ UART_BASE \in Nat /\ Aligned(UART_BASE) /\ DRAM_BASE \in Nat /\ Aligned(DRAM_BASE)
  /\ NHART \in Nat \ {0}
  /\ 0 < UART_BASE /\ UART_BASE + PAGE_SIZE <= DRAM_BASE
  /\ Layouts \subseteq [text : Nat, rodata : Nat, data : Nat, bss : Nat, ram : Nat]
  /\ \A l \in Layouts :
       /\ DRAM_BASE + Bytes(l.ram) <= VA_TOP
       /\ l.ram > l.text + l.rodata + l.data + 7 * NHART + 1 + l.bss + 1

-----------------------------------------------------------------------------
(* kpage_init: the calls of page_map, all of them 1:1. *)

RW == PTE_READ + PTE_WRITE
RX == PTE_READ + PTE_EXEC

Same(a, size, f) == [va |-> a, pa |-> a, size |-> size, flag |-> f]

(* Mutant of StackCall: the guard page is mapped instead of the top page. *)
StackCallLow(s) == Same(stacks_start + Bytes(s * 3), Bytes(2), RW)

(* Two pages for hart s above a guard page. *)
StackCall(s) == Same(stacks_start + Bytes(1 + s * 3), Bytes(2), RW)

(* A page each for the two trap handlers of hart i, above guard pages. *)
m_intstack(i) == Same(intstacks_start + Bytes(1 + i * 4), PAGE_SIZE, RW)
s_intstack(i) == Same(intstacks_start + Bytes(1 + i * 4 + 2), PAGE_SIZE, RW)

(* Mutant of RodataCall: constants are writable. *)
RodataCallRW == Same(text_end, rodata_end - text_end, RW)

RodataCall == Same(text_end, rodata_end - text_end, PTE_READ)

(* Mutant of HeapCall: bss_start for bss_end, an overlap of two calls. *)
HeapCallOverlaps == Same(bss_start, dram_end - bss_start, RW)

HeapCall == Same(bss_end, dram_end - bss_end, RW)

kpage_init ==
  << Same(UART_BASE, PAGE_SIZE, RW),
     Same(DRAM_BASE, text_end - DRAM_BASE, RX),
     RodataCall,
     Same(rodata_end, data_end - rodata_end, RW) >>
  \o [s \in 1..NHART |-> StackCall(s - 1)]
  \o [j \in 1..(2 * NHART) |-> IF j % 2 = 1 THEN m_intstack((j - 1) \div 2)
                               ELSE s_intstack((j - 1) \div 2)]
  \o << Same(bss_start, bss_end - bss_start, RW), HeapCall >>

-----------------------------------------------------------------------------
KInit ==
  /\ Start({}) /\ layout \in Layouts
  /\ boot = "pool" /\ step = 0 /\ small = 0 /\ satp = 0

(* PagePool::new(bss_end(), dram_end()) *)
NewPool ==
  /\ boot = "pool" /\ boot' = "galloc"
  /\ avail' = {a \in bss_end..(dram_end - 1) : Aligned(a)}
  /\ UNCHANGED <<tables, root, pc, mapVars, walkVars, result, layout, step, small, satp>>

(* Galloc::new takes a page for the small objects. *)
NewGalloc ==
  /\ boot = "galloc" /\ boot' = "kpage_init"
  /\ small' = Lowest(avail) /\ avail' = avail \ {small'}
  /\ UNCHANGED <<tables, root, pc, mapVars, walkVars, result, layout, step, satp>>

(* The next call, if the last one succeeded (the ? of kpage_init). *)
MapNext ==
  /\ boot = "kpage_init" /\ result # "err" /\ step < Len(kpage_init)
  /\ \/ page_map(kpage_init[step + 1])
     \/ page_map_empty(kpage_init[step + 1])
  /\ step' = step + 1
  /\ UNCHANGED <<layout, boot, small, satp>>

MapWork == boot = "kpage_init" /\ Work /\ UNCHANGED bootVars

(* vm::init panics on an error; a panic in kpage_init is one as well. *)
InitFails ==
  /\ boot = "kpage_init" /\ (result = "err" \/ pc = "panicked")
  /\ boot' = "panicked"
  /\ UNCHANGED <<vars, layout, step, small, satp>>

(* The page number of the table; that it is not 0 stands for the mode bit. *)
phy_to_satp(a) == a \div PAGE_SIZE

(* Mutant of write_satp: the tables are in use before they are complete. *)
write_satp_early ==
  /\ boot = "kpage_init" /\ pc = "idle" /\ result # "err"
  /\ step = Len(kpage_init) - 1
  /\ satp' = phy_to_satp(root) /\ boot' = "test_palloc"
  /\ UNCHANGED <<vars, layout, step, small>>

write_satp ==
  /\ boot = "kpage_init" /\ pc = "idle" /\ result # "err"
  /\ step = Len(kpage_init)
  /\ satp' = phy_to_satp(root) /\ boot' = "test_palloc"
  /\ UNCHANGED <<vars, layout, step, small>>

(* test_palloc takes one page, then five, and frees them.  The search for  *)
(* several pages refuses a run that ends the free list (see PagePool): a   *)
(* sixth page has to follow.  The free pages are one run here.             *)
test_palloc ==
  /\ boot = "test_palloc"
  /\ boot' = IF Cardinality(avail) >= 1 + 5 + 1 THEN "test_galloc" ELSE "panicked"
  /\ UNCHANGED <<vars, layout, step, small, satp>>

(* test_galloc puts small boxes into the small pool and a box of more than *)
(* a page into two pages, and frees them.                                  *)
test_galloc ==
  /\ boot = "test_galloc"
  /\ boot' = IF Cardinality(avail) >= 2 + 1 THEN "done" ELSE "panicked"
  /\ UNCHANGED <<vars, layout, step, small, satp>>

Stopped == boot \in {"done", "panicked"} /\ UNCHANGED kvars

Boot == \/ NewPool \/ NewGalloc \/ MapNext \/ MapWork \/ InitFails
        \/ write_satp \/ test_palloc \/ test_galloc

KNext == Boot \/ Stopped

KSpec == KInit /\ [][KNext]_kvars /\ WF_kvars(Boot)

-----------------------------------------------------------------------------
Page(a) == a \div PAGE_SIZE

(* Pages between two addresses. *)
Between(a, b) == Page(a)..(Page(b) - 1)

(* Permissions of page v by the memory map of memlayout.md; 0 is unmapped: *)
(* every third page of the stacks and every second one of the trap         *)
(* handlers' stacks is a guard.                                            *)
Permission(v) ==
  IF v = Page(UART_BASE) THEN RW
  ELSE IF v \in Between(DRAM_BASE, text_end) THEN RX
  ELSE IF v \in Between(text_end, rodata_end) THEN PTE_READ
  ELSE IF v \in Between(rodata_end, data_end) THEN RW
  ELSE IF v \in Between(stacks_start, stacks_end)
       THEN IF (v - Page(stacks_start)) % 3 = 0 THEN 0 ELSE RW
  ELSE IF v \in Between(intstacks_start, intstacks_end)
       THEN IF (v - Page(intstacks_start)) % 2 = 0 THEN 0 ELSE RW
  ELSE IF v \in Between(bss_start, dram_end) THEN RW
  ELSE 0

(* From the moment satp points to them, the tables map every page of the   *)
(* kernel to itself with the permissions of its section, and nothing else: *)
(* no null page, no guard page, no page of a device but the UART's.        *)
KernelMapExact ==
  satp # 0 =>
    \A v \in 0..(VPages - 1) :
      IF Permission(v) = 0 THEN v \notin Mapped
      ELSE v \in Mapped /\ Translate(v) = <<v, Permission(v)>>

(* A stack that grows down from top: n pages, then an unmapped one, and an *)
(* unmapped one above.                                                     *)
GuardedStack(top, n) ==
  /\ \A i \in 1..n : Page(top) - i \in Mapped /\ Translate(Page(top) - i)[2] = RW
  /\ {Page(top), Page(top) - n - 1} \cap Mapped = {}

(* Each stack that _entry gave a hart (sp, mscratch, sscratch) is mapped   *)
(* between guards, although _entry counts harts from the top of the region *)
(* and kpage_init from the bottom.                                         *)
StacksGuarded ==
  satp # 0 =>
    \A h \in 0..(NHART - 1) :
      LET mscratch == intstacks_end - h * Bytes(4)
      IN  /\ GuardedStack(stacks_end - h * Bytes(3), 2)
          /\ GuardedStack(mscratch, 1)
          /\ GuardedStack(mscratch - Bytes(2), 1)

(* With the tables on, the kernel can still write to every table, to every *)
(* page the pool can hand out and to the small pool.                       *)
PoolStaysReachable ==
  satp # 0 =>
    \A t \in DOMAIN tables \cup avail \cup {small} :
      Page(t) \in Mapped /\ Translate(Page(t)) = <<Page(t), RW>>

(* The pages vm::init and the tests need: a table for the root, for each   *)
(* group of PTE_TOP tables and for each group of PTE_TOP pages in use, the *)
(* small pool, and the pages of the test.                                  *)
PagesNeeded ==
  LET used == {v \in 0..(VPages - 1) : Permission(v) # 0}
  IN  1 + Cardinality({v \div PTE_TOP : v \in used})
        + Cardinality({v \div (PTE_TOP * PTE_TOP) : v \in used}) + 1 + 7

ShortOfPages == Page(dram_end - bss_end) < PagesNeeded
EmptySection == 0 \in {layout.text, layout.rodata, layout.data, layout.bss}

(* No call of kpage_init meets a page that another one has mapped, and     *)
(* none leaves the address space: the boot panics only for want of pages,  *)
(* or over the size - 1 of an empty section.                               *)
PanicExplained ==
  boot = "panicked" =>
    ShortOfPages \/ (EmptySection /\ pc = "panicked")

(* The boot ends: with pages enough and no empty section, with the tables  *)
(* on and the test passed.                                                 *)
Endings == IF EmptySection \/ ShortOfPages THEN {"done", "panicked"} ELSE {"done"}

BootCompletes == <>(boot \in Endings)
=============================================================================
