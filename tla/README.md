# reedos in TLA+

A verification project for the reedos kernel: TLA+ models of its allocators,
its spinlock, its page tables and memory map, its console and its boot and trap
path, checked with TLC on small instances. Every safety property of the passing
runs is also a theorem, checked with TLAPS for every value of the constants.
Paths are relative to the repository root.

## The system

reedos is a RISC-V kernel for two harts in QEMU's virt machine. At this commit
it boots, sets up memory and spins; hart 0 does all the work, hart 1 installs
its trap vector and loops.

| component | state | operations | used by |
|---|---|---|---|
| page pool, `src/vm/palloc.rs` | `Pool.free` and a doubly linked list stored in the free pages | `palloc`, `palloc_plural`, `pfree`, `pfree_plural` | page tables, `Kalloc`, `Galloc` |
| spinlock, `src/lock/mutex.rs` | `lock_state` | `lock`, `MutexGuard::drop` | page pool, `print!` |
| small objects, `src/vm/vmalloc.rs` | zones (pages) of chunks, headers inside the zones | `alloc`, `free`, inside them `scan`, `grow_pool`, `shrink_pool` | `Galloc` |
| global allocator, `src/vm/global.rs` | `small_pool`, pointer to the page pool | `alloc`, `dealloc`, `alloc_zeroed`, `realloc` | `Box`, `Vec`, ... |
| page tables, `src/vm/ptable.rs` | three-level tables in pool pages | `walk`, `page_map`, `kpage_init`, `write_satp` | `vm::init` |
| boot, `src/asm/entry.s`, `src/main.rs`, `src/hw.rs` | CSRs, stacks | `_entry`, `_start`, `timerinit`, `main` | every hart |
| traps, `src/asm/trap.s`, `src/trap.rs`, `src/device/clint.rs` | `mscratch`, `sscratch`, saved registers, `mtimecmp` | `__mtrapvec`, `__strapvec`, `m_handler`, `s_handler`, `set_mtimecmp` | hardware |
| console, `src/device/uart.rs`, `src/log.rs` | UART registers | `print!`, `log!`, `Uart::init`, `put`, `get` | all |
| CSR wrappers `src/hw/riscv.rs`, layout `src/hw/param.rs`, `kernel.ld`, types `src/vm/process.rs` | none | none | all |

What is hard in it: list updates of several words that only a lock keeps apart;
searches over a list that long sequences of calls have shaped; unsigned address
arithmetic; headers stored in the memory they describe; a page that changes
hands between two allocators; interrupts between any two instructions of boot,
kernel and trap entry; page tables that must map the pages they are built
from; output from several harts and from panics inside output. A panic never returns (`panic = "abort"`, then `loop {}`),
so whatever lock it holds stays held. `PROJECT.json` lists the hazards by line.

What makes each part correct:

- page pool: no page has two owners; the list is exactly the free pages in
  address order; pages come zeroed; a call touches no page in use; a request is
  refused only when it cannot be served;
- spinlock: one hart inside at a time;
- small objects: chunks tile their zone; a zone's count is the number of its
  live chunks; no live chunk changes under its owner; a zone is linked exactly
  while it is in use; `alloc` fails only when memory is out;
- boot and traps: `mret` of `_start` reaches `main` in supervisor mode; a trap is
  invisible to what it interrupts; the three stacks of a hart stay apart; timer
  interrupts are served and do not starve the kernel;
- global allocator: blocks are aligned, large enough and apart; what is freed goes
  back where it came from; `realloc` writes nowhere but into the new block;
- page tables: `page_map` adds the pages of its range, changes none that is mapped,
  and the tables stay a tree also when it fails;
- memory map: every section mapped with its permissions, guard pages unmapped,
  stacks where `_entry` put them, the allocators' memory reachable;
- console: the bytes of a hart in order, none lost once the UART is set up, and a
  panic is heard.

## Modules

**PagePool** (`palloc.rs`, `mutex.rs`). A page is its frame number, null is frame 0.
`prv` and `nxt` are the first two words of every page, `dirty` says whether the
rest of a page is non-zero, `held[h]` is what the code on hart h owns. A call is
a sequence of steps of its hart, one per turn of a loop:
`palloc_plural -> Lock -> AllocEnter -> Outer/Extend/InnerDone ... -> Unlink ->
Unlock`, and `pfree_plural -> Lock -> FreeEnter -> InsertEmpty | InsertFront |
InsertLater -> Walk ... -> Splice -> Unlock`. `palloc` and `pfree` are the calls
with one page. `ClientWrite` lets an owner overwrite its pages, the link words
included. `Fault` is a dereference outside the heap: null is not mapped in the
kernel page table, the fault reaches `s_handler`, which panics. `OverflowChecks`
chooses the dev profile (`page - start_region` panics below zero) or release (it
wraps, at `Frames`). Callers follow the contract of the interface: they free pages
they own, page aligned, at least one; the panics on other arguments are left out.
The lock is the contract for several harts, so the model lets several harts
call, although only hart 0 does today. The Acquire swap and Release store order
everything behind the lock, so the model's memory is sequentially consistent.

**PageAllocator** is what the pool promises: one variable `own`, runs of pages that
nobody owns are taken, runs that are owned are given back. PagePool implements it
with `own[h] <- Owned(h)`: ownership changes in `Unlink`, when a region leaves the list, and in
`InsertEmpty`, `InsertFront` or `Splice`, when it is back in.

**Kalloc** (`vmalloc.rs`). `zones` maps a page to its header and chunks, a chunk is
named by the offset of its header. `alloc` starts a scan; each turn of the loop is
`ScanTake`, `ScanOn` (which merges free neighbours) or `ScanLast` (the read behind
the last chunk); `ScanNone` is the code after a failed scan, `Grow`/`GrowFails` are
`grow_pool`. `free` is one step. The words in a chunk are data; the packing of
size and used flag, and of next zone and count, into one word is a record, since
sizes stay below 4096 and counts below 511 (`TypeOK`). The page pool appears as
what PagePool promises one caller, the lowest free page first, plus the set
`junk` of free pages whose next pointer Kalloc has overwritten: `palloc` and
`pfree` fault when they follow one. `OtherPalloc` and `OtherPfree` are page tables and
other users of the pool, a page at a time. What the word behind a zone looks like
is a choice (`AdjacentLooks`). After it has been overwritten (`overrun`) the
model stops: what follows depends on the page that was hit. Only the first zone is
ever scanned (see below), and it is the lowest page of the pool, so there is always
memory behind it. Kalloc has no lock; the model has one caller, as the kernel does.

**Hart** (`entry.s`, `main.rs`, `hw.rs`, `trap.s`, `trap.rs`, `clint.rs`): the control state of
one hart. Harts share nothing there. Every write to a CSR that matters is a step,
an enabled interrupt is taken before the next step, also between the entry into a trap
vector and its first instruction (`MSave`, `SSave`: the swap of `sp` with the scratch register
and the saving of the registers after it are one step). Registers are one of each kind
that the macros treat differently: a0 (caller-saved, saved and loaded), s1
(callee-saved), tp (saved, not loaded, not changed by Rust code), t6 (x31, neither saved nor loaded).
A handler may change a0 and t6, or not. Hardware (`Tick`, `Interrupt`, `At`, reset)
is marked external. Delegation leaves only the timer to machine mode, so the panic
arm of `m_handler` is not reached; no supervisor interrupt is ever enabled in
`sstatus`, so `s_handler` is entered by exceptions only.

**Galloc** (`global.rs`, `GlobalWrapper` of `vm.rs`) composes Kalloc as it stands: its
state and actions are Galloc's small pool, and Kalloc's `others` are the pages of
large blocks. `Allocate` is `Galloc::alloc` for `alloc`, `alloc_zeroed` and the first half of
`realloc`; a small request goes through Kalloc's steps (`SmallWork`) to `SmallReturns` or
`SmallFails`; `Copy` is the second half of `realloc`. A block is `[size, align]` at its address;
of contents only whether the copy of `realloc` fits is modelled, so `alloc_zeroed`, which clears the
bytes of its block, is `alloc` (that pages come zeroed is `AllocIsZeroed` of PagePool).
`palloc_plural` for one caller is `RunServed`: the first run or a panic, as PagePool shows.
A copy beyond a block ends the model (`overrun`).

**AddressSpace** is what `page_map` promises: a map from virtual pages to frames and
permissions, which a call extends page by page, in order, and which keeps what a
failed call has added. **PageTable** (`ptable.rs`) implements it: tables are pages of entries, an
entry is the number the hardware reads (frame number times 1024 plus flags), so
that `phy_to_pte`, `pte_to_phy`, `vpn` and `PageAlignDown` are modelled by what they
compute. One step is one level of `walk` (`WalkDown`, `WalkAlloc`, `WalkFails`) or one turn of
`page_map`'s loop (`MapPage`, `MapFails`, `MapDone`). `LeafOf`, `Mapped` and `Translate`
are the hardware's translation (Sv39), marked external; they are the refinement
mapping. Both profiles are covered: the `size - 1` of an empty range panics
(`page_map_empty`) or wraps to a range without pages.

**KernelMap** composes PageTable with `vm::init`: `NewPool`, `NewGalloc`, the calls of
`kpage_init` in order (a sequence of arguments computed from the layout), `write_satp`,
`test_palloc` and `test_galloc`. A layout is the sizes of the sections of `kernel.ld` in pages. The
properties compare the tables with the memory map, with the stack pointers
`entry.s` computes and with the pages the allocators hold. Hart 1 never writes
`satp` and runs untranslated. The two tests are modelled by the pages they need.

**Console** (`log.rs`, `uart.rs`, `main.rs`, `trap.rs`): several harts, each of which takes a mutex,
puts bytes, and drops the mutex; `MutexOf` says which mutex `print!` locks. The UART
is a line of bytes and what `Uart::init` does to it: until it has closed the divisor latch and
cleared the FIFO a byte may be lost, for certain while the latch is open. `put` never polls the
line status register, so that no byte is lost later is an assumption on the device: the
transmitter takes every byte stored, as QEMU's does. A hart may
trap or panic at any point outside `Uart::init`, inside `print!` too; then it prints that and
stops. A message is a number of bytes.

**MCPagePool**, **MCKalloc**, **MCGalloc**, **MCPageTable** and **MCKernelMap** fix
constants for TLC; Hart and Console are run directly. **PagePoolProofs**,
**PagePoolRefinement**, **KallocProofs**, **GallocProofs**, **PageTableProofs**,
**KernelMapProofs**, **ConsoleProofs** and **HartProofs** hold the theorems; GallocProofs builds on
KallocProofs and KernelMapProofs on PageTableProofs, as the components do.
Definitions commented as a mutant of another one are that definition with a
plausible bug in it; no action uses them. They show that each property can fail.

## Runs

| run | question | result |
|---|---|---|
| `pool` | two harts, four pages, requests up to three: lock, list, ownership, outcomes, pages in use untouched, calls end, PageAllocator implemented | holds |
| `pool_release_double` | is ownership safe without overflow checks? | no: pages in use are handed out |
| `kalloc` | four pages of 64 bytes, five request sizes: tiling, counts, zones, scan, calls end | holds |
| `kalloc_out_of_zone` | does `free` leave a released page alone, or does `scan` at least stay in its zone? | neither, in one behaviour |
| `kalloc_oom` | does `alloc` fail only when no zone has a fit and the pool is empty? | no: it stops at the second zone |
| `ptable` | any calls of `page_map`, aligned or not, overlapping, empty, too far, out of tables: a tree, the address space of AddressSpace, calls end | holds |
| `kernel_map` | kernels of many shapes: map, stacks, reachability, why the boot panics, the boot ends | holds |
| `galloc` | three blocks of every scheme, five pages: apart, aligned, none lost, growing fits, calls end | holds |
| `galloc_shrink` | does `realloc` write only into the new block? | not when it shrinks |
| `console` | two harts, traps and panics anywhere: a hart's bytes in order and none missing but those of another hart's trap during the setup, panics heard | holds |
| `hart` | an interrupt before any instruction: stacks and state kept; the boot reaches main, the timer is served, the kernel goes on | holds, t6 aside |
| `hart_t6` | are all registers restored? | not x31 |

The five runs that fail each check what a comment, doc or slide says; the quotes are
in `PROJECT.json` under `findings`. In short: `alloc_pages` moves `start_region` over a
gap without moving `page`, which wraps without overflow checks; Kalloc reads the header
behind the last chunk, and writes a header into a page it has just released (both in
the behaviour of `kalloc_out_of_zone`); Kalloc never moves `end`, so that with a second
zone `alloc` fails although there are pages; the trap macros stop at x30; `realloc` copies the
old size into a smaller block.

More that the code does against its comments or slides is inside what the passing
properties allow; the first and the last are findings too:

- a run that is long enough but ends the list is refused, because `alloc_pages` tests for the
  end of the list before it tests whether it has enough; and with overflow checks a gap in
  the free list panics. `FailsOnlyWhenShort` says exactly when: a request panics, or one for several
  pages is refused, only when the first run of free pages is no longer than the request.
  That is also why `test_palloc`, which asks for five pages of a fresh pool, passes.
- Kalloc panics only over a page list it has itself overwritten (`PanicOnlyFromJunk`).
- `print!` locks a mutex of its own that nobody else can lock, so the output of two harts
  mixes, although the slides say that a spinlock protects the UART. It has a good side, which
  `PanicHeard` shows: with the shared `WRITER` a panic inside `print!` would wait for its own hart.

Bounds. Four pages and requests of up to three let a list have a gap, a run in front of
and behind pages in use, and a region inserted at each place; two harts are what the
machine has. The bounds matter for
liveness and for the counterexamples; safety is proved for every size. `MaxReq < Bottom` because RAM starts at 2 GiB, far above the number of its pages. A Kalloc page of 64
bytes holds at most four chunks (the real one 256), enough for a used chunk
between free ones, splits that leave exactly a header, and merges of three;
request sizes 1, 15, 24 and 48 cover rounding and the exact fit of a whole zone, 0
is refused. `MaxOthers` is 2. Galloc's sizes are 0 (panic), two that share a zone, the
largest chunk and one byte more, a page and one byte more; alignments are 1, 16 (a
page for a small block) and 128 (more than a page: panic); five pages and three blocks
let a large block come before, between and behind zones. PageTable has two entries to
a table, eight virtual pages and pools of 0 to 7 pages, so that calls run out at every
level of every walk; seven calls cover the cases of a range. KernelMap has eight
entries to a table, 512 virtual pages and two harts, and RAM from hopeless (two pages of
pool) through one page short and just enough to plenty. A page has two bytes: what
matters of a page is its alignment. Console has three messages of two bytes, two of them before `trap::init`, as
in `main`, and two harts. Panicked and overrun states loop, so TLC's deadlock check is on
everywhere.

Fairness. PagePool: a hart inside a call goes on (weak fairness on its steps);
nothing is assumed of when harts call, nor of who wins the lock, so nothing is
claimed of a hart that spins. Kalloc, Galloc, PageTable: a call under way goes on; nothing is assumed
of the caller. KernelMap: the boot goes on. Console: every hart goes on executing,
nothing is assumed of traps and panics. Hart: it goes on
executing, `mtime` goes on counting, and what a timer interrupt interrupted gets
to execute between two interrupts (strong fairness on `Main`, `Run`, `SSave`, `s_handler`),
because `m_handler` asks for 10,000,000 ticks, about a second. `short` is the
kind of timer, and the run has both: it is FALSE when an interval outlasts the boot and
the handler, for the same reason. `MretTargetsMain` and the liveness properties are
about that kind: with a short interval an interrupt between `write_mie` and `mret`
overwrites `mepc` and `MPP`, and `mret` returns to itself in user mode. `StacksApart` and
`TrapTransparent` hold for both.

## Proofs

Each component has an inductive invariant, a conjunction of named parts; one lemma per
action shows that the action keeps it; the theorems follow from it.

### Page pool and spinlock

For every set of harts, pool of at least two pages, bound on requests and contents of
client pages (`PoolAssumption`):

- `MutexCorrect`: `Spec => []MutualExclusion`, dev and release. Invariant: a hart inside
  holds `lock = 1` (`LockInv`), and only one is inside.
- With overflow checks: `PoolInvHolds`, and from it `NoDoubleAllocHolds`,
  `FreeListExactHolds`, `PagesComeZeroed` (`AllocIsZeroed`), `SinglePageIsServed`
  (`SinglePageServed`), `FailureNeedsShortRun` (`FailsOnlyWhenShort`), `LowestPagesFirst`
  (`AllocTakesLowest`), `TypeCorrect`, `HeldPagesUntouchedHolds`
  and `PoolRefinesAllocator`.

`FreeListExact` is stated without recursion: every free page's `nxt` is the next
free page in address order and `prv` its inverse, and `free` is the lowest. It is
not inductive alone. `PoolInv` adds what the locals mean between two steps: during a
search (`SearchInv`) the pages `start_region..page` are the first pages of the list,
or a gap was met and the search is doomed, in which case the first run is short;
during a free (`InsertInv`) the region is linked inside and the walk stands on a
free page below it. Ownership (`InFlight`) counts the region of a call under way as
its hart's from `pfree_plural` to the insertion, and from `Unlink` to the return. One lemma
per step shows that it keeps `PoolInv`; a step inside the pool uses `MutualExclusion`
to know that no other hart is. Without overflow checks the search part fails, as
`pool_release_double` shows.

### Kalloc

For every page size that is a multiple of 8 and lets a count hold the chunks of a zone (a
chunk takes 16 bytes at least, so 4096 / 16 < 510), every set of pages and of requests
(`KallocAssumption`): `KallocTypeOK`, `KallocChunksTile`, `KallocLiveExact`, `KallocZonesLinked`,
`KallocScanComplete`, `KallocPanicOnlyFromJunk` and `KallocLiveUntouched` (an action
property), from `KallocInvHolds`.

`KallocInv` is about the chunks, the allocations, the pages and the scan:

- `Tiled`: a chunk ends where the next begins or at the end of the zone, and none begins inside
  another. Two lemmas about chunk maps carry it, one for a split and one for a merge; the
  properties of a zone need nothing else of what `alloc` and `free` do to headers.
- `LiveInv`: used chunks are the allocations, and the count of a zone is their number. That
  the count does not overflow needs the tiling: it is bounded by the number of chunks.
- `PagesInv`: pages are divided between pool, zones and others, and there is at most one
  zone behind the first. That is not in the code's comments; it is true because
  `grow_pool` is reached only while the scanned zone, always the first, has no next.
- `ScanInv`: what the scan has passed has no chunk that fits and no two free neighbours
  (`Scanned`); at the end of the scan that is the whole first zone, which is all that
  `KallocScanComplete` claims of a failure. That the pool is empty it cannot claim
  (`kalloc_oom`).

After a panic the division of pages is not claimed: `free` stops between its steps.

### Galloc

For any sizes, and alignments that divide a page and, up to 8, divide 8 (they are powers
of two in Rust): `GallocBlocksApart`, `GallocNothingLost`, `GallocGrowthFits`, from
`GallocInvHolds`. `GallocInv` contains `KallocInv`, since Galloc runs Kalloc's own actions.
On top, a small block is a chunk in use with the size asked for, a large block is a run
of pages of `others` that no other block has, and every page of `others` belongs to one
(`BlocksInv`). Between two calls every chunk in use is a block; after Kalloc has found a
chunk and before Galloc returns it there is one more (`LiveCoveredButOne`). `dealloc` decides
again, from the layout, between small and large: `NothingLost` is the statement that it
decides the same. After a panic only `BlocksApart` is kept.

### PageTable

For every page size, number of entries per table (at least 2), pool of aligned pages and set
of calls that stay inside the address arithmetic (`PageTableAssumption`): `PageTableTypeOK`,
`PageTableTree` (`TablesAreATree`), `PageTableFailureExplained` and `PageTableRefines`, from
`PageTableInvHolds`.

`TreeInv` says that there are functions giving each table its level and the table and index
of the one entry that points to it, and that a valid entry above the last level is such an
entry. `CallInv` places `walk` on the path of the page that `page_map` has come to. The step
that matters is storing a leaf: it changes one translation only, because the three indexes
that `vpn` cuts out of an address determine the page, and two paths that meet in a tree
have the same indexes above. Linking a new, zeroed table changes none. Below it are lemmas about
division (`vpn`, `PageAlignDown`, packing an address into an entry), with the sizes as variables.
The refinement goes action by action: `page_map` is AddressSpace's request, `MapPage` its step,
a return its end, and every step of `walk` a stutter.

### KernelMap

For every layout, number of harts, page size and table size (`KernelMapAssumption`: aligned
bases, the UART below RAM, RAM that holds the sections, and all of it below `VA_TOP`):
`KernelMapExactHolds`, `KernelStacksGuarded`, `KernelPoolReachable` and `KernelPanicExplained`, from
`KernelInvHolds`.

The calls of `kpage_init` come in the order of their addresses (`CallsOrdered`) and leave out
exactly the pages without permission (`PermissionOfCalls`), so one formula describes the
tables at every step: they hold the memory map below the page `page_map` has come to
(`SpaceMap = Identity(CurrentPage)`). After the last call that is the whole map. A page that is
already mapped is below that page, so no call fails over one. For `PanicExplained` the
invariant also says that each table but the root is on the path of a used page (`OnPath`);
mapping tables to the regions of those pages is injective, which bounds their number, and tables,
free pages and the small pool together are the pool. For `StacksGuarded` the stack
pointers of `_entry`, counted from the top of a region, are compared with the guards, counted
from its bottom.

### Console

For every number of harts, messages and bytes of a message: `ConsoleSaidInOrder`. A byte is
said when it is put, on the line or lost. `SaidInOrder` has three parts for each hart: its bytes on the line
are in the order main's messages, trap, panic (`InOrder`); before any byte that is said all of its
message is, and before it the messages that it follows, unless a trap or panic cut one of main's
(`NoneSkipped`); what the hart has come to is said (`UpToDate`). And no byte of hart 0 is lost.
The invariant adds that everything said lies before the byte that comes next
(`BehindNow`), that a message begins when the one before it is complete (`CompleteBefore`), and that
hart 0 is inside `Uart::init` until the UART is ready (`Stages`).

### Hart

Of Hart, with any kind of timer: `TrapStacksApart` (`StacksApart`), `InterruptsInvisible`
(`TrapTransparent`), `BootReachesMain` (`MretTargetsMain`) and `HartTypeCorrect`, from
`HartInvHolds`. Its invariant `HartInv` says what `mscratch`, `mepc`, `MPP` and the frame hold at
each instruction of `__mtrapvec` (`TrapInv`, `StacksInv`), and that an interrupt finds its
vector written and never comes inside `__mtrapvec` (`ReturnInv`): otherwise the second trap would
overwrite the place the first returns to. `BootInv` adds that without short intervals no
interrupt comes before the `mret` of `_start`. One lemma per part, one case per step.

### Only model-checked

The liveness properties (`CallReturns`, `AllocReturns`, `GallocReturns`, `PageMapReturns`,
`BootCompletes`, `PanicHeard`, `TimerServiced`, `KernelProgresses`): they need fairness, which is outside the
prover's reach. And the five violations, which are counterexamples and need no proof.

## Not modelled, and the plan

Plan, in this order:

1. What the theorems say together: Kalloc and PageTable take the page pool as what PagePool
   promises to one caller; state that as an abstract specification both use.
2. Two callers in the unlocked `small_pool`, once a second hart allocates.

Not modelled, with the reason:

- `src/hw/riscv.rs`: one instruction per function; its effect is in Hart and, for
  `satp`, in KernelMap. The TLB: `write_satp` flushes it on both sides of the write
  and no entry changes after that.
- `Uart::get`, which nothing calls, the interrupt registers of the UART and its line status, the
  banner and the wording of messages.
- `walk` with `alloc_new = false`, which nothing calls, and the flags above `PTE_EXEC`.
- an exception inside `s_handler` or the panic handler, which would start the
  handler again on the same stack.
- the types of `src/vm/process.rs`, which nothing uses yet, and `HartContext` and
  `TrapFrame` likewise.
- alignment and zero-page panics of `pfree` and `palloc_plural`: no caller reaches them.
