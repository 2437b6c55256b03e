-------------------------------- MODULE Hart --------------------------------
(***************************************************************************)
(* One hart from reset to the kernel's main loop, and the traps it takes:  *)
(* asm/entry.s, _start and main (main.rs), timerinit (hw.rs), the trap     *)
(* vectors (asm/trap.s), their handlers (trap.rs) and the timer            *)
(* (device/clint.rs).  Harts share no state here, so one is enough.        *)
(*                                                                         *)
(* The hart takes an enabled interrupt before its next instruction; what   *)
(* a trap and mret do to the CSRs is the RISC-V privileged architecture.   *)
(***************************************************************************)
EXTENDS Integers

CONSTANT
  ShortIntervals  \* may a timer interval end inside the boot or a handler?

(* timerinit and m_handler ask for 10,000,000 ticks, about a second: FALSE *)
(* is the hardware the kernel runs on, TRUE any timer at all.              *)
ASSUME HartAssumption == ShortIntervals \subseteq BOOLEAN

(* Mutant of LoadedRegs: a caller-saved register is not loaded. *)
LoadedFew == {"s1"}

(* One register of each kind: a0 is caller-saved, s1 callee-saved, tp is   *)
(* x4, t6 is x31.  save_gp_regs stores x0..x30, load_gp_regs loads all of  *)
(* those but x4.                                                           *)
Regs       == {"a0", "s1", "tp", "t6"}
SavedRegs  == {"a0", "s1", "tp"}
LoadedRegs == {"a0", "s1"}
Clobbered  == {"a0", "t6"}   \* what a Rust function may leave changed

Boot == {"entry", "mstatus", "mepc", "setup", "mtimecmp", "mtvec", "MIE", "MTIE", "mret"}
MTrap == {"msave", "mhandler", "mload", "mtrapret"}

VARIABLES
  pc,        \* the next instruction, or group of instructions
  mode,      \* privilege mode: "M", "S" or "U"
  mpp, mie, mpie,      \* mstatus
  mepc,      \* where mret goes
  mtie,      \* timer interrupt enable in mie
  mtvec, stvec,        \* are the trap vectors written?
  due,       \* mtime >= mtimecmp
  sp, mscratch, sscratch,   \* which stack each points to
  regs,      \* the program's value, or one left by a handler
  frame,     \* the registers stored by the last __mtrapvec
  work,      \* flips whenever the kernel executes on
  at,        \* what the last interrupt interrupted
  short      \* the kind of timer, one of ShortIntervals

csrs  == <<mpp, mie, mpie, mepc, mtie, mtvec, stvec>>
stack == <<sp, mscratch, sscratch>>
vars  == <<pc, mode, csrs, due, stack, regs, frame, work, at, short>>

Init ==
  /\ pc = "entry" /\ mode = "M"
  /\ mpp = "U" /\ mie = FALSE /\ mpie = FALSE /\ mepc = "unset"
  /\ mtie = FALSE /\ mtvec = FALSE /\ stvec = FALSE
  /\ due \in BOOLEAN
  /\ sp = "none" /\ mscratch = "none" /\ sscratch = "none"
  /\ regs = [r \in Regs |-> "program"]
  /\ frame = [r \in SavedRegs |-> "program"]
  /\ work = 0
  /\ at = [pc |-> "entry", mode |-> "M", sp |-> "none", regs |-> regs]
  /\ short \in ShortIntervals

-----------------------------------------------------------------------------
(* The timer of device/clint.rs and the hart's interrupt logic. *)

Interrupted == due /\ mtie /\ (mode # "M" \/ mie)

(* The hart executes the instructions at label, no interrupt coming first. *)
At(label) == pc = label /\ ~Interrupted

Tick ==
  /\ ~due /\ (pc \in Boot \cup MTrap => short)
  /\ due' = TRUE
  /\ UNCHANGED <<pc, mode, csrs, stack, regs, frame, work, at, short>>

Interrupt ==
  /\ Interrupted
  /\ mepc' = pc /\ mpp' = mode /\ mpie' = mie /\ mie' = FALSE
  /\ mode' = "M"
  /\ pc' = IF mtvec THEN "msave" ELSE "lost"
  /\ at' = [pc |-> pc, mode |-> mode, sp |-> sp, regs |-> regs]
  /\ UNCHANGED <<mtie, mtvec, stvec, due, stack, regs, frame, work, short>>

(* mret, of _start and of __mtrapvec. *)
Mret ==
  /\ pc \in {"mret", "mtrapret"} /\ mode = "M" /\ ~Interrupted
  /\ pc' = mepc /\ mode' = mpp
  /\ mie' = mpie /\ mpie' = TRUE /\ mpp' = "U"
  /\ UNCHANGED <<mepc, mtie, mtvec, stvec, due, stack, regs, frame, work, at, short>>

(* mret below machine mode is an illegal instruction; _start delegated it  *)
(* to supervisor mode, whose vector nobody has written yet.                *)
IllegalMret ==
  /\ At("mret") /\ mode # "M"
  /\ pc' = "lost"
  /\ UNCHANGED <<mode, csrs, due, stack, regs, frame, work, at, short>>

-----------------------------------------------------------------------------
(* The boot, step by step. *)

(* _entry: the hart's stack and the stacks of its two trap vectors. *)
Entry ==
  /\ At("entry") /\ pc' = "mstatus"
  /\ sp' = "kstack" /\ mscratch' = "mstack" /\ sscratch' = "sstack"
  /\ UNCHANGED <<mode, csrs, due, regs, frame, work, at, short>>

SetMPP ==
  /\ At("mstatus") /\ pc' = "mepc" /\ mpp' = "S"
  /\ UNCHANGED <<mode, mie, mpie, mepc, mtie, mtvec, stvec, due, stack, regs, frame, work, at, short>>

SetMepc ==
  /\ At("mepc") /\ pc' = "setup" /\ mepc' = "main"
  /\ UNCHANGED <<mode, mpp, mie, mpie, mtie, mtvec, stvec, due, stack, regs, frame, work, at, short>>

(* satp, delegation, supervisor interrupt enables, PMP and tp. *)
Setup ==
  /\ At("setup") /\ pc' = "mtimecmp"
  /\ UNCHANGED <<mode, csrs, due, stack, regs, frame, work, at, short>>

(* Mutant of SetMtimecmp: the interrupt is enabled with mtimecmp as reset  *)
(* left it.                                                                *)
SetMtimecmpMissing ==
  /\ At("mtimecmp") /\ pc' = "mtvec"
  /\ UNCHANGED <<mode, csrs, due, stack, regs, frame, work, at, short>>

(* timerinit *)
SetMtimecmp ==
  /\ At("mtimecmp") /\ pc' = "mtvec" /\ due' = FALSE
  /\ UNCHANGED <<mode, csrs, stack, regs, frame, work, at, short>>

SetMtvec ==
  /\ At("mtvec") /\ pc' = "MIE" /\ mtvec' = TRUE
  /\ UNCHANGED <<mode, mpp, mie, mpie, mepc, mtie, stvec, due, stack, regs, frame, work, at, short>>

SetMIE ==
  /\ At("MIE") /\ pc' = "MTIE" /\ mie' = TRUE
  /\ UNCHANGED <<mode, mpp, mpie, mepc, mtie, mtvec, stvec, due, stack, regs, frame, work, at, short>>

SetMTIE ==
  /\ At("MTIE") /\ pc' = "mret" /\ mtie' = TRUE
  /\ UNCHANGED <<mode, mpp, mie, mpie, mepc, mtvec, stvec, due, stack, regs, frame, work, at, short>>

(* main: trap::init, then the rest of the kernel. *)
Main ==
  /\ At("main") /\ pc' = "run" /\ stvec' = TRUE
  /\ UNCHANGED <<mode, mpp, mie, mpie, mepc, mtie, mtvec, due, stack, regs, frame, work, at, short>>

Run ==
  /\ At("run") /\ work' = 1 - work
  /\ UNCHANGED <<pc, mode, csrs, due, stack, regs, frame, at, short>>

-----------------------------------------------------------------------------
(* Traps *)

(* __mtrapvec: swap in the interrupt stack and save the registers. *)
MSave ==
  /\ At("msave") /\ pc' = "mhandler"
  /\ sp' = mscratch /\ mscratch' = sp
  /\ frame' = [r \in SavedRegs |-> regs[r]]
  /\ UNCHANGED <<mode, csrs, due, sscratch, regs, work, at, short>>

(* Mutant of m_handler: mtimecmp is not set again. *)
m_handlerNoTimer(left) ==
  /\ At("mhandler") /\ pc' = "mload"
  /\ regs' = [r \in Regs |-> IF r \in left THEN "handler" ELSE regs[r]]
  /\ UNCHANGED <<mode, csrs, due, stack, frame, work, at, short>>

(* m_handler of a timer interrupt sets the next one. *)
m_handler(left) ==
  /\ At("mhandler") /\ pc' = "mload"
  /\ due' = FALSE
  /\ regs' = [r \in Regs |-> IF r \in left THEN "handler" ELSE regs[r]]
  /\ UNCHANGED <<mode, csrs, stack, frame, work, at, short>>

(* Mutant of MLoad: sp and mscratch are not swapped back. *)
MLoadNoSwap ==
  /\ At("mload") /\ pc' = "mtrapret"
  /\ regs' = [r \in Regs |-> IF r \in LoadedRegs THEN frame[r] ELSE regs[r]]
  /\ UNCHANGED <<mode, csrs, due, stack, frame, work, at, short>>

MLoad ==
  /\ At("mload") /\ pc' = "mtrapret"
  /\ regs' = [r \in Regs |-> IF r \in LoadedRegs THEN frame[r] ELSE regs[r]]
  /\ sp' = mscratch /\ mscratch' = sp
  /\ UNCHANGED <<mode, csrs, due, sscratch, frame, work, at, short>>

(* An exception in the kernel (a page fault) enters __strapvec, *)
Exception ==
  /\ At("run") /\ stvec /\ pc' = "ssave"
  /\ UNCHANGED <<mode, csrs, due, stack, regs, frame, work, at, short>>

(* which swaps in its stack and saves the registers for s_handler; that    *)
(* always panics and never returns.                                        *)
SSave ==
  /\ At("ssave") /\ pc' = "shandler"
  /\ sp' = sscratch /\ sscratch' = sp
  /\ UNCHANGED <<mode, csrs, due, mscratch, regs, frame, work, at, short>>

s_handler ==
  /\ At("shandler") /\ pc' = "panicked"
  /\ UNCHANGED <<mode, csrs, due, stack, regs, frame, work, at, short>>

(* loop {} of the panic handler; and a hart lost outside the kernel. *)
Stopped == pc \in {"panicked", "lost"} /\ UNCHANGED vars

-----------------------------------------------------------------------------
Execute ==
  \/ Interrupt \/ Mret \/ IllegalMret
  \/ Entry \/ SetMPP \/ SetMepc \/ Setup \/ SetMtimecmp \/ SetMtvec \/ SetMIE
  \/ SetMTIE \/ Main \/ Run
  \/ MSave \/ (\E left \in SUBSET Clobbered : m_handler(left)) \/ MLoad
  \/ SSave \/ s_handler

Next == Execute \/ Exception \/ Tick \/ Stopped

Spec == Init /\ [][Next]_vars

(* The hart goes on executing and mtime goes on counting; the interval     *)
(* outlasts a trap, so that what was interrupted gets to go on as well.    *)
FairSpec ==
  /\ Spec
  /\ WF_vars(Execute) /\ WF_vars(Tick)
  /\ SF_vars(Main) /\ SF_vars(Run) /\ SF_vars(SSave) /\ SF_vars(s_handler)

-----------------------------------------------------------------------------
Stacks == {"none", "kstack", "mstack", "sstack"}
Labels == Boot \cup MTrap \cup {"main", "run", "ssave", "shandler", "panicked", "lost"}

TypeOK ==
  /\ pc \in Labels /\ mode \in {"M", "S", "U"} /\ mpp \in {"M", "S", "U"}
  /\ mie \in BOOLEAN /\ mpie \in BOOLEAN /\ mtie \in BOOLEAN
  /\ mtvec \in BOOLEAN /\ stvec \in BOOLEAN /\ due \in BOOLEAN /\ short \in BOOLEAN
  /\ mepc \in Labels \cup {"unset"}
  /\ sp \in Stacks /\ mscratch \in Stacks /\ sscratch \in Stacks
  /\ regs \in [Regs -> {"program", "handler"}]
  /\ frame \in [SavedRegs -> {"program", "handler"}]
  /\ work \in {0, 1}
  /\ at \in [pc : Labels, mode : {"M", "S", "U"}, sp : Stacks,
             regs : [Regs -> {"program", "handler"}]]

(* A timer interrupt is invisible to what it interrupts, wherever it       *)
(* strikes, a supervisor trap included: __mtrapvec returns to the same     *)
(* instruction, mode and stack, with the registers it had, t6 aside.       *)
TrapTransparent ==
  [][pc = "mtrapret" /\ pc' # "mtrapret" =>
       /\ pc' = at.pc /\ mode' = at.mode /\ sp' = at.sp
       /\ \A r \in Regs \ {"t6"} : regs'[r] = at.regs[r]]_vars

(* The two trap vectors and the kernel never share a stack: the machine    *)
(* handler always finds its own stack in mscratch, also inside s_handler,  *)
(* and leaves it there.                                                    *)
StacksApart ==
  /\ pc \in {"mhandler", "mload"} => sp = "mstack" /\ mscratch = at.sp
  /\ pc \notin {"entry", "mhandler", "mload"} => mscratch = "mstack"
  /\ pc \notin {"entry", "lost"} => {sp, mscratch, sscratch} = {"kstack", "mstack", "sstack"}

(* "Now return to sup mode and jump to main()" (main.rs:91): when _start   *)
(* comes to call_mret, mepc and MPP are still what it wrote, although      *)
(* timerinit has enabled an interrupt whose trap overwrites both, and      *)
(* mtimecmp may have been overdue at reset.  It takes an interval that     *)
(* outlasts the boot.                                                      *)
MretTargetsMain == ~short /\ pc = "mret" => mepc = "main" /\ mpp = "S"

(* A timer interrupt that is due gets handled and the next one set, while  *)
(* the kernel runs and after it has panicked.                              *)
TimerServiced == ~short /\ due /\ mtie ~> ~due

(* Timer interrupts do not starve the kernel: it executes on between any   *)
(* two of them, unless it has panicked.                                    *)
KernelProgresses ==
  /\ ~short /\ work = 0 ~> work = 1 \/ pc = "panicked"
  /\ ~short /\ work = 1 ~> work = 0 \/ pc = "panicked"

(* "Save registers to allow restoration of previous state."                *)
(* (docs/presentation/slides.tex:144): every register.                     *)
RegistersRestored ==
  [][pc = "mtrapret" /\ pc' # "mtrapret" => regs' = at.regs]_vars
=============================================================================
