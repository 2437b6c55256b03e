----------------------------- MODULE HartProofs -----------------------------
(***************************************************************************)
(* Proofs about Hart: the stacks of the kernel and of its two trap vectors *)
(* stay apart, a timer interrupt is invisible to what it interrupts (t6    *)
(* aside), and, when no timer interval ends inside the boot, the mret of   *)
(* _start reaches main.                                                    *)
(***************************************************************************)
EXTENDS Hart, TLAPS

Kept(names, values) == \A r \in names : values[r] = at.regs[r]

(* What holds while __mtrapvec runs: it can return to what it interrupted, *)
(* and nothing interrupts it.                                              *)
TrapInv ==
  /\ pc \in MTrap => mode = "M" /\ ~mie /\ mepc = at.pc /\ mpp = at.mode
  /\ pc = "msave"    => sp = at.sp /\ Kept(Regs, regs)
  /\ pc = "mhandler" => Kept(Regs, regs) /\ Kept(SavedRegs, frame)
  /\ pc = "mload"    => Kept(Regs \ Clobbered, regs) /\ Kept(SavedRegs, frame)
  /\ pc = "mtrapret" => sp = at.sp /\ Kept(Regs \ {"t6"}, regs)

(* Interrupts are enabled only once their vector and the stacks exist, and *)
(* none is taken inside another: mret never goes to the entry or into      *)
(* __mtrapvec.                                                             *)
ReturnInv ==
  /\ mtie => mtvec /\ pc # "entry"
  /\ pc \in MTrap \cup {"MIE", "MTIE", "mret"} => mtvec
  /\ mepc \notin MTrap \cup {"entry"}
  /\ mepc = "unset" => pc \in {"entry", "mstatus", "mepc"} /\ ~mtie

StacksInv ==
  /\ pc \in {"mhandler", "mload"} => sp = "mstack" /\ mscratch = at.sp
  /\ pc \notin {"entry", "mhandler", "mload"} => mscratch = "mstack"
  /\ pc # "entry" => {sp, mscratch, sscratch} = {"kstack", "mstack", "sstack"}

HartInv == TypeOK /\ TrapInv /\ ReturnInv /\ StacksInv

(* With an interval that outlasts it, the boot is never interrupted: what  *)
(* mepc and MPP hold from the moment they are written.                     *)
BootInv ==
  ~short =>
    /\ pc \in {"mtvec", "MIE", "MTIE", "mret"} => ~due
    /\ pc \in {"mepc", "setup", "mtimecmp", "mtvec", "MIE", "MTIE", "mret"} => mpp = "S"
    /\ pc \in {"setup", "mtimecmp", "mtvec", "MIE", "MTIE", "mret"} => mepc = "main"
    /\ mtie => pc \notin Boot \ {"mret"}
    /\ pc \notin Boot => mepc \notin Boot

-----------------------------------------------------------------------------
(* Reset satisfies the invariants. *)
LEMMA InitInv ==
  ASSUME Init
  PROVE  HartInv /\ BootInv
BY HartAssumption DEF Init, HartInv, BootInv, TypeOK, TrapInv, ReturnInv, StacksInv,
   Labels, Stacks, Boot, MTrap

(* Every step leaves the variables in their types: mret goes to an         *)
(* instruction.                                                            *)
LEMMA TypeStep ==
  ASSUME HartInv, [Next]_vars
  PROVE  TypeOK'
<1>. USE DEF HartInv, TypeOK, ReturnInv, Labels, Stacks, Boot, MTrap, Regs,
             SavedRegs, LoadedRegs, Clobbered
<1>1. CASE UNCHANGED vars
  BY <1>1 DEF vars, csrs, stack
<1>2. CASE Interrupt
  <2>1. mie' \in BOOLEAN
    BY <1>2, Zenon DEF Interrupt
  <2>. QED
    BY <1>2, <2>1 DEF Interrupt, stack
<1>3. CASE \E left \in SUBSET Clobbered : m_handler(left)
  <2>1. due' \in BOOLEAN
    BY <1>3, Zenon DEF m_handler
  <2>. QED
    BY <1>3, <2>1 DEF m_handler, At, csrs, stack
<1>4. CASE Mret
  BY <1>4 DEF Mret, Interrupted, stack
<1>5. CASE IllegalMret
  BY <1>5 DEF IllegalMret, At, csrs, stack
<1>6. CASE Entry
  BY <1>6 DEF Entry, At, csrs
<1>7. CASE SetMPP
  BY <1>7 DEF SetMPP, At, stack
<1>8. CASE SetMepc
  BY <1>8 DEF SetMepc, At, stack
<1>9. CASE Setup
  BY <1>9 DEF Setup, At, csrs, stack
<1>10. CASE SetMtimecmp
  <2>1. due' \in BOOLEAN
    BY <1>10, Zenon DEF SetMtimecmp
  <2>. QED
    BY <1>10, <2>1 DEF SetMtimecmp, At, csrs, stack
<1>11. CASE SetMtvec
  BY <1>11 DEF SetMtvec, At, stack
<1>12. CASE SetMIE
  BY <1>12 DEF SetMIE, At, stack
<1>13. CASE SetMTIE
  BY <1>13 DEF SetMTIE, At, stack
<1>14. CASE Main
  BY <1>14 DEF Main, At, stack
<1>15. CASE Run
  BY <1>15 DEF Run, At, csrs, stack
<1>16. CASE MSave
  BY <1>16 DEF MSave, At, csrs
<1>17. CASE MLoad
  BY <1>17 DEF MLoad, At, csrs
<1>18. CASE s_handler
  BY <1>18 DEF s_handler, At, csrs, stack
<1>19. CASE Exception
  BY <1>19 DEF Exception, At, csrs, stack
<1>20. CASE SSave
  BY <1>20 DEF SSave, At, csrs
<1>21. CASE Tick
  BY <1>21 DEF Tick, csrs, stack
<1>. QED
  BY <1>1, <1>2, <1>3, <1>4, <1>5, <1>6, <1>7, <1>8, <1>9, <1>10, <1>11,
     <1>12, <1>13, <1>14, <1>15, <1>16, <1>17, <1>18, <1>19, <1>20, <1>21
     DEF Next, Execute, Stopped

(* The handler may change what a Rust function may; the frame keeps the    *)
(* rest until it is loaded again.                                          *)
LEMMA TrapStep ==
  ASSUME HartInv, [Next]_vars
  PROVE  TrapInv'
<1>. USE DEF HartInv, TypeOK, TrapInv, ReturnInv, StacksInv, Kept, MTrap,
             Regs, SavedRegs, LoadedRegs, Clobbered
<1>1. CASE UNCHANGED vars
  BY <1>1 DEF vars, csrs, stack
<1>2. CASE Interrupt
  BY <1>2 DEF Interrupt, Interrupted, stack
<1>3. CASE \E left \in SUBSET Clobbered : m_handler(left)
  BY <1>3 DEF m_handler, At, csrs, stack
<1>4. CASE Mret
  BY <1>4 DEF Mret, Interrupted, stack
<1>5. CASE IllegalMret
  BY <1>5 DEF IllegalMret, At, csrs, stack
<1>6. CASE Entry
  BY <1>6 DEF Entry, At, csrs
<1>7. CASE SetMPP
  BY <1>7 DEF SetMPP, At, stack
<1>8. CASE SetMepc
  BY <1>8 DEF SetMepc, At, stack
<1>9. CASE Setup
  BY <1>9 DEF Setup, At, csrs, stack
<1>10. CASE SetMtimecmp
  BY <1>10 DEF SetMtimecmp, At, csrs, stack
<1>11. CASE SetMtvec
  BY <1>11 DEF SetMtvec, At, stack
<1>12. CASE SetMIE
  BY <1>12 DEF SetMIE, At, stack
<1>13. CASE SetMTIE
  BY <1>13 DEF SetMTIE, At, stack
<1>14. CASE Main
  BY <1>14 DEF Main, At, stack
<1>15. CASE Run
  BY <1>15 DEF Run, At, csrs, stack
<1>16. CASE MSave
  BY <1>16 DEF MSave, At, csrs
<1>17. CASE MLoad
  BY <1>17 DEF MLoad, At, csrs
<1>18. CASE s_handler
  BY <1>18 DEF s_handler, At, csrs, stack
<1>19. CASE Exception
  BY <1>19 DEF Exception, At, csrs, stack
<1>20. CASE SSave
  BY <1>20 DEF SSave, At, csrs
<1>21. CASE Tick
  BY <1>21 DEF Tick, csrs, stack
<1>. QED
  BY <1>1, <1>2, <1>3, <1>4, <1>5, <1>6, <1>7, <1>8, <1>9, <1>10, <1>11,
     <1>12, <1>13, <1>14, <1>15, <1>16, <1>17, <1>18, <1>19, <1>20, <1>21
     DEF Next, Execute, Stopped

(* An interrupt in __mtrapvec is impossible, machine mode having its       *)
(* interrupts off; anywhere else it saves a place to return to.            *)
LEMMA ReturnStep ==
  ASSUME HartInv, [Next]_vars
  PROVE  ReturnInv'
<1>. USE DEF HartInv, TrapInv, ReturnInv, MTrap
<1>1. CASE UNCHANGED vars
  BY <1>1 DEF vars, csrs, stack
<1>2. CASE Interrupt
  BY <1>2 DEF Interrupt, Interrupted, stack, TypeOK, Labels, Boot
<1>3. CASE \E left \in SUBSET Clobbered : m_handler(left)
  BY <1>3 DEF m_handler, At, csrs, stack
<1>4. CASE Mret
  BY <1>4 DEF Mret, Interrupted, stack
<1>5. CASE IllegalMret
  BY <1>5 DEF IllegalMret, At, csrs, stack
<1>6. CASE Entry
  BY <1>6 DEF Entry, At, csrs
<1>7. CASE SetMPP
  BY <1>7 DEF SetMPP, At, stack
<1>8. CASE SetMepc
  BY <1>8 DEF SetMepc, At, stack
<1>9. CASE Setup
  BY <1>9 DEF Setup, At, csrs, stack
<1>10. CASE SetMtimecmp
  BY <1>10 DEF SetMtimecmp, At, csrs, stack
<1>11. CASE SetMtvec
  BY <1>11 DEF SetMtvec, At, stack
<1>12. CASE SetMIE
  BY <1>12 DEF SetMIE, At, stack
<1>13. CASE SetMTIE
  BY <1>13 DEF SetMTIE, At, stack
<1>14. CASE Main
  BY <1>14 DEF Main, At, stack
<1>15. CASE Run
  BY <1>15 DEF Run, At, csrs, stack
<1>16. CASE MSave
  BY <1>16 DEF MSave, At, csrs
<1>17. CASE MLoad
  BY <1>17 DEF MLoad, At, csrs
<1>18. CASE s_handler
  BY <1>18 DEF s_handler, At, csrs, stack
<1>19. CASE Exception
  BY <1>19 DEF Exception, At, csrs, stack
<1>20. CASE SSave
  BY <1>20 DEF SSave, At, csrs
<1>21. CASE Tick
  BY <1>21 DEF Tick, csrs, stack
<1>. QED
  BY <1>1, <1>2, <1>3, <1>4, <1>5, <1>6, <1>7, <1>8, <1>9, <1>10, <1>11,
     <1>12, <1>13, <1>14, <1>15, <1>16, <1>17, <1>18, <1>19, <1>20, <1>21
     DEF Next, Execute, Stopped

(* Each vector swaps its scratch register with sp and only __mtrapvec,     *)
(* which swaps back, is ever left.                                         *)
LEMMA StacksStep ==
  ASSUME HartInv, [Next]_vars
  PROVE  StacksInv'
<1>. USE DEF HartInv, TrapInv, ReturnInv, StacksInv, MTrap
<1>1. CASE UNCHANGED vars
  BY <1>1 DEF vars, csrs, stack
<1>2. CASE Interrupt
  BY <1>2 DEF Interrupt, Interrupted, stack
<1>3. CASE \E left \in SUBSET Clobbered : m_handler(left)
  BY <1>3 DEF m_handler, At, csrs, stack
<1>4. CASE Mret
  BY <1>4 DEF Mret, Interrupted, stack
<1>5. CASE IllegalMret
  BY <1>5 DEF IllegalMret, At, csrs, stack
<1>6. CASE Entry
  BY <1>6 DEF Entry, At, csrs
<1>7. CASE SetMPP
  BY <1>7 DEF SetMPP, At, stack
<1>8. CASE SetMepc
  BY <1>8 DEF SetMepc, At, stack
<1>9. CASE Setup
  BY <1>9 DEF Setup, At, csrs, stack
<1>10. CASE SetMtimecmp
  BY <1>10 DEF SetMtimecmp, At, csrs, stack
<1>11. CASE SetMtvec
  BY <1>11 DEF SetMtvec, At, stack
<1>12. CASE SetMIE
  BY <1>12 DEF SetMIE, At, stack
<1>13. CASE SetMTIE
  BY <1>13 DEF SetMTIE, At, stack
<1>14. CASE Main
  BY <1>14 DEF Main, At, stack
<1>15. CASE Run
  BY <1>15 DEF Run, At, csrs, stack
<1>16. CASE MSave
  BY <1>16 DEF MSave, At, csrs
<1>17. CASE MLoad
  BY <1>17 DEF MLoad, At, csrs
<1>18. CASE s_handler
  BY <1>18 DEF s_handler, At, csrs, stack
<1>19. CASE Exception
  BY <1>19 DEF Exception, At, csrs, stack
<1>20. CASE SSave
  BY <1>20 DEF SSave, At, csrs
<1>21. CASE Tick
  BY <1>21 DEF Tick, csrs, stack
<1>. QED
  BY <1>1, <1>2, <1>3, <1>4, <1>5, <1>6, <1>7, <1>8, <1>9, <1>10, <1>11,
     <1>12, <1>13, <1>14, <1>15, <1>16, <1>17, <1>18, <1>19, <1>20, <1>21
     DEF Next, Execute, Stopped

(* No tick and no interrupt comes between the write of mtimecmp and mret. *)
LEMMA BootStep ==
  ASSUME HartInv, BootInv, [Next]_vars
  PROVE  BootInv'
<1>. USE DEF HartInv, BootInv, TrapInv, ReturnInv, Boot, MTrap
<1>1. CASE UNCHANGED vars
  BY <1>1 DEF vars, csrs, stack
<1>2. CASE Interrupt
  BY <1>2 DEF Interrupt, Interrupted, stack
<1>3. CASE \E left \in SUBSET Clobbered : m_handler(left)
  BY <1>3 DEF m_handler, At, csrs, stack
<1>4. CASE Mret
  BY <1>4 DEF Mret, Interrupted, stack
<1>5. CASE IllegalMret
  BY <1>5 DEF IllegalMret, At, csrs, stack
<1>6. CASE Entry
  BY <1>6 DEF Entry, At, csrs
<1>7. CASE SetMPP
  BY <1>7 DEF SetMPP, At, stack
<1>8. CASE SetMepc
  BY <1>8 DEF SetMepc, At, stack
<1>9. CASE Setup
  BY <1>9 DEF Setup, At, csrs, stack
<1>10. CASE SetMtimecmp
  BY <1>10 DEF SetMtimecmp, At, csrs, stack
<1>11. CASE SetMtvec
  BY <1>11 DEF SetMtvec, At, stack
<1>12. CASE SetMIE
  BY <1>12 DEF SetMIE, At, stack
<1>13. CASE SetMTIE
  BY <1>13 DEF SetMTIE, At, stack
<1>14. CASE Main
  BY <1>14 DEF Main, At, stack
<1>15. CASE Run
  BY <1>15 DEF Run, At, csrs, stack
<1>16. CASE MSave
  BY <1>16 DEF MSave, At, csrs
<1>17. CASE MLoad
  BY <1>17 DEF MLoad, At, csrs
<1>18. CASE s_handler
  BY <1>18 DEF s_handler, At, csrs, stack
<1>19. CASE Exception
  BY <1>19 DEF Exception, At, csrs, stack
<1>20. CASE SSave
  BY <1>20 DEF SSave, At, csrs
<1>21. CASE Tick
  BY <1>21 DEF Tick, csrs, stack
<1>. QED
  BY <1>1, <1>2, <1>3, <1>4, <1>5, <1>6, <1>7, <1>8, <1>9, <1>10, <1>11,
     <1>12, <1>13, <1>14, <1>15, <1>16, <1>17, <1>18, <1>19, <1>20, <1>21
     DEF Next, Execute, Stopped

-----------------------------------------------------------------------------
(* The inductive invariant: what mepc, mscratch and the saved registers    *)
(* mean at every instruction of the boot, the kernel and the trap vector.  *)
THEOREM HartInvHolds == Spec => [](HartInv /\ BootInv)
<1>1. Init => HartInv /\ BootInv
  BY InitInv
<1>2. HartInv /\ BootInv /\ [Next]_vars => (HartInv /\ BootInv)'
  BY TypeStep, TrapStep, ReturnStep, StacksStep, BootStep DEF HartInv
<1>. QED
  BY <1>1, <1>2, PTL DEF Spec

(* Every variable has its type: the hart never jumps out of its code but   *)
(* to "lost", and its stack pointers are always one of its stacks.         *)
THEOREM HartTypeCorrect == Spec => []TypeOK
<1>1. HartInv => TypeOK
  BY DEF HartInv
<1>. QED
  BY <1>1, HartInvHolds, PTL

(* The kernel, __mtrapvec and __strapvec use three different stacks, for   *)
(* any timer, nested traps included.                                       *)
THEOREM TrapStacksApart == Spec => []StacksApart
<1>1. HartInv => StacksApart
  BY DEF HartInv, StacksInv, StacksApart
<1>. QED
  BY <1>1, HartInvHolds, PTL

(* Under a timer whose interval outlasts the boot, the mret of _start      *)
(* goes to main in supervisor mode.                                        *)
THEOREM BootReachesMain == Spec => []MretTargetsMain
<1>1. BootInv => MretTargetsMain
  BY DEF BootInv, MretTargetsMain
<1>. QED
  BY <1>1, HartInvHolds, PTL

(* A timer interrupt, at whichever instruction it comes, is invisible to   *)
(* the code it interrupts, t6 aside.                                       *)
THEOREM InterruptsInvisible == Spec => TrapTransparent
<1>. DEFINE Back == pc = "mtrapret" /\ pc' # "mtrapret" =>
                      /\ pc' = at.pc /\ mode' = at.mode /\ sp' = at.sp
                      /\ \A r \in Regs \ {"t6"} : regs'[r] = at.regs[r]
<1>1. ASSUME HartInv, [Next]_vars, pc = "mtrapret", pc' # "mtrapret"
      PROVE  Mret
  <2>1. ~Interrupted
    BY <1>1 DEF HartInv, TrapInv, MTrap, Interrupted
  <2>. QED
    BY <1>1, <2>1 DEF vars, Next, Execute, Mret, IllegalMret, Interrupt, Entry, SetMPP,
       SetMepc, Setup, SetMtimecmp, SetMtvec, SetMIE, SetMTIE, Main, Run, MSave,
       m_handler, MLoad, SSave, s_handler, Exception, Tick, Stopped, At
<1>2. ASSUME HartInv, [Next]_vars
      PROVE  [Back]_vars
  <2>. SUFFICES ASSUME pc = "mtrapret", pc' # "mtrapret"
               PROVE  /\ pc' = at.pc /\ mode' = at.mode /\ sp' = at.sp
                      /\ \A r \in Regs \ {"t6"} : regs'[r] = at.regs[r]
    OBVIOUS
  <2>1. Mret
    BY <1>1, <1>2
  <2>. QED
    BY <1>2, <2>1 DEF Mret, HartInv, TrapInv, MTrap, Kept, stack
<1>. QED
  BY <1>2, HartInvHolds, PTL DEF Spec, TrapTransparent
=============================================================================
