---------------------------- MODULE MCKernelMap -----------------------------
(* 512 virtual pages of two bytes, two harts, kernels of several shapes.   *)
EXTENDS KernelMap

Kernel(t, r, d, b, m) == [text |-> t, rodata |-> r, data |-> d, bss |-> b, ram |-> m]

(* Sections that end inside and at the end of a table, RAM that is just    *)
(* enough, a page short, or out at each level of a walk, empty sections.   *)
MCLayouts ==
  { Kernel(4, 2, 1, 3, 64), Kernel(9, 1, 1, 2, 100), Kernel(1, 0, 1, 1, 64) }
  \cup {Kernel(2, 1, 1, 1, m) : m \in 22..44}
=============================================================================
