----------------------------- MODULE MCPageTable -----------------------------
(* Eight virtual pages of two bytes, two entries to a table. *)
EXTENDS PageTable

Call(va, pa, n, f) == [va |-> va, pa |-> pa, size |-> n, flag |-> f]

(* Aligned and unaligned, one page and several, within a table and across  *)
(* tables, to the end of the address space and over it, and empty.         *)
MCCalls ==
  { Call(0, 0, 2, 6), Call(3, 7, 2, 10), Call(2, 2, 9, 2), Call(5, 21, 1, 6),
    Call(12, 12, 4, 6), Call(13, 30, 6, 10), Call(8, 8, 0, 6) }

Pool(n) == {2 * a : a \in 10..(9 + n)}
MCPools == {Pool(n) : n \in 0..7}
=============================================================================
