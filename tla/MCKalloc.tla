------------------------------ MODULE MCKalloc ------------------------------
(* Small instances of Kalloc for TLC. *)
EXTENDS Kalloc

FourPages == 1..4
=============================================================================
