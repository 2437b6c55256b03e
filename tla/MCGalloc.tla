------------------------------ MODULE MCGalloc ------------------------------
(* Small instances of Galloc for TLC. *)
EXTENDS Galloc

FivePages == 1..5
=============================================================================
