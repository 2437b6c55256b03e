----------------------------- MODULE MCPagePool -----------------------------
(* Small instances of PagePool for TLC. *)
EXTENDS PagePool

CONSTANTS h0, h1

(* A page owner's data looks like a pointer to the first page of the pool. *)
FirstPage == {Bottom}
=============================================================================
