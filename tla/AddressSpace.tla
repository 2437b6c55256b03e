---------------------------- MODULE AddressSpace ----------------------------
(***************************************************************************)
(* What page_map (src/vm/ptable.rs) promises: an address space is a map    *)
(* from virtual pages to frames and permissions.  A call adds the pages of *)
(* its range, one at a time and in order; an entry once made never         *)
(* changes; a call that cannot go on stops and leaves what it has added.   *)
(***************************************************************************)
EXTENDS Integers

CONSTANTS
  Requests,  \* [next, last, frame, flags]: map next..last to frame and up
  VPages     \* the number of virtual pages

VARIABLES
  map,       \* virtual page -> <<frame, flags>>, for the mapped pages
  todo,      \* what is left of the call under way
  outcome    \* "none", "busy", or how the last call ended

vars == <<map, todo, outcome>>

Init == map = [v \in {} |-> 0] /\ outcome = "none"

Request(r) ==
  /\ outcome \in {"none", "ok", "err"}
  /\ todo' = r /\ outcome' = "busy"
  /\ map' = map

MapOne ==
  /\ outcome = "busy"
  /\ todo.next <= todo.last /\ todo.next \in 0..(VPages - 1) \ DOMAIN map
  /\ map' = [v \in DOMAIN map \cup {todo.next} |->
               IF v = todo.next THEN <<todo.frame, todo.flags>> ELSE map[v]]
  /\ todo' = [todo EXCEPT !.next = @ + 1, !.frame = @ + 1]
  /\ outcome' = "busy"

Finish ==
  /\ outcome = "busy" /\ todo.next > todo.last
  /\ outcome' = "ok" /\ UNCHANGED <<map, todo>>

(* A page of the range is mapped already, or there is no memory. *)
Stop ==
  /\ outcome = "busy" /\ todo.next <= todo.last
  /\ outcome' = "err" /\ UNCHANGED <<map, todo>>

(* The range leaves the address space, the request was empty, or there is  *)
(* no memory for the address space itself.                                 *)
Panic ==
  /\ outcome # "panicked" /\ (outcome = "busy" => todo.next >= VPages)
  /\ outcome' = "panicked" /\ UNCHANGED <<map, todo>>

Next == (\E r \in Requests : Request(r)) \/ MapOne \/ Finish \/ Stop \/ Panic

Spec == Init /\ [][Next]_vars
=============================================================================
