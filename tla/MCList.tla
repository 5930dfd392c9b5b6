------------------------------- MODULE MCList -------------------------------
(***************************************************************************)
(* An instance of List for TLC.  Five values make both halves of           *)
(* listGetEntry and positions that are not at an end of their half; an     *)
(* initial capacity of 1 makes the array grow twice (1, 3, 7).             *)
(***************************************************************************)
EXTENDS List

(* Values and addresses are interchangeable.                               *)
Symmetry == Permutations(Values) \cup Permutations(Cells)

=============================================================================
