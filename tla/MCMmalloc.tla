----------------------------- MODULE MCMmalloc ------------------------------
(***************************************************************************)
(* An instance of Mmalloc for TLC.                                         *)
(***************************************************************************)
EXTENDS Mmalloc, TLC

(* Threads and addresses are only compared with each other.                *)
Symmetry == Permutations(Threads) \cup Permutations(Blocks)

(* The limit is only claimed where sizes do not wrap.                      *)
ASSUME MCSizes == Roomy

=============================================================================
