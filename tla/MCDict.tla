------------------------------- MODULE MCDict -------------------------------
(***************************************************************************)
(* An instance of Dict for TLC.  Three keys over three buckets, with every *)
(* hash function: keys that share a bucket and keys that do not, buckets   *)
(* without a list before, between and behind the others, and chains of     *)
(* none, one and several entries.                                          *)
(***************************************************************************)
EXTENDS Dict

(* Values are interchangeable, and so are keys, since any hash is tried.   *)
Symmetry == Permutations(Values) \cup Permutations(Keys)

=============================================================================
