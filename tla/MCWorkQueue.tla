---------------------------- MODULE MCWorkQueue ----------------------------
(***************************************************************************)
(* Instances of WorkQueue for TLC.  Four peers, two workers and three      *)
(* descriptors: two clients can queue while both workers serve, both can   *)
(* sleep, wake and race for the mutex, a peer can wait in the backlog, and *)
(* descriptors are used again.  Liveness: two of each, without symmetry.   *)
(***************************************************************************)
EXTENDS WorkQueue, TLC

(* Peers, workers and descriptors are interchangeable.                     *)
Symmetry == Permutations(Peers) \cup Permutations(Workers) \cup Permutations(Fds)

=============================================================================
