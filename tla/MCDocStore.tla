----------------------------- MODULE MCDocStore -----------------------------
(***************************************************************************)
(* Instances of DocStore for TLC.  Two workers and two users open and      *)
(* close sessions at once; three documents under two keys make a chain     *)
(* with a first, a middle and a last entry to remove and to add again.     *)
(***************************************************************************)
EXTENDS DocStore

(* Workers, users and the addresses of documents and entries are only      *)
(* compared with each other (Init chooses none if nothing is stored).      *)
Symmetry ==
  Permutations(Workers) \cup Permutations(Users)
    \cup Permutations(Docs) \cup Permutations(Cells) \cup Permutations(Lists)

(* A bound on what is explored.  Nothing is claimed once an add or a       *)
(* remove has been run at once with another command and there is a remove. *)
(* Without one, what adds do to each other and to a lookup is followed,    *)
(* sessions apart.                                                         *)
Followed ==
  history.overlapped =>
    /\ ~ history.removed
    /\ \A d \in DOMAIN doc : doc[d].collaborators = <<>>
    /\ \A w \in Workers : local[w].cmd # "start"
    /\ \E w \in Workers : local[w].cmd \in {"add", "none"}

=============================================================================
