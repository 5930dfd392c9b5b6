------------------------------ MODULE ListSpec ------------------------------
(***************************************************************************)
(* What a list of src/list.c is to its callers, whichever implementation   *)
(* was chosen: a sequence of values that can be inserted and removed at    *)
(* any position, and that owns its values until it frees them.             *)
(***************************************************************************)
EXTENDS Integers, SequencesExt

CONSTANT Values     (* what the callers store                              *)

VARIABLES
  exists,           (* the list has been created and not been freed        *)
  contents          (* its values                                          *)

vars == <<exists, contents>>

Init ==
  /\ exists = FALSE
  /\ contents = <<>>

Create ==
  /\ ~ exists
  /\ exists' = TRUE
  /\ UNCHANGED contents

(* index counts from 0; -1 stands for the end.                             *)
Insert(index, v) ==
  /\ exists
  /\ v \notin ToSet(contents)
  /\ index \in -1 .. Len(contents) - 1
  /\ contents' = InsertAt(contents, IF index = -1 THEN Len(contents) + 1 ELSE index + 1, v)
  /\ UNCHANGED exists

Delete(index) ==
  /\ exists
  /\ index \in 0 .. Len(contents) - 1
  /\ contents' = RemoveAt(contents, index + 1)
  /\ UNCHANGED exists

Free ==
  /\ exists
  /\ exists' = FALSE
  /\ contents' = <<>>

Next ==
  \/ Create
  \/ \E index \in -1 .. Len(contents) - 1 :
       (\E v \in Values : Insert(index, v)) \/ Delete(index)
  \/ Free

Spec == Init /\ [][Next]_vars

=============================================================================
