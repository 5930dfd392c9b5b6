------------------------------ MODULE DictSpec ------------------------------
(***************************************************************************)
(* What a dictionary of src/dict.c does for its callers, without hash,     *)
(* buckets or chains: under each key it keeps the values set, in order; a  *)
(* lookup gives the oldest and a removal takes away the oldest.  It is not *)
(* the map that the comment of dictSet speaks of: see SetKeepsOldest.      *)
(***************************************************************************)
EXTENDS Sequences

CONSTANTS
  Keys,
  Values,
  NoValue           (* what a lookup of a key without values gives         *)

VARIABLES
  exists,           (* the dictionary has been created and not been freed  *)
  store,            (* the values under each key, oldest first             *)
  lookup            (* what a lookup of each key gives                     *)

vars == <<exists, store, lookup>>

Empty == [k \in Keys |-> <<>>]

Oldest(values) == [k \in Keys |-> IF values[k] = <<>> THEN NoValue ELSE Head(values[k])]

Held(v) == \E k \in Keys : \E i \in DOMAIN store[k] : store[k][i] = v

Init ==
  /\ exists = FALSE
  /\ store = Empty
  /\ lookup = Oldest(Empty)

Create ==
  /\ ~ exists
  /\ exists' = TRUE
  /\ UNCHANGED <<store, lookup>>

Set(k, v) ==
  /\ exists
  /\ ~ Held(v)
  /\ store' = [store EXCEPT ![k] = Append(@, v)]
  /\ lookup' = Oldest(store')
  /\ UNCHANGED exists

Delete(k) ==
  /\ exists
  /\ store[k] # <<>>
  /\ store' = [store EXCEPT ![k] = Tail(@)]
  /\ lookup' = Oldest(store')
  /\ UNCHANGED exists

Free ==
  /\ exists
  /\ exists' = FALSE
  /\ store' = Empty
  /\ lookup' = Oldest(store')

Next ==
  \/ Create
  \/ \E k \in Keys : (\E v \in Values : Set(k, v)) \/ Delete(k)
  \/ Free

Spec == Init /\ [][Next]_vars

=============================================================================
