-------------------------------- MODULE List --------------------------------
(***************************************************************************)
(* The lists of src/list.c: one interface over a doubly linked list of     *)
(* heap cells and an array that grows.  One list is created, used and      *)
(* freed, over and over; each time it is of either kind.                   *)
(*                                                                         *)
(* The list is used by one thread at a time, as the queue of clients and   *)
(* the collaborators of a document are, under their mutexes.  DocStore has *)
(* the chains of the shared dictionary, which are not.                     *)
(***************************************************************************)
EXTENDS Integers, Sequences, FiniteSets, SequencesExt

CONSTANTS
  Values,           (* what the callers store: pointers to heap objects    *)
  Cells,            (* the addresses of ListEntry structs                  *)
  Null,             (* the NULL pointer                                    *)
  Junk,             (* an array slot that has not been written             *)
  InitialCapacity   (* ARRAY_LIST_INITIAL_CAPACITY                         *)

ASSUME ListAssumption ==
  /\ IsFiniteSet(Cells)
  /\ Null \notin Cells
  /\ Junk \notin Values
  /\ InitialCapacity \in Nat \ {0}

ListEntry == [next : Cells \cup {Null}, prev : Cells \cup {Null}, value : Values]

VARIABLES
  exists,           (* the List struct is allocated                        *)
  linked,           (* its kind                                            *)
  length,
  head, tail,       (* the LinkedList struct                               *)
  cell,             (* the ListEntry structs that are allocated            *)
  capacity,         (* the ArrayList struct                                *)
  entries,          (* its array, indexed from 0                           *)
  owned             (* the values given to the list and not freed yet      *)

linkedVars == <<head, tail, cell>>
arrayVars  == <<capacity, entries>>
vars == <<exists, linked, length, linkedVars, arrayVars, owned>>

TypeOK ==
  /\ exists \in BOOLEAN /\ linked \in BOOLEAN
  /\ length \in Nat
  /\ {head, tail} \subseteq DOMAIN cell \cup {Null}
  /\ DOMAIN cell \subseteq Cells
  /\ \A e \in DOMAIN cell : cell[e] \in ListEntry
  /\ capacity \in Nat
  /\ entries \in [0 .. capacity - 1 -> Values \cup {Junk}]
  /\ owned \subseteq Values

Init ==
  /\ exists = FALSE
  /\ linked = FALSE
  /\ length = 0
  /\ head = Null /\ tail = Null
  /\ cell = [e \in {} |-> Null]
  /\ capacity = 0
  /\ entries = [i \in {} |-> Junk]
  /\ owned = {}

-----------------------------------------------------------------------------
(* Iteration.                                                              *)

(* listEntryNext, except that an iterator stays where the chain ends.      *)
listEntryNext(e, reverse) ==
  IF e = Null THEN Null ELSE IF reverse THEN cell[e].prev ELSE cell[e].next

(* What the n-th call of listIterNextEntry returns, counted from 0.        *)
IterEntry(reverse, n) ==
  LET at[i \in 0 .. n] ==
        IF i = 0 THEN (IF reverse THEN tail ELSE head)
                 ELSE listEntryNext(at[i - 1], reverse)
  IN  at[n]

(* The entries and the values an iterator returns before NULL.             *)
IterEntries(reverse) ==
  LET count == CHOOSE n \in 0 .. Cardinality(Cells) :
        /\ IterEntry(reverse, n) = Null
        /\ \A m \in 0 .. n - 1 : IterEntry(reverse, m) # Null
  IN  [i \in 1 .. count |-> IterEntry(reverse, i - 1)]

Iteration(reverse) ==
  IF linked
    THEN [i \in DOMAIN IterEntries(reverse) |-> cell[IterEntries(reverse)[i]].value]
    ELSE [i \in 1 .. length |-> entries[IF reverse THEN length - i ELSE i - 1]]

(* Mutant: the halves of the list overlap and the second is off by one.    *)
GetEntryOffByOne(index) ==
  IF index <= length \div 2
    THEN IterEntry(FALSE, index)
    ELSE IterEntry(TRUE, length - index)

(* The entry at an index, reached from the nearer end.                     *)
listGetEntry(index) ==
  IF index < length \div 2
    THEN IterEntry(FALSE, index)
    ELSE IterEntry(TRUE, length - index - 1)

listGet(index) ==
  IF linked THEN cell[listGetEntry(index)].value ELSE entries[index]

-----------------------------------------------------------------------------
(* Creation and insertion.                                                 *)

listCreate(isLinked) ==
  /\ ~ exists
  /\ exists' = TRUE
  /\ linked' = isLinked
  /\ capacity' = (IF isLinked THEN 0 ELSE InitialCapacity)
  /\ entries' = [i \in 0 .. capacity' - 1 |-> Junk]
  /\ UNCHANGED <<length, linkedVars, owned>>

(* Mutant: the array is full and only the recorded capacity grows.         *)
InsertWithoutRealloc(index, v) ==
  LET at == IF index < 0 THEN length ELSE index IN
  /\ capacity' = (IF length = capacity THEN 2 * capacity + 1 ELSE capacity)
  /\ entries' = [i \in DOMAIN entries |->
       IF i = at THEN v
       ELSE IF at < i /\ i <= length THEN entries[i - 1]
       ELSE entries[i]]

(* A full array is reallocated first.  Then the values from the index on   *)
(* move up, last one first.                                                *)
listInsertArray(index, v) ==
  LET at == IF index < 0 THEN length ELSE index IN
  /\ capacity' = (IF length = capacity THEN 2 * capacity + 1 ELSE capacity)
  /\ entries' = [i \in 0 .. capacity' - 1 |->
       IF i = at THEN v
       ELSE IF at < i /\ i <= length THEN entries[i - 1]
       ELSE IF i < capacity THEN entries[i]
       ELSE Junk]

(* Mutant: the predecessor is not told of the new entry.                   *)
PutUnlinked(heap, e, entry) ==
  [x \in DOMAIN heap \cup {e} |-> IF x = e THEN entry ELSE heap[x]]

(* The heap with a new entry at e, to which its predecessor points.        *)
Put(heap, e, entry) ==
  [x \in DOMAIN heap \cup {e} |->
     IF x = e THEN entry
     ELSE IF x = entry.prev THEN [heap[x] EXCEPT !.next = e]
     ELSE heap[x]]

listInsertLinked(index, v) ==
  \E e \in Cells \ DOMAIN cell :
    \/ /\ length = 0
       /\ head' = e /\ tail' = e
       /\ cell' = Put(cell, e, [next |-> Null, prev |-> Null, value |-> v])
    \/ /\ length # 0 /\ index < 0
       /\ tail' = e
       /\ cell' = Put(cell, e, [next |-> Null, prev |-> tail, value |-> v])
       /\ UNCHANGED head
    \/ /\ length # 0 /\ index >= 0
       /\ LET current == listGetEntry(index) IN
            cell' = Put([cell EXCEPT ![current].prev = e], e,
                        [next |-> current, prev |-> cell[current].prev, value |-> v])
       /\ head' = (IF index = 0 THEN e ELSE head)
       /\ UNCHANGED tail

(* Its assertion holds of every caller: an index of the list, or -1.       *)
listInsert(index, v) ==
  /\ exists
  /\ v \notin owned
  /\ index < length
  /\ \/ linked   /\ listInsertLinked(index, v) /\ UNCHANGED arrayVars
     \/ ~ linked /\ listInsertArray(index, v)  /\ UNCHANGED linkedVars
  /\ length' = length + 1
  /\ owned' = owned \cup {v}
  /\ UNCHANGED <<exists, linked>>

listAppend(v)  == listInsert(-1, v)
listPrepend(v) == listInsert(IF length # 0 THEN 0 ELSE -1, v)

-----------------------------------------------------------------------------
(* Removal.                                                                *)

(* Mutant: the shift stops one short of the last value.                    *)
RemoveShiftingShort(index) ==
  /\ owned' = owned \ {entries[index]}
  /\ entries' = [i \in DOMAIN entries |->
       IF index <= i /\ i < length - 2 THEN entries[i + 1] ELSE entries[i]]

(* The value is freed, and those behind it move down.                      *)
listRemoveArray(index) ==
  /\ owned' = owned \ {entries[index]}
  /\ entries' = [i \in DOMAIN entries |->
       IF index <= i /\ i < length - 1 THEN entries[i + 1] ELSE entries[i]]

(* The heap without e, whose neighbours point at each other.               *)
Unlink(e) ==
  [x \in DOMAIN cell \ {e} |->
     [cell[x] EXCEPT !.next = IF x = cell[e].prev THEN cell[e].next ELSE @,
                     !.prev = IF x = cell[e].next THEN cell[e].prev ELSE @]]

listRemoveLinked(index) ==
  LET e == listGetEntry(index) IN
  /\ owned' = owned \ {cell[e].value}
  /\ cell' = Unlink(e)
  /\ head' = (IF e = head THEN cell[e].next ELSE head)
  /\ tail' = (IF e = tail THEN cell[e].prev ELSE tail)

listRemove(index) ==
  /\ exists
  /\ index < length
  /\ \/ linked   /\ listRemoveLinked(index) /\ UNCHANGED arrayVars
     \/ ~ linked /\ listRemoveArray(index)  /\ UNCHANGED <<linkedVars, capacity>>
  /\ length' = length - 1
  /\ UNCHANGED <<exists, linked>>

(* The List struct is freed, and the LinkedList or ArrayList with it.      *)
FreeStruct ==
  /\ exists
  /\ exists' = FALSE /\ linked' = FALSE /\ length' = 0
  /\ head' = Null /\ tail' = Null
  /\ capacity' = 0 /\ entries' = [i \in {} |-> Junk]

(* Mutant: the structs are freed, the values are not.                      *)
FreeStructsOnly ==
  /\ FreeStruct
  /\ cell' = [e \in DOMAIN cell \ ToSet(IterEntries(FALSE)) |-> cell[e]]
  /\ UNCHANGED owned

(* What an iteration reaches is freed, then the structs.                   *)
listFree ==
  /\ FreeStruct
  /\ owned' = owned \ ToSet(Iteration(FALSE))
  /\ cell' = [e \in DOMAIN cell \ ToSet(IterEntries(FALSE)) |-> cell[e]]

-----------------------------------------------------------------------------

Next ==
  \/ \E isLinked \in BOOLEAN : listCreate(isLinked)
  \/ \E v \in Values : listAppend(v) \/ listPrepend(v)
  \/ \E index \in 0 .. length - 1 :
       (\E v \in Values : listInsert(index, v)) \/ listRemove(index)
  \/ listFree

Spec == Init /\ [][Next]_vars

-----------------------------------------------------------------------------

(* An iterator in either direction visits every value of the list once,    *)
(* in opposite orders, and the length that is kept beside the chain counts *)
(* what it visits: next and prev never disagree.                           *)
WalksAgree ==
  exists =>
    /\ Iteration(TRUE) = Reverse(Iteration(FALSE))
    /\ Len(Iteration(FALSE)) = length

(* listGet reaches the same value from whichever end is nearer, and from   *)
(* the array, as counting along an iteration does.                         *)
GetIsIndexed ==
  \A index \in 0 .. length - 1 : listGet(index) = Iteration(FALSE)[index + 1]

(* The list owns exactly the values and the cells it can reach: a removal  *)
(* or a growth of the array loses none and frees none twice, and a list    *)
(* that was freed leaves nothing behind.                                   *)
NothingLeaks ==
  /\ IF exists THEN owned = ToSet(Iteration(FALSE)) ELSE owned = {}
  /\ DOMAIN cell = (IF exists /\ linked THEN ToSet(IterEntries(FALSE)) ELSE {})

(* Both kinds of list are the sequence their callers expect.               *)
Contents == IF exists THEN Iteration(FALSE) ELSE <<>>

Sequence == INSTANCE ListSpec WITH contents <- Contents

IsSequence == Sequence!Spec

=============================================================================
