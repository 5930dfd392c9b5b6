-------------------------------- MODULE Dict --------------------------------
(***************************************************************************)
(* The dictionary of src/dict.c: a fixed number of buckets, each NULL or a *)
(* list of the entries whose keys hash to it.  It holds the documents of   *)
(* the server and the members of a JSON object.                            *)
(*                                                                         *)
(* The lists are the sequences that module List implements.  An operation  *)
(* is one step: this is the dictionary as a single thread sees it.         *)
(* DocStore has it as several threads use it.                              *)
(***************************************************************************)
EXTENDS Integers, SequencesExt

CONSTANTS
  Keys,
  Values,           (* pointers to the heap objects stored                 *)
  NumBuckets,       (* DICT_NUM_BUCKETS_INITIAL; it never changes          *)
  Null              (* a bucket without a list                             *)

ASSUME DictAssumption ==
  /\ NumBuckets \in Nat \ {0}
  /\ Null \notin Seq([key : Keys, value : Values])

DictEntry == [key : Keys, value : Values]
Buckets   == 0 .. NumBuckets - 1

VARIABLES
  hash,             (* the bucket of each key: any function                *)
  exists,           (* the Dict struct is allocated                        *)
  size,
  buckets,
  owned,            (* the values given to the dictionary and not freed    *)
  iterating,        (* a DictIter is allocated                             *)
  bucket,           (* its bucket, or -1 at the end                        *)
  position,         (* how far its ListIter is, or -1 without a ListIter   *)
  visited           (* the keys it has returned                            *)

dictVars == <<hash, exists, size, buckets, owned>>
iterVars == <<iterating, bucket, position, visited>>
vars == <<dictVars, iterVars>>

TypeOK ==
  /\ hash \in [Keys -> Buckets]
  /\ exists \in BOOLEAN
  /\ size \in Nat
  /\ buckets \in [Buckets -> Seq(DictEntry) \cup {Null}]
  /\ owned \subseteq Values
  /\ iterating \in BOOLEAN
  /\ bucket \in Buckets \cup {-1}
  /\ position \in Nat \cup {-1}
  /\ visited \in Seq(Keys)

Init ==
  /\ hash \in [Keys -> Buckets]
  /\ exists = FALSE
  /\ size = 0
  /\ buckets = [b \in Buckets |-> Null]
  /\ owned = {}
  /\ iterating = FALSE
  /\ bucket = -1
  /\ position = -1
  /\ visited = <<>>

-----------------------------------------------------------------------------
(* Lookups.                                                                *)

Chain(b) == IF buckets[b] = Null THEN <<>> ELSE buckets[b]

(* The loop over several entries: the first with the key ends it.          *)
SearchEntry(list, k) == SelectInSeq(list, LAMBDA entry : entry.key = k) - 1

(* Mutant: the only entry of a chain is taken without comparing its key.   *)
EntryUncompared(list, k) ==
  CASE Len(list) = 0 -> -1
    [] Len(list) = 1 -> 0
    [] OTHER -> SearchEntry(list, k)

(* The index of the first entry with the key, counted from 0, or -1.  A    *)
(* chain of one entry is looked at without an iterator.                    *)
getDictEntry(list, k) ==
  CASE Len(list) = 0 -> -1
    [] Len(list) = 1 -> IF list[1].key = k THEN 0 ELSE -1
    [] OTHER -> SearchEntry(list, k)

HasKey(k) == getDictEntry(Chain(hash[k]), k) >= 0

dictGet(k) ==
  IF HasKey(k)
    THEN Chain(hash[k])[getDictEntry(Chain(hash[k]), k) + 1].value
    ELSE Null

-----------------------------------------------------------------------------
(* Changes.  No caller changes a dictionary that it iterates.              *)

dictCreate ==
  /\ ~ exists
  /\ exists' = TRUE
  /\ UNCHANGED <<hash, size, buckets, owned, iterVars>>

(* Mutant: an existing value is updated, as the comment of dictSet says.   *)
SetUpdating(k, v) ==
  LET chain == Chain(hash[k])
      entry == [key |-> k, value |-> v]
  IN
  /\ exists /\ ~ iterating
  /\ v \notin owned
  /\ buckets' = [buckets EXCEPT ![hash[k]] =
       IF HasKey(k) THEN [chain EXCEPT ![getDictEntry(chain, k) + 1] = entry] ELSE Append(chain, entry)]
  /\ size' = IF HasKey(k) THEN size ELSE size + 1
  /\ owned' = (IF HasKey(k) THEN owned \ {dictGet(k)} ELSE owned) \cup {v}
  /\ UNCHANGED <<hash, exists, iterVars>>

(* The value is a fresh object.  The bucket gets its list with its first   *)
(* entry.                                                                  *)
dictSet(k, v) ==
  /\ exists /\ ~ iterating
  /\ v \notin owned
  /\ buckets' = [buckets EXCEPT ![hash[k]] = Append(Chain(hash[k]), [key |-> k, value |-> v])]
  /\ size' = size + 1
  /\ owned' = owned \cup {v}
  /\ UNCHANGED <<hash, exists, iterVars>>

(* Mutant: an entry is removed without being counted.                      *)
RemoveUncounted(k) ==
  /\ exists /\ ~ iterating
  /\ HasKey(k)
  /\ owned' = owned \ {dictGet(k)}
  /\ buckets' = [buckets EXCEPT ![hash[k]] = RemoveAt(@, getDictEntry(@, k) + 1)]
  /\ UNCHANGED <<hash, exists, size, iterVars>>

(* The list stays when its last entry goes.                                *)
dictRemove(k) ==
  /\ exists /\ ~ iterating
  /\ HasKey(k)
  /\ owned' = owned \ {dictGet(k)}
  /\ buckets' = [buckets EXCEPT ![hash[k]] = RemoveAt(@, getDictEntry(@, k) + 1)]
  /\ size' = size - 1
  /\ UNCHANGED <<hash, exists, iterVars>>

(* Every list is freed, and with it its entries and their values.          *)
dictFree ==
  /\ exists /\ ~ iterating
  /\ exists' = FALSE
  /\ size' = 0
  /\ owned' = owned \ {entry.value : entry \in UNION {ToSet(Chain(b)) : b \in Buckets}}
  /\ buckets' = [b \in Buckets |-> Null]
  /\ UNCHANGED <<hash, iterVars>>

-----------------------------------------------------------------------------
(* Iteration.                                                              *)

(* Mutant: the scan stops behind the last bucket and does not say so.      *)
ScanPastTheEnd(b) ==
  LET lists == {c \in Buckets : c >= b /\ buckets[c] # Null}
  IN  IF lists = {} THEN NumBuckets ELSE Min(lists)

(* The next bucket with a list, from b on.                                 *)
dictIterScan(b) ==
  LET lists == {c \in Buckets : c >= b /\ buckets[c] # Null}
  IN  IF lists = {} THEN -1 ELSE Min(lists)

StartOf(b) == IF b = -1 THEN -1 ELSE 0

dictIter ==
  /\ exists /\ ~ iterating
  /\ iterating' = TRUE
  /\ bucket' = dictIterScan(0)
  /\ position' = StartOf(bucket')
  /\ visited' = <<>>
  /\ UNCHANGED dictVars

(* Mutant: a list that has become empty ends the iteration.                *)
EndAtEmptyList(b) == IF b # -1 /\ Chain(b) = <<>> THEN -1 ELSE b

(* Where the recursive calls of dictIterNext come to rest, from bucket b.  *)
PassEmptyLists(b) ==
  LET rest[c \in Buckets \cup {-1}] ==
        IF c # -1 /\ Chain(c) = <<>> THEN rest[dictIterScan(c + 1)] ELSE c
  IN  rest[b]

(* The next key of the list; at its end, the first of the next list that   *)
(* has one.                                                                *)
dictIterNext ==
  /\ iterating
  /\ bucket # -1
  /\ LET inList == position < Len(Chain(bucket))
         b      == IF inList THEN bucket ELSE PassEmptyLists(dictIterScan(bucket + 1))
         start  == IF inList THEN position ELSE StartOf(b)
     IN  /\ bucket' = b
         /\ position' = (IF b = -1 THEN -1 ELSE start + 1)
         /\ visited' = (IF b = -1 THEN visited ELSE Append(visited, Chain(b)[start + 1].key))
  /\ UNCHANGED <<dictVars, iterating>>

(* The ListIter is freed if the iteration has not come to its end.         *)
dictIterFree ==
  /\ iterating
  /\ iterating' = FALSE
  /\ bucket' = -1
  /\ position' = -1
  /\ visited' = <<>>
  /\ UNCHANGED dictVars

-----------------------------------------------------------------------------

Next ==
  \/ dictCreate
  \/ \E k \in Keys : (\E v \in Values : dictSet(k, v)) \/ dictRemove(k)
  \/ dictFree
  \/ dictIter \/ dictIterNext \/ dictIterFree

Spec == Init /\ [][Next]_vars

-----------------------------------------------------------------------------

Entries == FlattenSeq([i \in 1 .. NumBuckets |-> Chain(i - 1)])

(* The size that is counted beside the chains is the number of entries in  *)
(* them, and the values in them are those the dictionary has to free.      *)
CountsWhatItOwns ==
  /\ size = Len(Entries)
  /\ owned = {entry.value : entry \in ToSet(Entries)}

(* An iteration returns the key of every entry once, bucket by bucket,     *)
(* whatever buckets have no list or a list that has become empty.          *)
IterVisitsAll ==
  iterating =>
    LET keys == [i \in DOMAIN Entries |-> Entries[i].key] IN
    /\ IsPrefix(visited, keys)
    /\ bucket = -1 => visited = keys

(* The comment of dictSet says: "Set a new value, or update an existing    *)
(* one."  It does not update: the new value comes up only when the older   *)
(* ones of its key are removed, whatever else is set and removed before.   *)
SetKeepsOldest ==
  [][\A k \in Keys, v \in Values :
       dictSet(k, v) => dictGet(k)' = IF HasKey(k) THEN dictGet(k) ELSE v]_vars

(* On that the store of documents and the objects of JSON are built: no    *)
(* map, but, whatever the hash function, a queue of values for each key,   *)
(* which only ever gives back its own values, oldest first.                *)
ValuesIn(list, k) ==
  LET from[i \in 0 .. Len(list)] ==
        IF i = 0 THEN <<>>
        ELSE IF list[i].key = k THEN Append(from[i - 1], list[i].value) ELSE from[i - 1]
  IN  from[Len(list)]

ValuesOf(k) == ValuesIn(Chain(hash[k]), k)

Queues == INSTANCE DictSpec WITH
  NoValue <- Null,
  store   <- [k \in Keys |-> ValuesOf(k)],
  lookup  <- [k \in Keys |-> dictGet(k)]

IsKeyQueues == Queues!Spec

=============================================================================
