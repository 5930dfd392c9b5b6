----------------------------- MODULE ListProofs -----------------------------
(***************************************************************************)
(* Proofs, for any values, cells and initial capacity, that both kinds of  *)
(* list of module List are the sequence of module ListSpec, that walks in  *)
(* either direction and listGet agree on it, and that a list owns exactly  *)
(* what it reaches.                                                        *)
(***************************************************************************)
EXTENDS List, DataProofs, FiniteSetTheorems

-----------------------------------------------------------------------------
(* The inductive invariant.                                                *)

(* The n cells of the heap make one chain from first to last, in the order *)
(* of order, and point to each other both ways.                            *)
IsChain(order, n, heap, first, last) ==
  /\ order \in [1 .. n -> DOMAIN heap]
  /\ \A i, j \in 1 .. n : order[i] = order[j] => i = j
  /\ \A e \in DOMAIN heap : \E i \in 1 .. n : order[i] = e
  /\ \A i \in 1 .. n : heap[order[i]].prev = IF i = 1 THEN Null ELSE order[i - 1]
  /\ \A i \in 1 .. n : heap[order[i]].next = IF i = n THEN Null ELSE order[i + 1]
  /\ first = IF n = 0 THEN Null ELSE order[1]
  /\ last = IF n = 0 THEN Null ELSE order[n]

Chained(order) == IsChain(order, length, cell, head, tail)

LinkedInv ==
  /\ exists
  /\ \E order \in [1 .. length -> DOMAIN cell] : Chained(order)
  /\ \A e, f \in DOMAIN cell : cell[e].value = cell[f].value => e = f
  /\ owned = {cell[e].value : e \in DOMAIN cell}

ArrayInv ==
  /\ DOMAIN cell = {} /\ head = Null /\ tail = Null
  /\ length <= capacity
  /\ \A i \in 0 .. length - 1 : entries[i] \in Values
  /\ \A i, j \in 0 .. length - 1 : entries[i] = entries[j] => i = j
  /\ owned = {entries[i] : i \in 0 .. length - 1}

ListInv ==
  /\ TypeOK
  /\ ~ exists => ~ linked /\ length = 0
  /\ IF linked THEN LinkedInv ELSE ArrayInv

-----------------------------------------------------------------------------
(* Iteration.                                                              *)

(* The first n steps of a sequence that follows the pointers.              *)
Iterates(g, n, reverse) ==
  /\ g[0] = (IF reverse THEN tail ELSE head)
  /\ \A i \in 1 .. n : g[i] = listEntryNext(g[i - 1], reverse)

(* An iterator goes along any such sequence.                               *)
LEMMA IterFollows ==
  ASSUME NEW n \in Nat, NEW reverse, NEW g, Iterates(g, n, reverse)
  PROVE  IterEntry(reverse, n) = g[n]
<1> /\ g[0] = (IF reverse THEN tail ELSE head)
    /\ \A i \in 1 .. n : g[i] = listEntryNext(g[i - 1], reverse)
  BY DEF Iterates
<1> DEFINE F(f) == [i \in 0 .. n |->
                      IF i = 0 THEN (IF reverse THEN tail ELSE head)
                               ELSE listEntryNext(f[i - 1], reverse)]
           at == CHOOSE f : f = F(f)
           h == [i \in 0 .. n |-> g[i]]
<1>1. IterEntry(reverse, n) = at[n]
  BY DEF IterEntry
<1>2. \A i \in 0 .. n : i # 0 => i \in 1 .. n /\ i - 1 \in 0 .. n
  OBVIOUS
<1>3. h = F(h)
  BY <1>2
<1>4. at = F(at)
  BY <1>3
<1>5. /\ at[0] = (IF reverse THEN tail ELSE head)
      /\ \A i \in 1 .. n : at[i] = listEntryNext(at[i - 1], reverse)
  <2> HIDE DEF at
  <2> QED
    BY <1>4
<1> HIDE DEF at
<1> DEFINE S == {i \in Nat : i <= n => at[i] = g[i]}
<1>6. 0 \in S
  BY <1>5
<1>7. ASSUME NEW i \in Nat, i \in S
      PROVE  i + 1 \in S
  <2>1. CASE i + 1 <= n
    <3>1. i + 1 \in 1 .. n /\ (i + 1) - 1 = i /\ at[i] = g[i]
      BY <1>7, <2>1
    <3>2. at[i + 1] = g[i + 1]
      BY <1>5, <3>1
    <3> QED
      BY <3>2
  <2>2. CASE ~ (i + 1 <= n)
    BY <2>2
  <2> QED
    BY <2>1, <2>2
<1>8. n \in S
  <2> HIDE DEF S
  <2> QED
    BY <1>6, <1>7, NatSetInduction
<1> QED
  BY <1>1, <1>8

(* From either end, an iterator goes along the chain, and then off it.     *)
LEMMA IterAlongChain ==
  ASSUME ListInv, NEW order, Chained(order), NEW n \in 0 .. length
  PROVE  /\ IterEntry(FALSE, n) = IF n = length THEN Null ELSE order[n + 1]
         /\ IterEntry(TRUE, n) = IF n = length THEN Null ELSE order[length - n]
<1>1. length \in Nat /\ n \in Nat
  BY DEF ListInv, TypeOK
<1>2. \A i \in 1 .. length : order[i] \in DOMAIN cell /\ order[i] # Null
  BY ListAssumption DEF ListInv, TypeOK, Chained, IsChain
<1>3. IterEntry(FALSE, n) = IF n = length THEN Null ELSE order[n + 1]
  <2> DEFINE g == [i \in 0 .. n |-> IF i = length THEN Null ELSE order[i + 1]]
             back == FALSE
  <2>1. g[0] = (IF back THEN tail ELSE head)
    BY <1>1 DEF Chained, IsChain
  <2>2. ASSUME NEW i \in 1 .. n
        PROVE  g[i] = listEntryNext(g[i - 1], back)
    <3>1. /\ g[i - 1] = order[i] /\ g[i] = IF i = length THEN Null ELSE order[i + 1]
          /\ i \in 1 .. length
      BY <1>1, <2>2
    <3>2. cell[order[i]].next = IF i = length THEN Null ELSE order[i + 1]
      BY <3>1 DEF Chained, IsChain
    <3> HIDE DEF g
    <3> QED
      BY <1>2, <3>1, <3>2 DEF listEntryNext
  <2>3. g[n] = IF n = length THEN Null ELSE order[n + 1]
    BY <1>1
  <2> HIDE DEF g, back
  <2>4. Iterates(g, n, back)
    BY <2>1, <2>2 DEF Iterates
  <2>5. IterEntry(back, n) = g[n]
    BY <1>1, <2>4, IterFollows
  <2> QED
    BY <2>3, <2>5 DEF back
<1>4. IterEntry(TRUE, n) = IF n = length THEN Null ELSE order[length - n]
  <2> DEFINE g == [i \in 0 .. n |-> IF i = length THEN Null ELSE order[length - i]]
             back == TRUE
  <2>1. g[0] = (IF back THEN tail ELSE head)
    BY <1>1 DEF Chained, IsChain
  <2>2. ASSUME NEW i \in 1 .. n
        PROVE  g[i] = listEntryNext(g[i - 1], back)
    <3> DEFINE p == length - i + 1
    <3>1. /\ g[i - 1] = order[p] /\ g[i] = IF p = 1 THEN Null ELSE order[p - 1]
          /\ p \in 1 .. length
      BY <1>1, <2>2
    <3> HIDE DEF g, p
    <3>2. cell[order[p]].prev = IF p = 1 THEN Null ELSE order[p - 1]
      BY <3>1 DEF Chained, IsChain
    <3> QED
      BY <1>2, <3>1, <3>2 DEF listEntryNext
  <2>3. g[n] = IF n = length THEN Null ELSE order[length - n]
    BY <1>1
  <2> HIDE DEF g, back
  <2>4. Iterates(g, n, back)
    BY <2>1, <2>2 DEF Iterates
  <2>5. IterEntry(back, n) = g[n]
    BY <1>1, <2>4, IterFollows
  <2> QED
    BY <2>3, <2>5 DEF back
<1> QED
  BY <1>3, <1>4

(* A chain has no more entries than there are cells.                       *)
LEMMA ChainIsShort ==
  ASSUME ListInv, NEW order, Chained(order)
  PROVE  length \in 0 .. Cardinality(Cells) /\ Cardinality(Cells) \in Nat
<1>1. length \in Nat /\ Cardinality(Cells) \in Nat
  BY FS_CardinalityType, ListAssumption DEF ListInv, TypeOK
<1>2. order \in Injection(1 .. length, Cells)
  BY DEF ListInv, TypeOK, Chained, IsChain, Injection, IsInjective
<1>3. Cardinality(1 .. length) = length
  BY <1>1, FS_Interval
<1>4. Cardinality(1 .. length) <= Cardinality(Cells)
  BY <1>2, FS_Injection, ListAssumption
<1> QED
  BY <1>1, <1>3, <1>4

(* What an iterator returns before NULL.                                   *)
LEMMA IterEntriesAre ==
  ASSUME ListInv, NEW order, Chained(order)
  PROVE  /\ IterEntries(FALSE) = [i \in 1 .. length |-> order[i]]
         /\ IterEntries(TRUE) = [i \in 1 .. length |-> order[length - i + 1]]
<1>1. length \in Nat /\ \A i \in 1 .. length : order[i] # Null
  BY ListAssumption DEF ListInv, TypeOK, Chained, IsChain
<1>2. ASSUME NEW reverse \in BOOLEAN
      PROVE  IterEntries(reverse) = [i \in 1 .. length |-> IterEntry(reverse, i - 1)]
  <2> DEFINE Ends(n) == /\ IterEntry(reverse, n) = Null
                        /\ \A m \in 0 .. n - 1 : IterEntry(reverse, m) # Null
             count == CHOOSE n \in 0 .. Cardinality(Cells) : Ends(n)
  <2>1. IterEntries(reverse) = [i \in 1 .. count |-> IterEntry(reverse, i - 1)]
    BY DEF IterEntries
  <2>2. \A m \in 0 .. length - 1 : IterEntry(reverse, m) # Null
    <3> SUFFICES ASSUME NEW m \in 0 .. length - 1 PROVE IterEntry(reverse, m) # Null
      OBVIOUS
    <3>1. m \in 0 .. length /\ m # length /\ m + 1 \in 1 .. length /\ length - m \in 1 .. length
      BY <1>1
    <3>2. IterEntry(FALSE, m) = order[m + 1] /\ IterEntry(TRUE, m) = order[length - m]
      BY <3>1, IterAlongChain
    <3> QED
      BY <1>1, <3>1, <3>2
  <2>3. IterEntry(reverse, length) = Null
    <3>1. IterEntry(FALSE, length) = Null /\ IterEntry(TRUE, length) = Null
      <4>1. length \in 0 .. length
        BY <1>1
      <4> QED
        BY <4>1, IterAlongChain
    <3> QED
      BY <3>1
  <2>4. Ends(length)
    BY <2>2, <2>3
  <2>5. count \in 0 .. Cardinality(Cells) /\ Ends(count)
    BY <2>4, ChainIsShort
  <2>6. count = length
    <3> HIDE DEF count
    <3>1. ~ (count < length)
      <4>1. count < length => count \in 0 .. length - 1
        BY <1>1, <2>5, ChainIsShort
      <4> QED
        BY <2>2, <2>5, <4>1
    <3>2. ~ (length < count)
      <4>1. length < count => length \in 0 .. count - 1
        BY <1>1, <2>5, ChainIsShort
      <4> QED
        BY <2>3, <2>5, <4>1
    <3> QED
      BY <1>1, <2>5, <3>1, <3>2, ChainIsShort
  <2> HIDE DEF count
  <2> QED
    BY <2>1, <2>6
<1>3. ASSUME NEW i \in 1 .. length
      PROVE  IterEntry(FALSE, i - 1) = order[i] /\ IterEntry(TRUE, i - 1) = order[length - i + 1]
  <2>1. i - 1 \in 0 .. length /\ i - 1 # length /\ i - 1 + 1 = i /\ length - (i - 1) = length - i + 1
    BY <1>1
  <2> QED
    BY <2>1, IterAlongChain
<1> QED
  BY <1>2, <1>3

-----------------------------------------------------------------------------
(* The values.                                                             *)

(* The i-th value, from 1, of a list whose cells are in that order.        *)
Item(order, i) == IF linked THEN cell[order[i]].value ELSE entries[i - 1]

InOrder(order) == linked => Chained(order)

LEMMA HasOrder ==
  ASSUME ListInv
  PROVE  \E order : InOrder(order)
BY DEF ListInv, LinkedInv, InOrder

(* The items are different values, and they are what the list owns.        *)
LEMMA ItemsAre ==
  ASSUME ListInv, NEW order, InOrder(order)
  PROVE  /\ length \in Nat
         /\ \A i \in 1 .. length : Item(order, i) \in Values
         /\ \A i, j \in 1 .. length : Item(order, i) = Item(order, j) => i = j
         /\ owned = {Item(order, i) : i \in 1 .. length}
<1>1. length \in Nat
  BY DEF ListInv, TypeOK
<1>2. CASE linked
  <2>1. /\ \A i \in 1 .. length : order[i] \in DOMAIN cell
        /\ \A i, j \in 1 .. length : order[i] = order[j] => i = j
        /\ \A e \in DOMAIN cell : \E i \in 1 .. length : order[i] = e
    BY <1>2 DEF InOrder, Chained, IsChain
  <2>2. /\ \A e \in DOMAIN cell : cell[e].value \in Values
        /\ \A e, f \in DOMAIN cell : cell[e].value = cell[f].value => e = f
        /\ owned = {cell[e].value : e \in DOMAIN cell}
    BY <1>2 DEF ListInv, TypeOK, LinkedInv, ListEntry
  <2>3. \A i : Item(order, i) = cell[order[i]].value
    BY <1>2 DEF Item
  <2>4. owned = {Item(order, i) : i \in 1 .. length}
    BY <2>1, <2>2, <2>3
  <2> QED
    BY <1>1, <2>1, <2>2, <2>3, <2>4
<1>3. CASE ~ linked
  <2>1. /\ \A i \in 0 .. length - 1 : entries[i] \in Values
        /\ \A i, j \in 0 .. length - 1 : entries[i] = entries[j] => i = j
        /\ owned = {entries[i] : i \in 0 .. length - 1}
    BY <1>3 DEF ListInv, ArrayInv
  <2>2. \A i : Item(order, i) = entries[i - 1]
    BY <1>3 DEF Item
  <2>3. \A i \in 1 .. length : i - 1 \in 0 .. length - 1
    BY <1>1
  <2>4. \A i \in 0 .. length - 1 : i + 1 \in 1 .. length /\ (i + 1) - 1 = i
    BY <1>1
  <2>5. owned = {Item(order, i) : i \in 1 .. length}
    BY <2>1, <2>2, <2>3, <2>4
  <2>6. ASSUME NEW i \in 1 .. length, NEW j \in 1 .. length, Item(order, i) = Item(order, j)
        PROVE  i = j
    BY <2>1, <2>2, <2>3, <2>6
  <2> QED
    BY <1>1, <2>1, <2>2, <2>3, <2>5, <2>6
<1> QED
  BY <1>2, <1>3

(* Iterations visit the items, in either direction.                        *)
IterationIs ==
  ListInv =>
    \A order : InOrder(order) =>
      /\ Iteration(FALSE) = [i \in 1 .. length |-> Item(order, i)]
      /\ Iteration(TRUE) = [i \in 1 .. length |-> Item(order, length - i + 1)]
      /\ Contents = Iteration(FALSE)
      /\ Contents \in Seq(Values) /\ Len(Contents) = length
      /\ ToSet(Contents) = owned

LEMMA IterationVisitsItems == IterationIs
<1> SUFFICES ASSUME ListInv, NEW order, InOrder(order)
             PROVE  /\ Iteration(FALSE) = [i \in 1 .. length |-> Item(order, i)]
                    /\ Iteration(TRUE) = [i \in 1 .. length |-> Item(order, length - i + 1)]
                    /\ Contents = Iteration(FALSE)
                    /\ Contents \in Seq(Values) /\ Len(Contents) = length
                    /\ ToSet(Contents) = owned
  BY DEF IterationIs
<1>1. length \in Nat
  BY ItemsAre
<1>2. /\ Iteration(FALSE) = [i \in 1 .. length |-> Item(order, i)]
      /\ Iteration(TRUE) = [i \in 1 .. length |-> Item(order, length - i + 1)]
  <2>1. CASE linked
    <3> DEFINE there == IterEntries(FALSE)
               back  == IterEntries(TRUE)
    <3>1. /\ there = [i \in 1 .. length |-> order[i]]
          /\ back = [i \in 1 .. length |-> order[length - i + 1]]
      BY <2>1, IterEntriesAre DEF InOrder
    <3>2. /\ Iteration(FALSE) = [i \in DOMAIN there |-> cell[there[i]].value]
          /\ Iteration(TRUE) = [i \in DOMAIN back |-> cell[back[i]].value]
      BY <2>1 DEF Iteration
    <3> HIDE DEF there, back
    <3>3. Iteration(FALSE) = [i \in 1 .. length |-> Item(order, i)]
      BY <2>1, <3>1, <3>2 DEF Item
    <3>4. Iteration(TRUE) = [i \in 1 .. length |-> Item(order, length - i + 1)]
      BY <2>1, <3>1, <3>2 DEF Item
    <3> QED
      BY <3>3, <3>4
  <2>2. CASE ~ linked
    <3>1. /\ Iteration(FALSE) = [i \in 1 .. length |-> entries[i - 1]]
          /\ Iteration(TRUE) = [i \in 1 .. length |-> entries[length - i]]
      BY <2>2 DEF Iteration
    <3>2. \A i \in 1 .. length : (length - i + 1) - 1 = length - i
      BY <1>1
    <3>3. \A i : Item(order, i) = entries[i - 1]
      BY <2>2 DEF Item
    <3>4. Iteration(FALSE) = [i \in 1 .. length |-> Item(order, i)]
      BY <3>1, <3>3
    <3>5. Iteration(TRUE) = [i \in 1 .. length |-> Item(order, length - i + 1)]
      <4>1. ASSUME NEW i \in 1 .. length
            PROVE  Item(order, length - i + 1) = entries[length - i]
        <5>1. Item(order, length - i + 1) = entries[(length - i + 1) - 1]
          BY <2>2 DEF Item
        <5> QED
          BY <3>2, <5>1
      <4> QED
        BY <3>1, <4>1
    <3> QED
      BY <3>4, <3>5
  <2> QED
    BY <2>1, <2>2
<1>3. Iteration(FALSE) \in Seq(Values) /\ Len(Iteration(FALSE)) = length
  <2>1. Iteration(FALSE) \in [1 .. length -> Values]
    BY <1>2, ItemsAre
  <2> QED
    BY <1>1, <2>1, FunctionIsSeq
<1>4. Contents = Iteration(FALSE)
  <2>1. ~ exists => length = 0
    BY DEF ListInv
  <2>2. ~ exists => Iteration(FALSE) = <<>>
    BY <1>3, <2>1, EmptySeq
  <2> QED
    BY <2>2 DEF Contents
<1>5. ToSet(Contents) = owned
  <2>1. ToSet(Contents) = {Contents[i] : i \in 1 .. length}
    BY <1>2, <1>4 DEF ToSet
  <2>2. \A i \in 1 .. length : Contents[i] = Item(order, i)
    BY <1>2, <1>4
  <2> QED
    BY <2>1, <2>2, ItemsAre
<1> QED
  BY <1>2, <1>3, <1>4, <1>5

LEMMA InvWalksAgree ==
  ASSUME ListInv
  PROVE  WalksAgree
<1>1. PICK order : InOrder(order)
  BY HasOrder
<1>2. length \in Nat /\ Len(Iteration(FALSE)) = length
  BY <1>1, ItemsAre, IterationVisitsItems DEF IterationIs
<1>3. /\ Iteration(FALSE) = [i \in 1 .. length |-> Item(order, i)]
      /\ Iteration(TRUE) = [i \in 1 .. length |-> Item(order, length - i + 1)]
  BY <1>1, IterationVisitsItems DEF IterationIs
<1>4. \A i \in 1 .. length : Iteration(FALSE)[length - i + 1] = Item(order, length - i + 1)
  <2>1. \A i \in 1 .. length : length - i + 1 \in 1 .. length
    BY <1>2
  <2> QED
    BY <1>3, <2>1
<1>5. Reverse(Iteration(FALSE)) = [i \in 1 .. length |-> Iteration(FALSE)[length - i + 1]]
  BY <1>2 DEF Reverse
<1> QED
  BY <1>2, <1>3, <1>4, <1>5, ZenonT(60) DEF WalksAgree

(* The entry at an index is the same from the nearer end.                  *)
LEMMA GetEntryIs ==
  ASSUME ListInv, NEW order, Chained(order), NEW index \in 0 .. length - 1
  PROVE  listGetEntry(index) = order[index + 1]
<1>1. length \in Nat
  BY DEF ListInv, TypeOK
<1>2. /\ index \in 0 .. length /\ index # length
      /\ length - index - 1 \in 0 .. length /\ length - index - 1 # length
      /\ length - (length - index - 1) = index + 1
  BY <1>1
<1>3. IterEntry(FALSE, index) = order[index + 1]
  BY <1>2, IterAlongChain
<1>4. IterEntry(TRUE, length - index - 1) = order[index + 1]
  <2> DEFINE n == length - index - 1
  <2>1. n \in 0 .. length /\ n # length /\ length - n = index + 1
    BY <1>2
  <2> HIDE DEF n
  <2>2. IterEntry(TRUE, n) = order[length - n]
    BY <2>1, IterAlongChain
  <2> QED
    BY <2>1, <2>2 DEF n
<1> QED
  BY <1>3, <1>4 DEF listGetEntry

LEMMA InvGetIsIndexed ==
  ASSUME ListInv
  PROVE  GetIsIndexed
<1>1. PICK order : InOrder(order)
  BY HasOrder
<1>2. length \in Nat /\ Iteration(FALSE) = [i \in 1 .. length |-> Item(order, i)]
  BY <1>1, ItemsAre, IterationVisitsItems DEF IterationIs
<1> SUFFICES ASSUME NEW index \in 0 .. length - 1
             PROVE  listGet(index) = Iteration(FALSE)[index + 1]
  BY DEF GetIsIndexed
<1>3. index + 1 \in 1 .. length /\ index + 1 - 1 = index
  BY <1>2
<1>4. CASE linked
  <2>1. listGetEntry(index) = order[index + 1]
    BY <1>1, <1>4, GetEntryIs DEF InOrder
  <2> QED
    BY <1>2, <1>3, <1>4, <2>1 DEF listGet, Item
<1>5. CASE ~ linked
  <2>1. listGet(index) = entries[index] /\ Item(order, index + 1) = entries[index + 1 - 1]
    BY <1>5 DEF listGet, Item
  <2> QED
    BY <1>2, <1>3, <2>1
<1> QED
  BY <1>4, <1>5

LEMMA InvNothingLeaks ==
  ASSUME ListInv
  PROVE  NothingLeaks
<1>1. PICK order : InOrder(order)
  BY HasOrder
<1>2. IF exists THEN owned = ToSet(Iteration(FALSE)) ELSE owned = {}
  <2>1. Contents = Iteration(FALSE) /\ ToSet(Contents) = owned
    BY <1>1, IterationVisitsItems DEF IterationIs
  <2>2. ~ exists => owned = {}
    <3>1. ~ exists => length = 0 /\ owned = {Item(order, i) : i \in 1 .. length}
      BY <1>1, ItemsAre DEF ListInv
    <3> QED
      BY <3>1
  <2> QED
    BY <2>1, <2>2
<1>3. DOMAIN cell = (IF exists /\ linked THEN ToSet(IterEntries(FALSE)) ELSE {})
  <2>1. CASE linked
    <3>1. IterEntries(FALSE) = [i \in 1 .. length |-> order[i]]
      BY <1>1, <2>1, IterEntriesAre DEF InOrder
    <3>2. ToSet(IterEntries(FALSE)) = {order[i] : i \in 1 .. length}
      BY <3>1 DEF ToSet
    <3>3. DOMAIN cell = {order[i] : i \in 1 .. length}
      <4>1. /\ \A i \in 1 .. length : order[i] \in DOMAIN cell
            /\ \A e \in DOMAIN cell : \E i \in 1 .. length : order[i] = e
        BY <1>1, <2>1 DEF InOrder, Chained, IsChain
      <4> QED
        BY <4>1
    <3>4. exists
      BY <2>1 DEF ListInv, LinkedInv
    <3> QED
      BY <2>1, <3>2, <3>3, <3>4
  <2>2. CASE ~ linked
    BY <2>2 DEF ListInv, ArrayInv
  <2> QED
    BY <2>1, <2>2
<1> QED
  BY <1>2, <1>3 DEF NothingLeaks

-----------------------------------------------------------------------------
(* Chains that grow and shrink.                                            *)

(* The cell e is new to the heap, and its neighbours at place p point to   *)
(* it, as it points to them.                                               *)
JoinsAt(order, n, heap, p, e, heap2) ==
  /\ e \notin DOMAIN heap
  /\ DOMAIN heap2 = DOMAIN heap \cup {e}
  /\ heap2[e].next = (IF p = n + 1 THEN Null ELSE order[p])
  /\ heap2[e].prev = (IF p = 1 THEN Null ELSE order[p - 1])
  /\ \A i \in 1 .. n :
       /\ heap2[order[i]].next = IF i = p - 1 THEN e ELSE heap[order[i]].next
       /\ heap2[order[i]].prev = IF i = p THEN e ELSE heap[order[i]].prev

(* A chain that such a cell joins is a chain.                              *)
LEMMA ChainGrows ==
  ASSUME NEW n \in Nat, NEW order, NEW heap, NEW first, NEW last,
         IsChain(order, n, heap, first, last), Null \notin DOMAIN heap,
         NEW p \in 1 .. n + 1, NEW e, NEW heap2, NEW first2, NEW last2,
         JoinsAt(order, n, heap, p, e, heap2),
         first2 = (IF p = 1 THEN e ELSE first),
         last2 = (IF p = n + 1 THEN e ELSE last)
  PROVE  IsChain(Inserted(order, n, p, e), n + 1, heap2, first2, last2)
<1> DEFINE new == Inserted(order, n, p, e)
<1>   /\ e \notin DOMAIN heap
      /\ DOMAIN heap2 = DOMAIN heap \cup {e}
      /\ heap2[e].next = (IF p = n + 1 THEN Null ELSE order[p])
      /\ heap2[e].prev = (IF p = 1 THEN Null ELSE order[p - 1])
      /\ \A i \in 1 .. n :
           /\ heap2[order[i]].next = IF i = p - 1 THEN e ELSE heap[order[i]].next
           /\ heap2[order[i]].prev = IF i = p THEN e ELSE heap[order[i]].prev
  BY DEF JoinsAt
<1>1. /\ order \in [1 .. n -> DOMAIN heap]
      /\ \A i, j \in 1 .. n : order[i] = order[j] => i = j
      /\ \A x \in DOMAIN heap : \E i \in 1 .. n : order[i] = x
      /\ \A i \in 1 .. n : heap[order[i]].prev = IF i = 1 THEN Null ELSE order[i - 1]
      /\ \A i \in 1 .. n : heap[order[i]].next = IF i = n THEN Null ELSE order[i + 1]
      /\ first = IF n = 0 THEN Null ELSE order[1]
      /\ last = IF n = 0 THEN Null ELSE order[n]
  BY DEF IsChain
<1>2. \A i \in 1 .. n : order[i] \in DOMAIN heap /\ order[i] # e
  BY <1>1
<1>3. /\ DOMAIN new = 1 .. n + 1
      /\ \A i \in 1 .. n + 1 : new[i] = IF i < p THEN order[i] ELSE IF i = p THEN e ELSE order[i - 1]
  BY DEF Inserted
<1>4. new[p] = e
  BY <1>3
<1>5. \A i \in 1 .. n + 1 : i < p => i \in 1 .. n /\ new[i] = order[i]
  BY <1>3
<1>6. \A i \in 1 .. n + 1 : p < i => i - 1 \in 1 .. n /\ new[i] = order[i - 1]
  BY <1>3
<1>7. \A i \in 1 .. n + 1 : i < p \/ i = p \/ p < i
  OBVIOUS
<1>a. new = [i \in 1 .. n + 1 |-> new[i]]
  BY DEF Inserted
<1> HIDE DEF new
<1>8. new \in [1 .. n + 1 -> DOMAIN heap2]
  <2>1. \A i \in 1 .. n + 1 : new[i] \in DOMAIN heap2
    BY <1>2, <1>4, <1>5, <1>6, <1>7
  <2> QED
    BY <1>a, <2>1
<1>9. ASSUME NEW i \in 1 .. n + 1, NEW j \in 1 .. n + 1, new[i] = new[j]
      PROVE  i = j
  <2>1. CASE i = p
    BY <1>2, <1>4, <1>5, <1>6, <1>7, <1>9, <2>1
  <2>2. CASE j = p
    BY <1>2, <1>4, <1>5, <1>6, <1>7, <1>9, <2>2
  <2>3. CASE i < p
    <3>1. CASE j < p
      BY <1>1, <1>5, <1>9, <2>3, <3>1
    <3>2. CASE p < j
      <4>1. i = j - 1
        <5>1. i \in 1 .. n /\ j - 1 \in 1 .. n /\ order[i] = order[j - 1]
          BY <1>5, <1>6, <1>9, <2>3, <3>2
        <5> QED
          BY <1>1, <5>1
      <4> QED
        BY <2>3, <3>2, <4>1
    <3> QED
      BY <1>7, <2>2, <3>1, <3>2
  <2>4. CASE p < i
    <3>1. CASE j < p
      <4>1. j = i - 1
        BY <1>1, <1>5, <1>6, <1>9, <2>4, <3>1
      <4> QED
        BY <2>4, <3>1, <4>1
    <3>2. CASE p < j
      <4>1. i - 1 = j - 1
        <5>1. i - 1 \in 1 .. n /\ j - 1 \in 1 .. n /\ order[i - 1] = order[j - 1]
          BY <1>6, <1>9, <2>4, <3>2
        <5> QED
          BY <1>1, <5>1
      <4> QED
        BY <4>1
    <3> QED
      BY <1>7, <2>2, <3>1, <3>2
  <2> QED
    BY <1>7, <2>1, <2>3, <2>4
<1>10. ASSUME NEW x \in DOMAIN heap2
       PROVE  \E i \in 1 .. n + 1 : new[i] = x
  <2>1. CASE x = e
    BY <1>4, <2>1
  <2>2. CASE x # e
    <3>1. PICK k \in 1 .. n : order[k] = x
      BY <1>1, <2>2
    <3>2. CASE k < p
      <4>1. k \in 1 .. n + 1
        OBVIOUS
      <4> QED
        BY <1>5, <3>1, <3>2, <4>1
    <3>3. CASE ~ (k < p)
      <4>1. k + 1 \in 1 .. n + 1 /\ p < k + 1 /\ k + 1 - 1 = k
        BY <3>3
      <4> QED
        BY <1>6, <3>1, <4>1
    <3> QED
      BY <3>2, <3>3
  <2> QED
    BY <2>1, <2>2
<1>11. ASSUME NEW i \in 1 .. n + 1
       PROVE  /\ heap2[new[i]].prev = IF i = 1 THEN Null ELSE new[i - 1]
              /\ heap2[new[i]].next = IF i = n + 1 THEN Null ELSE new[i + 1]
  <2>1. CASE i = p
    <3>1. heap2[new[i]].prev = IF i = 1 THEN Null ELSE new[i - 1]
      <4>1. i # 1 => i - 1 \in 1 .. n + 1 /\ i - 1 < p
        BY <2>1
      <4> QED
        BY <1>4, <1>5, <2>1, <4>1
    <3>2. heap2[new[i]].next = IF i = n + 1 THEN Null ELSE new[i + 1]
      <4>1. i # n + 1 => i + 1 \in 1 .. n + 1 /\ p < i + 1 /\ i + 1 - 1 = p
        BY <2>1
      <4> QED
        BY <1>4, <1>6, <2>1, <4>1
    <3> QED
      BY <3>1, <3>2
  <2>2. CASE i < p
    <3>1. i \in 1 .. n /\ new[i] = order[i] /\ i # p
      BY <1>5, <2>2
    <3>2. heap2[new[i]].prev = IF i = 1 THEN Null ELSE new[i - 1]
      <4>1. i # 1 => i - 1 \in 1 .. n + 1 /\ i - 1 < p
        BY <2>2
      <4>2. i # 1 => new[i - 1] = order[i - 1]
        BY <1>5, <4>1
      <4> QED
        BY <1>1, <3>1, <4>2
    <3>3. heap2[new[i]].next = IF i = n + 1 THEN Null ELSE new[i + 1]
      <4>1. CASE i = p - 1
        <5>1. i + 1 = p /\ i # n + 1
          BY <2>2, <4>1
        <5> QED
          BY <1>4, <3>1, <4>1, <5>1
      <4>2. CASE i # p - 1
        <5>1. i + 1 \in 1 .. n + 1 /\ i + 1 < p /\ i # n /\ i # n + 1
          BY <2>2, <4>2
        <5>2. new[i + 1] = order[i + 1]
          BY <1>5, <5>1
        <5> QED
          BY <1>1, <3>1, <4>2, <5>1, <5>2
      <4> QED
        BY <4>1, <4>2
    <3> QED
      BY <3>2, <3>3
  <2>3. CASE p < i
    <3> DEFINE k == i - 1
    <3>1. k \in 1 .. n /\ new[i] = order[k] /\ k # p - 1 /\ i # 1 /\ i = k + 1
      BY <1>6, <2>3
    <3> HIDE DEF k
    <3>2. heap2[new[i]].prev = IF i = 1 THEN Null ELSE new[i - 1]
      <4>1. CASE k = p
        <5>1. i - 1 = p
          BY <3>1, <4>1
        <5> QED
          BY <1>4, <3>1, <4>1, <5>1
      <4>2. CASE k # p
        <5>1. k \in 1 .. n + 1 /\ p < k /\ k # 1 /\ i - 1 = k
          BY <2>3, <3>1, <4>2
        <5>2. new[k] = order[k - 1]
          BY <1>6, <5>1
        <5> QED
          BY <1>1, <3>1, <4>2, <5>1, <5>2
      <4> QED
        BY <4>1, <4>2
    <3>3. heap2[new[i]].next = IF i = n + 1 THEN Null ELSE new[i + 1]
      <4>1. i # n + 1 => i + 1 \in 1 .. n + 1 /\ p < i + 1 /\ i + 1 - 1 = k + 1
        BY <2>3, <3>1
      <4>2. i # n + 1 => new[i + 1] = order[k + 1]
        BY <1>6, <4>1
      <4>3. i = n + 1 <=> k = n
        BY <3>1
      <4> QED
        BY <1>1, <3>1, <4>2, <4>3
    <3> QED
      BY <3>2, <3>3
  <2> QED
    BY <1>7, <2>1, <2>2, <2>3
<1>12. first2 = IF n + 1 = 0 THEN Null ELSE new[1]
  <2>1. n + 1 # 0 /\ 1 \in 1 .. n + 1
    OBVIOUS
  <2>2. CASE p = 1
    BY <1>4, <2>1, <2>2
  <2>3. CASE p # 1
    <3>1. 1 < p /\ n # 0
      BY <2>3
    <3> QED
      BY <1>1, <1>5, <2>1, <2>3, <3>1
  <2> QED
    BY <2>2, <2>3
<1>13. last2 = IF n + 1 = 0 THEN Null ELSE new[n + 1]
  <2>1. n + 1 # 0 /\ n + 1 \in 1 .. n + 1
    OBVIOUS
  <2>2. CASE p = n + 1
    BY <1>4, <2>1, <2>2
  <2>3. CASE p # n + 1
    <3>1. p < n + 1 /\ n # 0 /\ n + 1 - 1 = n
      BY <2>3
    <3> QED
      BY <1>1, <1>6, <2>1, <2>3, <3>1
  <2> QED
    BY <2>2, <2>3
<1>14. IsChain(new, n + 1, heap2, first2, last2)
  BY <1>8, <1>9, <1>10, <1>11, <1>12, <1>13 DEF IsChain
<1> QED
  BY <1>14 DEF new

(* The cell at place p leaves the heap, and what it pointed to point to    *)
(* each other.                                                             *)
LeavesAt(order, p, heap, heap2) ==
  /\ DOMAIN heap2 = DOMAIN heap \ {order[p]}
  /\ \A x \in DOMAIN heap2 :
       /\ heap2[x].next = IF x = heap[order[p]].prev THEN heap[order[p]].next ELSE heap[x].next
       /\ heap2[x].prev = IF x = heap[order[p]].next THEN heap[order[p]].prev ELSE heap[x].prev

(* A chain that it leaves is a chain.                                      *)
LEMMA ChainShrinks ==
  ASSUME NEW n \in Nat, NEW order, NEW heap, NEW first, NEW last,
         IsChain(order, n, heap, first, last), Null \notin DOMAIN heap,
         NEW p \in 1 .. n,
         NEW heap2, NEW first2, NEW last2,
         LeavesAt(order, p, heap, heap2),
         first2 = (IF order[p] = first THEN heap[order[p]].next ELSE first),
         last2 = (IF order[p] = last THEN heap[order[p]].prev ELSE last)
  PROVE  IsChain(Removed(order, n, p), n - 1, heap2, first2, last2)
<1> DEFINE new == Removed(order, n, p)
<1>   /\ DOMAIN heap2 = DOMAIN heap \ {order[p]}
      /\ \A x \in DOMAIN heap2 :
           /\ heap2[x].next = IF x = heap[order[p]].prev THEN heap[order[p]].next ELSE heap[x].next
           /\ heap2[x].prev = IF x = heap[order[p]].next THEN heap[order[p]].prev ELSE heap[x].prev
  BY DEF LeavesAt
<1>1. /\ order \in [1 .. n -> DOMAIN heap]
      /\ \A i, j \in 1 .. n : order[i] = order[j] => i = j
      /\ \A x \in DOMAIN heap : \E i \in 1 .. n : order[i] = x
      /\ \A i \in 1 .. n : heap[order[i]].prev = IF i = 1 THEN Null ELSE order[i - 1]
      /\ \A i \in 1 .. n : heap[order[i]].next = IF i = n THEN Null ELSE order[i + 1]
      /\ first = IF n = 0 THEN Null ELSE order[1]
      /\ last = IF n = 0 THEN Null ELSE order[n]
  BY DEF IsChain
<1>2. \A i \in 1 .. n : order[i] # Null /\ order[i] \in DOMAIN heap
  BY <1>1
<1>3. /\ DOMAIN new = 1 .. n - 1 /\ new = [i \in 1 .. n - 1 |-> new[i]]
      /\ \A i \in 1 .. n - 1 : new[i] = IF i < p THEN order[i] ELSE order[i + 1]
  BY DEF Removed
<1> HIDE DEF new
<1>4. \A i \in 1 .. n - 1 : i < p => i \in 1 .. n /\ new[i] = order[i]
  BY <1>3
<1>5. \A i \in 1 .. n - 1 : ~ (i < p) => i + 1 \in 1 .. n /\ i + 1 # p /\ new[i] = order[i + 1]
  BY <1>3
<1>6. \A i \in 1 .. n : i # p => order[i] \in DOMAIN heap2
  BY <1>1, <1>2
(* What the heap has at the places that stay.                              *)
<1>7. \A i \in 1 .. n : i # p =>
        /\ heap2[order[i]].next =
             IF i = p - 1 THEN (IF p = n THEN Null ELSE order[p + 1])
             ELSE IF i = n THEN Null ELSE order[i + 1]
        /\ heap2[order[i]].prev =
             IF i = p + 1 THEN (IF p = 1 THEN Null ELSE order[p - 1])
             ELSE IF i = 1 THEN Null ELSE order[i - 1]
  <2> SUFFICES ASSUME NEW i \in 1 .. n, i # p
               PROVE  /\ heap2[order[i]].next =
                           IF i = p - 1 THEN (IF p = n THEN Null ELSE order[p + 1])
                           ELSE IF i = n THEN Null ELSE order[i + 1]
                      /\ heap2[order[i]].prev =
                           IF i = p + 1 THEN (IF p = 1 THEN Null ELSE order[p - 1])
                           ELSE IF i = 1 THEN Null ELSE order[i - 1]
    OBVIOUS
  <2>1. order[i] = heap[order[p]].prev <=> i = p - 1
    <3>1. CASE p = 1
      BY <1>1, <1>2, <3>1
    <3>2. CASE p # 1
      <4>1. p - 1 \in 1 .. n
        BY <3>2
      <4> QED
        BY <1>1, <3>2, <4>1
    <3> QED
      BY <3>1, <3>2
  <2>2. order[i] = heap[order[p]].next <=> i = p + 1
    <3>1. CASE p = n
      BY <1>1, <1>2, <3>1
    <3>2. CASE p # n
      <4>1. p + 1 \in 1 .. n
        BY <3>2
      <4> QED
        BY <1>1, <3>2, <4>1
    <3> QED
      BY <3>1, <3>2
  <2>3. order[i] \in DOMAIN heap2
    BY <1>6
  <2> QED
    BY <1>1, <2>1, <2>2, <2>3
<1>8. n - 1 \in Nat
  OBVIOUS
<1>9. new \in [1 .. n - 1 -> DOMAIN heap2]
  <2>1. \A i \in 1 .. n - 1 : new[i] \in DOMAIN heap2
    BY <1>4, <1>5, <1>6
  <2> QED
    BY <1>3, <2>1
<1>10. ASSUME NEW i \in 1 .. n - 1, NEW j \in 1 .. n - 1, new[i] = new[j]
       PROVE  i = j
  <2>1. CASE i < p /\ j < p
    BY <1>1, <1>4, <1>10, <2>1
  <2>2. CASE i < p /\ ~ (j < p)
    <3>1. i = j + 1
      <4>1. i \in 1 .. n /\ j + 1 \in 1 .. n /\ order[i] = order[j + 1]
        BY <1>4, <1>5, <1>10, <2>2
      <4> QED
        BY <1>1, <4>1
    <3> QED
      BY <2>2, <3>1
  <2>3. CASE ~ (i < p) /\ j < p
    <3>1. i + 1 = j
      BY <1>1, <1>4, <1>5, <1>10, <2>3
    <3> QED
      BY <2>3, <3>1
  <2>4. CASE ~ (i < p) /\ ~ (j < p)
    <3>1. i + 1 = j + 1
      BY <1>1, <1>5, <1>10, <2>4
    <3> QED
      BY <3>1
  <2> QED
    BY <2>1, <2>2, <2>3, <2>4
<1>11. ASSUME NEW x \in DOMAIN heap2
       PROVE  \E i \in 1 .. n - 1 : new[i] = x
  <2>1. PICK k \in 1 .. n : order[k] = x
    BY <1>1
  <2>2. k # p
    BY <2>1
  <2>3. CASE k < p
    <3>1. k \in 1 .. n - 1
      BY <2>3
    <3> QED
      BY <1>4, <2>1, <2>3, <3>1
  <2>4. CASE p < k
    <3>1. k - 1 \in 1 .. n - 1 /\ ~ (k - 1 < p) /\ k - 1 + 1 = k
      BY <2>4
    <3> QED
      BY <1>5, <2>1, <3>1
  <2> QED
    BY <2>2, <2>3, <2>4
<1>12. ASSUME NEW i \in 1 .. n - 1
       PROVE  /\ heap2[new[i]].prev = IF i = 1 THEN Null ELSE new[i - 1]
              /\ heap2[new[i]].next = IF i = n - 1 THEN Null ELSE new[i + 1]
  <2>1. CASE i < p
    <3>1. i \in 1 .. n /\ i # p /\ i # p + 1 /\ i # n /\ new[i] = order[i]
      BY <1>4, <2>1
    <3>2. heap2[new[i]].prev = IF i = 1 THEN Null ELSE new[i - 1]
      <4>1. i # 1 => i - 1 \in 1 .. n - 1 /\ i - 1 < p
        BY <2>1
      <4>2. i # 1 => new[i - 1] = order[i - 1]
        BY <1>4, <4>1
      <4> QED
        BY <1>7, <3>1, <4>2
    <3>3. heap2[new[i]].next = IF i = n - 1 THEN Null ELSE new[i + 1]
      <4>1. CASE i = p - 1
        <5>1. i = n - 1 <=> p = n
          BY <4>1
        <5>2. i # n - 1 => i + 1 \in 1 .. n - 1 /\ ~ (i + 1 < p) /\ i + 1 + 1 = p + 1
          BY <4>1
        <5>3. i # n - 1 => new[i + 1] = order[p + 1]
          BY <1>5, <5>2
        <5> QED
          BY <1>7, <3>1, <4>1, <5>1, <5>3
      <4>2. CASE i # p - 1
        <5>1. i # n - 1 /\ i + 1 \in 1 .. n - 1 /\ i + 1 < p
          BY <2>1, <4>2
        <5>2. new[i + 1] = order[i + 1]
          BY <1>4, <5>1
        <5> QED
          BY <1>7, <3>1, <4>2, <5>1, <5>2
      <4> QED
        BY <4>1, <4>2
    <3> QED
      BY <3>2, <3>3
  <2>2. CASE ~ (i < p)
    <3> DEFINE k == i + 1
    <3>1. k \in 1 .. n /\ k # p /\ k # p - 1 /\ k # 1 /\ new[i] = order[k] /\ i = k - 1
      BY <1>5, <2>2
    <3> HIDE DEF k
    <3>2. heap2[new[i]].prev = IF i = 1 THEN Null ELSE new[i - 1]
      <4>1. CASE i = p
        <5>1. k = p + 1 /\ (i = 1 <=> p = 1)
          BY <3>1, <4>1
        <5>2. i # 1 => i - 1 \in 1 .. n - 1 /\ i - 1 < p
          BY <4>1
        <5>3. i # 1 => new[i - 1] = order[p - 1]
          BY <1>4, <4>1, <5>2
        <5> QED
          BY <1>7, <3>1, <5>1, <5>3
      <4>2. CASE i # p
        <5>1. i # 1 /\ k # p + 1 /\ i - 1 \in 1 .. n - 1 /\ ~ (i - 1 < p) /\ i - 1 + 1 = k - 1
          BY <2>2, <3>1, <4>2
        <5>2. new[i - 1] = order[k - 1]
          BY <1>5, <5>1
        <5> QED
          BY <1>7, <3>1, <5>1, <5>2
      <4> QED
        BY <4>1, <4>2
    <3>3. heap2[new[i]].next = IF i = n - 1 THEN Null ELSE new[i + 1]
      <4>1. i # n - 1 => i + 1 \in 1 .. n - 1 /\ ~ (i + 1 < p) /\ i + 1 + 1 = k + 1
        BY <2>2, <3>1
      <4>2. i # n - 1 => new[i + 1] = order[k + 1]
        BY <1>5, <4>1
      <4>3. i = n - 1 <=> k = n
        BY <3>1
      <4> QED
        BY <1>7, <3>1, <4>2, <4>3
    <3> QED
      BY <3>2, <3>3
  <2> QED
    BY <2>1, <2>2
<1>13. first2 = IF n - 1 = 0 THEN Null ELSE new[1]
  <2>1. n # 0 /\ first = order[1] /\ 1 \in 1 .. n
    BY <1>1
  <2>2. CASE p = 1
    <3>1. first2 = IF p = n THEN Null ELSE order[p + 1]
      BY <1>1, <2>1, <2>2
    <3>2. n - 1 # 0 => 1 \in 1 .. n - 1 /\ ~ (1 < p) /\ 1 + 1 = p + 1
      BY <2>2
    <3>3. n - 1 # 0 => new[1] = order[p + 1]
      BY <1>5, <3>2
    <3>4. n - 1 = 0 <=> p = n
      BY <2>2
    <3> QED
      BY <3>1, <3>3, <3>4
  <2>3. CASE p # 1
    <3>1. 1 \in 1 .. n - 1 /\ 1 < p /\ n - 1 # 0
      BY <2>3
    <3>2. order[p] # first /\ new[1] = order[1]
      BY <1>1, <1>4, <2>1, <2>3, <3>1
    <3> QED
      BY <2>1, <3>1, <3>2
  <2> QED
    BY <2>2, <2>3
<1>14. last2 = IF n - 1 = 0 THEN Null ELSE new[n - 1]
  <2>1. n # 0 /\ last = order[n] /\ n \in 1 .. n
    BY <1>1
  <2>2. CASE p = n
    <3>1. last2 = IF p = 1 THEN Null ELSE order[p - 1]
      BY <1>1, <2>1, <2>2
    <3>2. n - 1 # 0 => n - 1 \in 1 .. n - 1 /\ n - 1 < p /\ n - 1 = p - 1
      BY <2>2
    <3>3. n - 1 # 0 => new[n - 1] = order[p - 1]
      BY <1>4, <3>2
    <3>4. n - 1 = 0 <=> p = 1
      BY <2>2
    <3> QED
      BY <3>1, <3>3, <3>4
  <2>3. CASE p # n
    <3>1. n - 1 \in 1 .. n - 1 /\ ~ (n - 1 < p) /\ n - 1 # 0 /\ n - 1 + 1 = n
      BY <2>3
    <3>2. order[p] # last /\ new[n - 1] = order[n]
      BY <1>1, <1>5, <2>1, <2>3, <3>1
    <3> QED
      BY <2>1, <3>1, <3>2
  <2> QED
    BY <2>2, <2>3
<1>15. IsChain(new, n - 1, heap2, first2, last2)
  BY <1>9, <1>10, <1>11, <1>12, <1>13, <1>14 DEF IsChain
<1> QED
  BY <1>15 DEF new

-----------------------------------------------------------------------------
(* Insertion.                                                              *)

(* What Put makes of a heap.                                               *)
HasNew(heap2, heap, e, entry) ==
  /\ DOMAIN heap2 = DOMAIN heap \cup {e}
  /\ heap2[e] = entry
  /\ \A x \in DOMAIN heap :
       /\ heap2[x] \in ListEntry
       /\ heap2[x].value = heap[x].value
       /\ heap2[x].prev = heap[x].prev
       /\ heap2[x].next = IF x = entry.prev THEN e ELSE heap[x].next

LEMMA PutFields ==
  ASSUME NEW heap, \A x \in DOMAIN heap : heap[x] \in ListEntry,
         NEW e \in Cells, e \notin DOMAIN heap, NEW entry \in ListEntry
  PROVE  HasNew(Put(heap, e, entry), heap, e, entry)
<1> DEFINE heap2 == Put(heap, e, entry)
<1>1. DOMAIN heap2 = DOMAIN heap \cup {e} /\ heap2[e] = entry
  BY DEF Put
<1>2. ASSUME NEW x \in DOMAIN heap
      PROVE  heap2[x] = IF x = entry.prev THEN [heap[x] EXCEPT !.next = e] ELSE heap[x]
  BY DEF Put
<1>3. ASSUME NEW x \in DOMAIN heap
      PROVE  /\ heap2[x] \in ListEntry
             /\ heap2[x].value = heap[x].value
             /\ heap2[x].prev = heap[x].prev
             /\ heap2[x].next = IF x = entry.prev THEN e ELSE heap[x].next
  <2>1. heap[x] \in ListEntry
    OBVIOUS
  <2>2. CASE x = entry.prev
    <3>1. heap2[x] = [heap[x] EXCEPT !.next = e]
      BY <1>2, <2>2
    <3> QED
      BY <2>1, <2>2, <3>1 DEF ListEntry
  <2>3. CASE x # entry.prev
    <3>1. heap2[x] = heap[x]
      BY <1>2, <2>3
    <3> QED
      BY <2>1, <2>3, <3>1 DEF ListEntry
  <2> QED
    BY <2>2, <2>3
<1> QED
  BY <1>1, <1>3 DEF HasNew

(* A step that puts v in a new cell e, at place p of the cells in order.   *)
NewCell(order, p, e, v) ==
  /\ DOMAIN cell' = DOMAIN cell \cup {e}
  /\ cell'[e] \in ListEntry /\ cell'[e].value = v
  /\ cell'[e].next = (IF p = length + 1 THEN Null ELSE order[p])
  /\ cell'[e].prev = (IF p = 1 THEN Null ELSE order[p - 1])
  /\ \A x \in DOMAIN cell : cell'[x] \in ListEntry /\ cell'[x].value = cell[x].value
  /\ \A i \in 1 .. length :
       /\ cell'[order[i]].next = IF i = p - 1 THEN e ELSE cell[order[i]].next
       /\ cell'[order[i]].prev = IF i = p THEN e ELSE cell[order[i]].prev
  /\ head' = (IF p = 1 THEN e ELSE head)
  /\ tail' = (IF p = length + 1 THEN e ELSE tail)

(* The new cell and its neighbours, in each of the three cases.            *)
LEMMA InsertLinkedCells ==
  ASSUME ListInv, linked, NEW order, Chained(order),
         NEW v \in Values, NEW index \in -1 .. length - 1, listInsertLinked(index, v),
         NEW p, p = IF index < 0 THEN length + 1 ELSE index + 1
  PROVE  \E e \in Cells \ DOMAIN cell : NewCell(order, p, e, v)
<1>1. /\ length \in Nat /\ index \in Int /\ Null \notin Cells
      /\ DOMAIN cell \subseteq Cells
      /\ \A x \in DOMAIN cell : cell[x] \in ListEntry
  BY ListAssumption DEF ListInv, TypeOK
<1>2. /\ \A i \in 1 .. length : order[i] \in DOMAIN cell
      /\ \A i, j \in 1 .. length : order[i] = order[j] => i = j
      /\ \A x \in DOMAIN cell : \E i \in 1 .. length : order[i] = x
      /\ \A i \in 1 .. length : cell[order[i]].prev = IF i = 1 THEN Null ELSE order[i - 1]
      /\ tail = IF length = 0 THEN Null ELSE order[length]
  BY DEF Chained, IsChain
<1>3. PICK e \in Cells \ DOMAIN cell :
        \/ /\ length = 0
           /\ head' = e /\ tail' = e
           /\ cell' = Put(cell, e, [next |-> Null, prev |-> Null, value |-> v])
        \/ /\ length # 0 /\ index < 0
           /\ tail' = e
           /\ cell' = Put(cell, e, [next |-> Null, prev |-> tail, value |-> v])
           /\ UNCHANGED head
        \/ /\ length # 0 /\ index >= 0
           /\ LET current == listGetEntry(index) IN
                cell' = Put([cell EXCEPT ![current].prev = e], e,
                            [next |-> current, prev |-> cell[current].prev, value |-> v])
           /\ head' = (IF index = 0 THEN e ELSE head)
           /\ UNCHANGED tail
  BY DEF listInsertLinked
<1>a. e \in Cells /\ e \notin DOMAIN cell
  OBVIOUS
<1>4. ASSUME length = 0, head' = e, tail' = e,
             cell' = Put(cell, e, [next |-> Null, prev |-> Null, value |-> v])
      PROVE  NewCell(order, p, e, v)
  <2> DEFINE entry == [next |-> Null, prev |-> Null, value |-> v]
  <2>1. entry \in ListEntry /\ entry.next = Null /\ entry.prev = Null /\ entry.value = v
    BY DEF ListEntry
  <2>2. index < 0 /\ p = 1 /\ p = length + 1
    BY <1>1, <1>4
  <2>3. 1 .. length = {}
    BY <1>4
  <2>4. cell' = Put(cell, e, entry)
    BY <1>4
  <2> HIDE DEF entry
  <2>5. /\ DOMAIN cell' = DOMAIN cell \cup {e} /\ cell'[e] = entry
        /\ \A x \in DOMAIN cell : cell'[x] \in ListEntry /\ cell'[x].value = cell[x].value
    <3>1. HasNew(Put(cell, e, entry), cell, e, entry)
      <4>1. \A x \in DOMAIN cell : cell[x] \in ListEntry
        BY <1>1
      <4> QED
        BY <1>a, <2>1, <4>1, PutFields
    <3>2. HasNew(cell', cell, e, entry)
      BY <2>4, <3>1
    <3> QED
      BY <3>2 DEF HasNew
  <2> QED
    BY <1>4, <2>1, <2>2, <2>3, <2>5 DEF NewCell
<1>5. ASSUME length # 0, index < 0, tail' = e,
             cell' = Put(cell, e, [next |-> Null, prev |-> tail, value |-> v]), head' = head
      PROVE  NewCell(order, p, e, v)
  <2> DEFINE end == order[length]
             entry == [next |-> Null, prev |-> end, value |-> v]
  <2>1. p = length + 1 /\ p # 1 /\ p - 1 = length /\ length \in 1 .. length
    BY <1>1, <1>5
  <2>2. tail = end /\ end \in Cells
    BY <1>1, <1>2, <1>5, <2>1
  <2>3. entry \in ListEntry /\ entry.next = Null /\ entry.prev = end /\ entry.value = v
    BY <2>2 DEF ListEntry
  <2>4. cell' = Put(cell, e, entry)
    BY <1>5, <2>2
  <2> HIDE DEF entry, end
  <2>5. /\ DOMAIN cell' = DOMAIN cell \cup {e} /\ cell'[e] = entry
        /\ \A x \in DOMAIN cell :
             /\ cell'[x] \in ListEntry /\ cell'[x].value = cell[x].value
             /\ cell'[x].prev = cell[x].prev
             /\ cell'[x].next = IF x = end THEN e ELSE cell[x].next
    <3>1. /\ DOMAIN cell' = DOMAIN cell \cup {e} /\ cell'[e] = entry
          /\ \A x \in DOMAIN cell :
               /\ cell'[x] \in ListEntry /\ cell'[x].value = cell[x].value
               /\ cell'[x].prev = cell[x].prev
               /\ cell'[x].next = IF x = entry.prev THEN e ELSE cell[x].next
      <4>1. entry \in ListEntry /\ \A x \in DOMAIN cell : cell[x] \in ListEntry
        BY <1>1, <2>3
      <4>2. HasNew(Put(cell, e, entry), cell, e, entry)
        BY <1>a, <4>1, PutFields
      <4>3. HasNew(cell', cell, e, entry)
        BY <2>4, <4>2
      <4> QED
        BY <4>3 DEF HasNew
    <3> QED
      BY <2>3, <3>1
  <2>6. \A i \in 1 .. length : i # p /\ (order[i] = end <=> i = p - 1)
    BY <1>2, <2>1 DEF end
  <2>7. \A i \in 1 .. length :
          /\ cell'[order[i]].next = IF i = p - 1 THEN e ELSE cell[order[i]].next
          /\ cell'[order[i]].prev = IF i = p THEN e ELSE cell[order[i]].prev
    BY <1>2, <2>5, <2>6
  <2>8. /\ cell'[e] \in ListEntry /\ cell'[e].value = v
        /\ cell'[e].next = (IF p = length + 1 THEN Null ELSE order[p])
        /\ cell'[e].prev = (IF p = 1 THEN Null ELSE order[p - 1])
    BY <2>1, <2>3, <2>5 DEF end
  <2> QED
    BY <1>5, <2>1, <2>5, <2>7, <2>8 DEF NewCell
<1>6. ASSUME length # 0, index >= 0,
             cell' = Put([cell EXCEPT ![listGetEntry(index)].prev = e], e,
                         [next |-> listGetEntry(index), prev |-> cell[listGetEntry(index)].prev,
                          value |-> v]),
             head' = (IF index = 0 THEN e ELSE head), tail' = tail
      PROVE  NewCell(order, p, e, v)
  <2>1. /\ p = index + 1 /\ p \in 1 .. length /\ p # length + 1 /\ index \in 0 .. length - 1
        /\ (index = 0 <=> p = 1)
    BY <1>1, <1>6
  <2>2. listGetEntry(index) = order[p]
    BY <2>1, GetEntryIs
  <2> DEFINE heap == [cell EXCEPT ![order[p]].prev = e]
             before == IF p = 1 THEN Null ELSE order[p - 1]
             entry == [next |-> order[p], prev |-> before, value |-> v]
  <2>3. cell[order[p]].prev = before /\ before \in Cells \cup {Null} /\ order[p] \in Cells
    <3>1. p # 1 => p - 1 \in 1 .. length
      BY <1>1, <2>1
    <3> QED
      BY <1>1, <1>2, <2>1, <3>1
  <2>4. cell' = Put(heap, e, entry)
    BY <1>6, <2>2, <2>3
  <2>5. entry \in ListEntry /\ entry.next = order[p] /\ entry.prev = before /\ entry.value = v
    BY <2>3 DEF ListEntry
  <2>6. /\ DOMAIN heap = DOMAIN cell
        /\ \A x \in DOMAIN cell :
             /\ heap[x] \in ListEntry
             /\ heap[x].next = cell[x].next /\ heap[x].value = cell[x].value
             /\ heap[x].prev = IF x = order[p] THEN e ELSE cell[x].prev
    BY <1>1, <1>2, <2>1 DEF ListEntry
  <2> HIDE DEF heap, entry, before
  <2>7. /\ DOMAIN cell' = DOMAIN heap \cup {e} /\ cell'[e] = entry
        /\ \A x \in DOMAIN heap :
             /\ cell'[x] \in ListEntry /\ cell'[x].value = heap[x].value
             /\ cell'[x].prev = heap[x].prev
             /\ cell'[x].next = IF x = before THEN e ELSE heap[x].next
    <3>1. (\A x \in DOMAIN heap : heap[x] \in ListEntry) /\ e \notin DOMAIN heap
      BY <1>a, <2>6
    <3>2. /\ DOMAIN cell' = DOMAIN heap \cup {e} /\ cell'[e] = entry
          /\ \A x \in DOMAIN heap :
               /\ cell'[x] \in ListEntry /\ cell'[x].value = heap[x].value
               /\ cell'[x].prev = heap[x].prev
               /\ cell'[x].next = IF x = entry.prev THEN e ELSE heap[x].next
      <4>1. HasNew(Put(heap, e, entry), heap, e, entry)
        BY <1>a, <2>5, <3>1, PutFields
      <4>2. HasNew(cell', heap, e, entry)
        BY <2>4, <4>1
      <4> QED
        BY <4>2 DEF HasNew
    <3> QED
      BY <2>5, <3>2
  <2>8. \A i \in 1 .. length : (order[i] = before <=> i = p - 1) /\ (order[i] = order[p] <=> i = p)
    <3>1. p # 1 => p - 1 \in 1 .. length
      BY <1>1, <2>1
    <3>2. Null \notin DOMAIN cell
      BY <1>1
    <3> QED
      BY <1>2, <2>1, <3>1, <3>2 DEF before
  <2>9. \A i \in 1 .. length :
          /\ cell'[order[i]].next = IF i = p - 1 THEN e ELSE cell[order[i]].next
          /\ cell'[order[i]].prev = IF i = p THEN e ELSE cell[order[i]].prev
    BY <1>2, <2>6, <2>7, <2>8
  <2>10. /\ cell'[e] \in ListEntry /\ cell'[e].value = v
         /\ cell'[e].next = (IF p = length + 1 THEN Null ELSE order[p])
         /\ cell'[e].prev = (IF p = 1 THEN Null ELSE order[p - 1])
    BY <2>1, <2>5, <2>7 DEF before
  <2> QED
    BY <1>6, <2>1, <2>6, <2>7, <2>9, <2>10 DEF NewCell
<1>7. NewCell(order, p, e, v)
  BY <1>3, <1>4, <1>5, <1>6
<1> QED
  BY <1>7

(* A step after which v is at place p of the items, or which takes what is *)
(* there.                                                                  *)
PutsIn(p, v) ==
  \E order, order2 :
    /\ InOrder(order) /\ InOrder(order2)'
    /\ \A i \in 1 .. length + 1 :
         Item(order2, i)' = IF i < p THEN Item(order, i)
                            ELSE IF i = p THEN v ELSE Item(order, i - 1)

TakesOut(p) ==
  \E order, order2 :
    /\ InOrder(order) /\ InOrder(order2)'
    /\ \A i \in 1 .. length - 1 :
         Item(order2, i)' = IF i < p THEN Item(order, i) ELSE Item(order, i + 1)

(* An insertion keeps the invariant, and puts v at place p.                *)
LEMMA InsertLinkedStep ==
  ASSUME ListInv, linked,
         NEW v \in Values, NEW index \in -1 .. length - 1, listInsert(index, v),
         NEW p, p = IF index < 0 THEN length + 1 ELSE index + 1
  PROVE  ListInv' /\ PutsIn(p, v)
<1>1. PICK order : Chained(order)
  BY DEF ListInv, LinkedInv
<1>2. /\ exists /\ v \notin owned
      /\ listInsertLinked(index, v) /\ UNCHANGED arrayVars
      /\ length' = length + 1 /\ owned' = owned \cup {v}
      /\ exists' = exists /\ linked' = linked
  BY DEF listInsert
<1>a. PICK e \in Cells \ DOMAIN cell : NewCell(order, p, e, v)
  BY <1>1, <1>2, InsertLinkedCells
<1>3. /\ DOMAIN cell' = DOMAIN cell \cup {e}
      /\ cell'[e] \in ListEntry /\ cell'[e].value = v
      /\ cell'[e].next = (IF p = length + 1 THEN Null ELSE order[p])
      /\ cell'[e].prev = (IF p = 1 THEN Null ELSE order[p - 1])
      /\ \A x \in DOMAIN cell : cell'[x] \in ListEntry /\ cell'[x].value = cell[x].value
      /\ \A i \in 1 .. length :
           /\ cell'[order[i]].next = IF i = p - 1 THEN e ELSE cell[order[i]].next
           /\ cell'[order[i]].prev = IF i = p THEN e ELSE cell[order[i]].prev
      /\ head' = (IF p = 1 THEN e ELSE head)
      /\ tail' = (IF p = length + 1 THEN e ELSE tail)
  BY <1>a DEF NewCell
<1>4. /\ length \in Nat /\ p \in 1 .. length + 1 /\ e \in Cells /\ e \notin DOMAIN cell
      /\ DOMAIN cell \subseteq Cells /\ Null \notin Cells
  BY ListAssumption DEF ListInv, TypeOK
<1>5. PICK order2 : order2 = Inserted(order, length, p, e)
  OBVIOUS
<1>6. IsChain(order2, length + 1, cell', head', tail')
  <2>1. IsChain(order, length, cell, head, tail) /\ Null \notin DOMAIN cell
    BY <1>1, <1>4 DEF Chained
  <2>2. JoinsAt(order, length, cell, p, e, cell')
    BY <1>3, <1>4 DEF JoinsAt
  <2>3. IsChain(Inserted(order, length, p, e), length + 1, cell', head', tail')
    BY <1>3, <1>4, <2>1, <2>2, ChainGrows
  <2> QED
    BY <1>5, <2>3
<1>7. Chained(order2)'
  BY <1>2, <1>6 DEF Chained
<1>8. /\ order2[p] = e
      /\ \A i \in 1 .. length + 1 : i # p => order2[i] = order[IF i < p THEN i ELSE i - 1]
  BY <1>4, <1>5 DEF Inserted
<1>9. /\ \A x \in DOMAIN cell : cell[x].value # v
      /\ owned = {cell[x].value : x \in DOMAIN cell}
      /\ \A x, y \in DOMAIN cell : cell[x].value = cell[y].value => x = y
  BY <1>2 DEF ListInv, LinkedInv
<1>10. TypeOK'
  <2>1. {head', tail'} \subseteq DOMAIN cell' \cup {Null}
    BY <1>3 DEF ListInv, TypeOK
  <2>2. \A x \in DOMAIN cell' : cell'[x] \in ListEntry
    BY <1>3
  <2>3. DOMAIN cell' \subseteq Cells
    BY <1>3, <1>4
  <2>4. length' \in Nat /\ owned' \subseteq Values
    BY <1>2, <1>4 DEF ListInv, TypeOK
  <2> QED
    BY <1>2, <2>1, <2>2, <2>3, <2>4 DEF ListInv, TypeOK, arrayVars
<1>11. LinkedInv'
  <2>1. \A x, y \in DOMAIN cell' : cell'[x].value = cell'[y].value => x = y
    BY <1>3, <1>9
  <2>2. owned' = {cell'[x].value : x \in DOMAIN cell'}
    BY <1>2, <1>3, <1>9
  <2>3. order2 \in [1 .. length' -> DOMAIN cell']
    BY <1>2, <1>6 DEF IsChain
  <2> QED
    BY <1>2, <1>7, <2>1, <2>2, <2>3 DEF LinkedInv
<1>12. ListInv'
  BY <1>2, <1>10, <1>11 DEF ListInv
<1>13. InOrder(order) /\ InOrder(order2)'
  BY <1>1, <1>7 DEF InOrder
<1>14. ASSUME NEW i \in 1 .. length + 1
       PROVE  Item(order2, i)' = IF i < p THEN Item(order, i)
                                 ELSE IF i = p THEN v ELSE Item(order, i - 1)
  <2>1. /\ Item(order2, i)' = cell'[order2[i]].value
        /\ Item(order, i) = cell[order[i]].value
        /\ Item(order, i - 1) = cell[order[i - 1]].value
    BY <1>2 DEF Item
  <2>2. \A j \in 1 .. length : order[j] \in DOMAIN cell
    BY <1>1 DEF Chained, IsChain
  <2>3. CASE i = p
    <3>1. ~ (i < p)
      BY <1>4, <2>3
    <3> QED
      BY <1>3, <1>8, <2>1, <2>3, <3>1
  <2>4. CASE i < p
    <3>1. i \in 1 .. length /\ i # p
      BY <1>4, <2>4
    <3> QED
      BY <1>3, <1>8, <2>1, <2>2, <2>4, <3>1
  <2>5. CASE p < i
    <3>1. i - 1 \in 1 .. length /\ i # p /\ ~ (i < p)
      BY <1>4, <2>5
    <3>2. order2[i] = order[i - 1]
      BY <1>8, <3>1
    <3> QED
      BY <1>3, <2>1, <2>2, <3>1, <3>2
  <2> QED
    BY <1>4, <2>3, <2>4, <2>5
<1> QED
  BY <1>12, <1>13, <1>14 DEF PutsIn

LEMMA InsertArrayStep ==
  ASSUME ListInv, ~ linked,
         NEW v \in Values, NEW index \in -1 .. length - 1, listInsert(index, v),
         NEW p, p = IF index < 0 THEN length + 1 ELSE index + 1
  PROVE  ListInv' /\ PutsIn(p, v)
<1>1. /\ exists /\ v \notin owned
      /\ listInsertArray(index, v) /\ UNCHANGED linkedVars
      /\ length' = length + 1 /\ owned' = owned \cup {v}
      /\ exists' = exists /\ linked' = linked
  BY DEF listInsert
<1>2. /\ length \in Nat /\ capacity \in Nat /\ length <= capacity
      /\ p \in 1 .. length + 1
      /\ entries \in [0 .. capacity - 1 -> Values \cup {Junk}]
      /\ \A i \in 0 .. length - 1 : entries[i] \in Values
      /\ \A i, j \in 0 .. length - 1 : entries[i] = entries[j] => i = j
      /\ owned = {entries[i] : i \in 0 .. length - 1}
  BY DEF ListInv, TypeOK, ArrayInv
<1> DEFINE at == IF index < 0 THEN length ELSE index
<1>3. at = p - 1 /\ at \in 0 .. length
  BY <1>2
<1>4. /\ capacity' \in Nat /\ length + 1 <= capacity' /\ capacity <= capacity'
      /\ entries' = [i \in 0 .. capacity' - 1 |->
           IF i = at THEN v
           ELSE IF at < i /\ i <= length THEN entries[i - 1]
           ELSE IF i < capacity THEN entries[i]
           ELSE Junk]
  BY <1>1, <1>2 DEF listInsertArray
<1> HIDE DEF at
<1>b. PICK c \in Nat : c = capacity' /\ length + 1 <= c /\ capacity <= c
  BY <1>4
<1>5. \A i \in 0 .. length : i \in 0 .. capacity' - 1
  <2>1. c \in Nat /\ length \in Nat /\ length + 1 <= c
    BY <1>2, <1>b
  <2>2. \A i \in 0 .. length : i \in 0 .. c - 1
    BY <2>1
  <2> QED
    BY <1>b, <2>2
<1>6. /\ entries'[at] = v
      /\ \A i \in 0 .. length : i < at => i \in 0 .. length - 1 /\ entries'[i] = entries[i]
      /\ \A i \in 0 .. length : at < i => i - 1 \in 0 .. length - 1 /\ entries'[i] = entries[i - 1]
  <2>1. entries'[at] = v
    BY <1>3, <1>4, <1>5
  <2>2. ASSUME NEW i \in 0 .. length, i < at
        PROVE  i \in 0 .. length - 1 /\ entries'[i] = entries[i]
    <3>1. i \in 0 .. length - 1 /\ i # at /\ ~ (at < i) /\ i < capacity
      BY <1>2, <1>3, <2>2
    <3>2. i \in 0 .. capacity' - 1
      BY <1>5
    <3> QED
      BY <1>4, <3>1, <3>2
  <2>3. ASSUME NEW i \in 0 .. length, at < i
        PROVE  i - 1 \in 0 .. length - 1 /\ entries'[i] = entries[i - 1]
    <3>1. i - 1 \in 0 .. length - 1 /\ i # at /\ i <= length
      BY <1>2, <1>3, <2>3
    <3>2. i \in 0 .. capacity' - 1
      BY <1>5
    <3> QED
      BY <1>4, <2>3, <3>1, <3>2
  <2> QED
    BY <2>1, <2>2, <2>3
<1>7. \A i \in 0 .. length : i < at \/ i = at \/ at < i
  BY <1>2, <1>3
<1>8. entries' \in [0 .. capacity' - 1 -> Values \cup {Junk}]
  <2>1. ASSUME NEW i \in 0 .. capacity' - 1
        PROVE  (IF i = at THEN v
                ELSE IF at < i /\ i <= length THEN entries[i - 1]
                ELSE IF i < capacity THEN entries[i]
                ELSE Junk) \in Values \cup {Junk}
    <3>1. at < i /\ i <= length => i - 1 \in 0 .. length - 1
      BY <1>2, <1>3, <1>4
    <3>2. i < capacity => i \in 0 .. capacity - 1
      BY <1>2, <1>4
    <3> QED
      BY <1>2, <3>1, <3>2
  <2> QED
    BY <1>4, <2>1
<1>9. \A i \in 0 .. length - 1 : entries[i] # v
  BY <1>1, <1>2
<1>10. TypeOK'
  <2>1. length' \in Nat /\ owned' \subseteq Values
    BY <1>1, <1>2 DEF ListInv, TypeOK
  <2> QED
    BY <1>1, <1>4, <1>8, <2>1 DEF ListInv, TypeOK, linkedVars
<1>11. ArrayInv'
  <2>1. DOMAIN cell' = {} /\ head' = Null /\ tail' = Null /\ length' <= capacity'
    BY <1>1, <1>2, <1>4 DEF ListInv, ArrayInv, linkedVars
  <2>2. \A i \in 0 .. length : entries'[i] \in Values
    BY <1>2, <1>6, <1>7
  <2>3. ASSUME NEW i \in 0 .. length, NEW j \in 0 .. length, entries'[i] = entries'[j]
        PROVE  i = j
    <3>1. CASE i < at /\ j < at
      BY <1>2, <1>6, <2>3, <3>1
    <3>2. CASE i < at /\ at < j
      <4>1. i \in 0 .. length - 1 /\ j - 1 \in 0 .. length - 1 /\ entries[i] = entries[j - 1]
        BY <1>6, <2>3, <3>2
      <4>2. i = j - 1
        BY <1>2, <4>1
      <4> QED
        BY <1>2, <1>3, <3>2, <4>2
    <3>3. CASE at < i /\ j < at
      <4>1. i - 1 \in 0 .. length - 1 /\ j \in 0 .. length - 1 /\ entries[i - 1] = entries[j]
        BY <1>6, <2>3, <3>3
      <4>2. i - 1 = j
        BY <1>2, <4>1
      <4> QED
        BY <1>2, <1>3, <3>3, <4>2
    <3>4. CASE at < i /\ at < j
      <4>1. i - 1 \in 0 .. length - 1 /\ j - 1 \in 0 .. length - 1 /\ entries[i - 1] = entries[j - 1]
        BY <1>6, <2>3, <3>4
      <4>2. i - 1 = j - 1
        BY <1>2, <4>1
      <4> QED
        BY <1>2, <4>2
    <3>5. CASE i = at \/ j = at
      BY <1>6, <1>7, <1>9, <2>3, <3>5
    <3> QED
      BY <1>7, <3>1, <3>2, <3>3, <3>4, <3>5
  <2>4. owned' = {entries'[i] : i \in 0 .. length}
    <3>1. \A i \in 0 .. length : entries'[i] \in owned \cup {v}
      BY <1>2, <1>6, <1>7
    <3>2. ASSUME NEW x \in owned \cup {v}
          PROVE  \E i \in 0 .. length : entries'[i] = x
      <4>1. CASE x = v
        BY <1>3, <1>6, <4>1
      <4>2. CASE x # v
        <5>1. PICK k \in 0 .. length - 1 : x = entries[k]
          BY <1>2, <4>2
        <5>2. CASE k < at
          <6>1. k \in 0 .. length
            BY <1>2
          <6> QED
            BY <1>6, <5>1, <5>2, <6>1
        <5>3. CASE ~ (k < at)
          <6>1. k + 1 \in 0 .. length /\ at < k + 1 /\ (k + 1) - 1 = k
            <7>1. length \in Nat /\ at \in 0 .. length /\ k \in 0 .. length - 1
              BY <1>2, <1>3
            <7> QED
              BY <5>3, <7>1
          <6> QED
            BY <1>6, <5>1, <6>1
        <5> QED
          BY <5>2, <5>3
      <4> QED
        BY <4>1, <4>2
    <3> QED
      BY <1>1, <3>1, <3>2
  <2>5. 0 .. length' - 1 = 0 .. length
    BY <1>1, <1>2
  <2> QED
    BY <2>1, <2>2, <2>3, <2>4, <2>5 DEF ArrayInv
<1>12. ListInv'
  BY <1>1, <1>10, <1>11 DEF ListInv
<1>13. InOrder(<<>>) /\ InOrder(<<>>)'
  BY <1>1 DEF InOrder
<1>14. ASSUME NEW i \in 1 .. length + 1
       PROVE  Item(<<>>, i)' = IF i < p THEN Item(<<>>, i)
                               ELSE IF i = p THEN v ELSE Item(<<>>, i - 1)
  <2>1. /\ Item(<<>>, i)' = entries'[i - 1]
        /\ Item(<<>>, i) = entries[i - 1]
        /\ Item(<<>>, i - 1) = entries[(i - 1) - 1]
    BY <1>1 DEF Item
  <2>2. /\ i - 1 \in 0 .. length
        /\ (i < p <=> i - 1 < at) /\ (i = p <=> i - 1 = at)
        /\ (~ (i < p) /\ i # p => at < i - 1)
    BY <1>2, <1>3
  <2> QED
    BY <1>6, <2>1, <2>2
<1> QED
  BY <1>12, <1>13, <1>14 DEF PutsIn

-----------------------------------------------------------------------------
(* Removal.                                                                *)

(* A removal keeps the invariant, and takes out what is at place p.        *)
LEMMA RemoveLinkedStep ==
  ASSUME ListInv, linked, NEW index \in 0 .. length - 1, listRemove(index),
         NEW p, p = index + 1
  PROVE  ListInv' /\ TakesOut(p)
<1>1. PICK order : Chained(order)
  BY DEF ListInv, LinkedInv
<1>2. /\ length \in Nat /\ p \in 1 .. length
      /\ DOMAIN cell \subseteq Cells /\ Null \notin Cells
      /\ \A x \in DOMAIN cell : cell[x] \in ListEntry
  BY ListAssumption DEF ListInv, TypeOK
<1>3. /\ order \in [1 .. length -> DOMAIN cell]
      /\ \A i, j \in 1 .. length : order[i] = order[j] => i = j
      /\ \A x \in DOMAIN cell : \E i \in 1 .. length : order[i] = x
      /\ \A i \in 1 .. length : cell[order[i]].prev = IF i = 1 THEN Null ELSE order[i - 1]
      /\ \A i \in 1 .. length : cell[order[i]].next = IF i = length THEN Null ELSE order[i + 1]
      /\ head = IF length = 0 THEN Null ELSE order[1]
      /\ tail = IF length = 0 THEN Null ELSE order[length]
  BY <1>1 DEF Chained, IsChain
<1>4. PICK e : e = order[p]
  OBVIOUS
<1>5. listGetEntry(index) = e
  BY <1>1, <1>4, GetEntryIs
<1>6. /\ exists /\ UNCHANGED arrayVars
      /\ length' = length - 1 /\ exists' = exists /\ linked' = linked
      /\ owned' = owned \ {cell[e].value}
      /\ cell' = Unlink(e)
      /\ head' = (IF e = head THEN cell[e].next ELSE head)
      /\ tail' = (IF e = tail THEN cell[e].prev ELSE tail)
  BY <1>5 DEF listRemove, listRemoveLinked
<1>7. e \in DOMAIN cell /\ cell[e] \in ListEntry
  BY <1>2, <1>3, <1>4
<1>8. /\ DOMAIN cell' = DOMAIN cell \ {e}
      /\ \A x \in DOMAIN cell' :
           /\ cell'[x].value = cell[x].value /\ cell'[x] \in ListEntry
           /\ cell'[x].next = IF x = cell[e].prev THEN cell[e].next ELSE cell[x].next
           /\ cell'[x].prev = IF x = cell[e].next THEN cell[e].prev ELSE cell[x].prev
  <2>1. DOMAIN cell' = DOMAIN cell \ {e}
    BY <1>6 DEF Unlink
  <2>2. ASSUME NEW x \in DOMAIN cell \ {e}
        PROVE  /\ cell'[x].value = cell[x].value /\ cell'[x] \in ListEntry
               /\ cell'[x].next = IF x = cell[e].prev THEN cell[e].next ELSE cell[x].next
               /\ cell'[x].prev = IF x = cell[e].next THEN cell[e].prev ELSE cell[x].prev
    <3>1. cell[x] \in ListEntry
      BY <1>2
    <3>2. cell'[x] = [cell[x] EXCEPT
                        !.next = IF x = cell[e].prev THEN cell[e].next ELSE @,
                        !.prev = IF x = cell[e].next THEN cell[e].prev ELSE @]
      BY <1>6 DEF Unlink
    <3> QED
      BY <1>7, <3>1, <3>2 DEF ListEntry
  <2> QED
    BY <2>1, <2>2
<1>9. PICK order2 : order2 = Removed(order, length, p)
  OBVIOUS
<1>10. IsChain(order2, length - 1, cell', head', tail')
  <2>1. IsChain(order, length, cell, head, tail) /\ Null \notin DOMAIN cell
    BY <1>1, <1>2 DEF Chained
  <2>2. LeavesAt(order, p, cell, cell')
    BY <1>4, <1>8 DEF LeavesAt
  <2>3. IsChain(Removed(order, length, p), length - 1, cell', head', tail')
    BY <1>2, <1>4, <1>6, <2>1, <2>2, ChainShrinks
  <2> QED
    BY <1>9, <2>3
<1>11. Chained(order2)'
  BY <1>6, <1>10 DEF Chained
<1>12. /\ owned = {cell[x].value : x \in DOMAIN cell}
       /\ \A x, y \in DOMAIN cell : cell[x].value = cell[y].value => x = y
  BY DEF ListInv, LinkedInv
<1>13. TypeOK'
  <2>1. {head', tail'} \subseteq DOMAIN cell' \cup {Null}
    <3>1. order2 \in [1 .. length - 1 -> DOMAIN cell']
      BY <1>10 DEF IsChain
    <3>2. length - 1 # 0 => 1 \in 1 .. length - 1 /\ length - 1 \in 1 .. length - 1
      BY <1>2
    <3>3. /\ head' = IF length - 1 = 0 THEN Null ELSE order2[1]
          /\ tail' = IF length - 1 = 0 THEN Null ELSE order2[length - 1]
      BY <1>10 DEF IsChain
    <3> QED
      BY <3>1, <3>2, <3>3
  <2>2. \A x \in DOMAIN cell' : cell'[x] \in ListEntry
    BY <1>8
  <2>3. DOMAIN cell' \subseteq Cells
    BY <1>2, <1>8
  <2>4. length' \in Nat /\ owned' \subseteq Values
    BY <1>2, <1>6 DEF ListInv, TypeOK
  <2> QED
    BY <1>6, <2>1, <2>2, <2>3, <2>4 DEF ListInv, TypeOK, arrayVars
<1>14. LinkedInv'
  <2>1. \A x, y \in DOMAIN cell' : cell'[x].value = cell'[y].value => x = y
    BY <1>8, <1>12
  <2>2. owned' = {cell'[x].value : x \in DOMAIN cell'}
    BY <1>6, <1>7, <1>8, <1>12
  <2>3. order2 \in [1 .. length' -> DOMAIN cell']
    BY <1>6, <1>10 DEF IsChain
  <2> QED
    BY <1>6, <1>11, <2>1, <2>2, <2>3 DEF LinkedInv
<1>15. ListInv'
  BY <1>6, <1>13, <1>14 DEF ListInv
<1>16. InOrder(order) /\ InOrder(order2)'
  BY <1>1, <1>11 DEF InOrder
<1>17. ASSUME NEW i \in 1 .. length - 1
       PROVE  Item(order2, i)' = IF i < p THEN Item(order, i) ELSE Item(order, i + 1)
  <2>1. /\ Item(order2, i)' = cell'[order2[i]].value
        /\ Item(order, i) = cell[order[i]].value
        /\ Item(order, i + 1) = cell[order[i + 1]].value
    BY <1>6 DEF Item
  <2>2. order2[i] = IF i < p THEN order[i] ELSE order[i + 1]
    BY <1>9 DEF Removed
  <2>3. order2[i] \in DOMAIN cell'
    BY <1>10 DEF IsChain
  <2> QED
    BY <1>8, <2>1, <2>2, <2>3
<1> QED
  BY <1>15, <1>16, <1>17 DEF TakesOut

LEMMA RemoveArrayStep ==
  ASSUME ListInv, ~ linked, NEW index \in 0 .. length - 1, listRemove(index),
         NEW p, p = index + 1
  PROVE  ListInv' /\ TakesOut(p)
<1>1. /\ exists /\ UNCHANGED <<linkedVars, capacity>>
      /\ length' = length - 1 /\ exists' = exists /\ linked' = linked
      /\ owned' = owned \ {entries[index]}
      /\ entries' = [i \in DOMAIN entries |->
           IF index <= i /\ i < length - 1 THEN entries[i + 1] ELSE entries[i]]
  BY DEF listRemove, listRemoveArray
<1>2. /\ length \in Nat /\ capacity \in Nat /\ length <= capacity
      /\ entries \in [0 .. capacity - 1 -> Values \cup {Junk}]
      /\ \A i \in 0 .. length - 1 : entries[i] \in Values
      /\ \A i, j \in 0 .. length - 1 : entries[i] = entries[j] => i = j
      /\ owned = {entries[i] : i \in 0 .. length - 1}
  BY DEF ListInv, TypeOK, ArrayInv
<1>3. /\ 0 .. length' - 1 = 0 .. length - 2
      /\ \A i \in 0 .. length - 2 :
           i \in 0 .. length - 1 /\ i + 1 \in 0 .. length - 1 /\ i \in 0 .. capacity - 1
  <2>1. length' - 1 = length - 2
    BY <1>1, <1>2
  <2> QED
    BY <1>2, <2>1
<1>4. \A i \in 0 .. length - 2 :
        entries'[i] = IF i < index THEN entries[i] ELSE entries[i + 1]
  <2> SUFFICES ASSUME NEW i \in 0 .. length - 2
               PROVE  entries'[i] = IF i < index THEN entries[i] ELSE entries[i + 1]
    OBVIOUS
  <2>1. i \in DOMAIN entries /\ i < length - 1 /\ (index <= i <=> ~ (i < index))
    BY <1>2, <1>3
  <2> QED
    BY <1>1, <2>1
<1>5. entries' \in [0 .. capacity - 1 -> Values \cup {Junk}]
  <2>1. ASSUME NEW i \in 0 .. capacity - 1, index <= i, i < length - 1
        PROVE  i + 1 \in 0 .. capacity - 1
    <3>1. length \in Nat /\ capacity \in Nat /\ length <= capacity
      BY <1>2
    <3> QED
      BY <2>1, <3>1
  <2> QED
    BY <1>1, <1>2, <2>1
<1>6. TypeOK'
  <2>1. length' \in Nat /\ owned' \subseteq Values
    BY <1>1, <1>2 DEF ListInv, TypeOK
  <2> QED
    BY <1>1, <1>5, <2>1 DEF ListInv, TypeOK, linkedVars
<1>7. ArrayInv'
  <2>1. DOMAIN cell' = {} /\ head' = Null /\ tail' = Null /\ length' <= capacity'
    BY <1>1, <1>2 DEF ListInv, ArrayInv, linkedVars
  <2>2. \A i \in 0 .. length - 2 : entries'[i] \in Values
    BY <1>2, <1>3, <1>4
  <2>3. ASSUME NEW i \in 0 .. length - 2, NEW j \in 0 .. length - 2, entries'[i] = entries'[j]
        PROVE  i = j
    <3>1. CASE i < index /\ j < index
      BY <1>2, <1>3, <1>4, <2>3, <3>1
    <3>2. CASE i < index /\ ~ (j < index)
      <4>1. i = j + 1
        BY <1>2, <1>3, <1>4, <2>3, <3>2
      <4> QED
        BY <3>2, <4>1
    <3>3. CASE ~ (i < index) /\ j < index
      <4>1. i + 1 = j
        BY <1>2, <1>3, <1>4, <2>3, <3>3
      <4> QED
        BY <3>3, <4>1
    <3>4. CASE ~ (i < index) /\ ~ (j < index)
      <4>1. i + 1 = j + 1
        BY <1>2, <1>3, <1>4, <2>3, <3>4
      <4> QED
        BY <4>1
    <3> QED
      BY <3>1, <3>2, <3>3, <3>4
  <2>4. owned' = {entries'[i] : i \in 0 .. length - 2}
    <3>1. ASSUME NEW i \in 0 .. length - 2
          PROVE  entries'[i] \in owned \ {entries[index]}
      <4>1. CASE i < index
        <5>1. i # index /\ i \in 0 .. length - 1 /\ entries'[i] = entries[i]
          BY <1>3, <1>4, <4>1
        <5> QED
          BY <1>2, <5>1
      <4>2. CASE ~ (i < index)
        <5>1. i + 1 # index
          BY <4>2
        <5>2. i + 1 \in 0 .. length - 1 /\ entries'[i] = entries[i + 1]
          BY <1>3, <1>4, <4>2
        <5> QED
          BY <1>2, <5>1, <5>2
      <4> QED
        BY <4>1, <4>2
    <3>2. ASSUME NEW x \in owned \ {entries[index]}
          PROVE  \E i \in 0 .. length - 2 : entries'[i] = x
      <4>1. PICK k \in 0 .. length - 1 : x = entries[k]
        BY <1>2
      <4>2. length \in Nat /\ k \in 0 .. length - 1 /\ k # index
        BY <1>2, <4>1
      <4>3. CASE k < index
        <5>1. k \in 0 .. length - 2
          BY <4>2, <4>3
        <5> QED
          BY <1>4, <4>1, <4>3, <5>1
      <4>4. CASE index < k
        <5>1. k - 1 \in 0 .. length - 2 /\ ~ (k - 1 < index) /\ (k - 1) + 1 = k
          BY <4>2, <4>4
        <5> QED
          BY <1>4, <4>1, <5>1
      <4> QED
        BY <4>2, <4>3, <4>4
    <3> QED
      BY <1>1, <3>1, <3>2
  <2> QED
    BY <1>3, <2>1, <2>2, <2>3, <2>4 DEF ArrayInv
<1>8. ListInv'
  BY <1>1, <1>6, <1>7 DEF ListInv
<1>9. InOrder(<<>>) /\ InOrder(<<>>)'
  BY <1>1 DEF InOrder
<1>10. ASSUME NEW i \in 1 .. length - 1
       PROVE  Item(<<>>, i)' = IF i < p THEN Item(<<>>, i) ELSE Item(<<>>, i + 1)
  <2>1. /\ Item(<<>>, i)' = entries'[i - 1]
        /\ Item(<<>>, i) = entries[i - 1]
        /\ Item(<<>>, i + 1) = entries[(i + 1) - 1]
    BY <1>1 DEF Item
  <2>2. i - 1 \in 0 .. length - 2 /\ (i + 1) - 1 = (i - 1) + 1 /\ (i < p <=> i - 1 < index)
    <3>1. length \in Nat
      BY <1>2
    <3> QED
      BY <3>1
  <2> QED
    BY <1>4, <2>1, <2>2
<1> QED
  BY <1>8, <1>9, <1>10 DEF TakesOut

-----------------------------------------------------------------------------
(* Every step keeps the invariant, and is a step of the sequence.          *)

LEMMA InsertStep ==
  ASSUME ListInv, NEW v \in Values, NEW index \in -1 .. length - 1, listInsert(index, v)
  PROVE  ListInv' /\ Sequence!Insert(index, v)
<1> DEFINE p == IF index < 0 THEN length + 1 ELSE index + 1
<1>1. length \in Nat
  BY DEF ListInv, TypeOK
<1>2. /\ p = (IF index < 0 THEN length + 1 ELSE index + 1) /\ p \in 1 .. length + 1
      /\ p = IF index = -1 THEN length + 1 ELSE index + 1
  BY <1>1
<1> HIDE DEF p
<1>3. ListInv' /\ PutsIn(p, v)
  BY <1>2, InsertLinkedStep, InsertArrayStep
<1>4. PICK order, order2 :
        /\ InOrder(order) /\ InOrder(order2)'
        /\ \A i \in 1 .. length + 1 :
             Item(order2, i)' = IF i < p THEN Item(order, i)
                                ELSE IF i = p THEN v ELSE Item(order, i - 1)
  BY <1>3 DEF PutsIn
<1>5. exists /\ exists' = exists /\ v \notin owned /\ length' = length + 1
  BY DEF listInsert
<1>6. /\ Contents = [i \in 1 .. length |-> Item(order, i)]
      /\ Contents \in Seq(Values) /\ Len(Contents) = length /\ ToSet(Contents) = owned
  BY <1>4, IterationVisitsItems DEF IterationIs
<1>7. Contents' = [i \in 1 .. length + 1 |-> Item(order2, i)']
  <2>1. IterationIs'
    BY IterationVisitsItems, PTL
  <2>2. Contents' = [i \in 1 .. length' |-> Item(order2, i)']
    BY <1>3, <1>4, <2>1 DEF IterationIs
  <2> QED
    BY <1>5, <2>2
<1>8. Contents' = Inserted(Contents, length, p, v)
  <2>1. ASSUME NEW i \in 1 .. length + 1
        PROVE  Item(order2, i)' = IF i < p THEN Contents[i]
                                  ELSE IF i = p THEN v ELSE Contents[i - 1]
    <3>1. i < p => i \in 1 .. length
      BY <1>1, <1>2
    <3>2. ~ (i < p) /\ i # p => i - 1 \in 1 .. length
      BY <1>1, <1>2
    <3> QED
      BY <1>4, <1>6, <3>1, <3>2
  <2> QED
    BY <1>7, <2>1 DEF Inserted
<1>9. Contents' = InsertAt(Contents, p, v)
  <2>1. p \in 1 .. Len(Contents) + 1
    BY <1>2, <1>6
  <2>2. InsertAt(Contents, p, v) = Inserted(Contents, Len(Contents), p, v)
    BY <1>6, <2>1, InsertAtIsInserted
  <2> QED
    BY <1>6, <1>8, <2>2
<1>10. p = IF index = -1 THEN Len(Contents) + 1 ELSE index + 1
  BY <1>2, <1>6
<1>11. index \in -1 .. Len(Contents) - 1
  BY <1>6
<1>12. Sequence!Insert(index, v)
  <2>1. Contents' = InsertAt(Contents, IF index = -1 THEN Len(Contents) + 1 ELSE index + 1, v)
    BY <1>9, <1>10
  <2> QED
    BY <1>5, <1>6, <1>11, <2>1
    DEF Sequence!Insert, Sequence!ToSet, Sequence!InsertAt, ToSet, InsertAt
<1> QED
  BY <1>3, <1>12

LEMMA RemoveStep ==
  ASSUME ListInv, NEW index \in 0 .. length - 1, listRemove(index)
  PROVE  ListInv' /\ Sequence!Delete(index)
<1> DEFINE p == index + 1
<1>1. length \in Nat
  BY DEF ListInv, TypeOK
<1>2. p = index + 1 /\ p \in 1 .. length
  BY <1>1
<1> HIDE DEF p
<1>3. ListInv' /\ TakesOut(p)
  BY <1>2, RemoveLinkedStep, RemoveArrayStep
<1>4. PICK order, order2 :
        /\ InOrder(order) /\ InOrder(order2)'
        /\ \A i \in 1 .. length - 1 :
             Item(order2, i)' = IF i < p THEN Item(order, i) ELSE Item(order, i + 1)
  BY <1>3 DEF TakesOut
<1>5. exists /\ exists' = exists /\ length' = length - 1
  BY DEF listRemove
<1>6. /\ Contents = [i \in 1 .. length |-> Item(order, i)]
      /\ Contents \in Seq(Values) /\ Len(Contents) = length
  BY <1>4, IterationVisitsItems DEF IterationIs
<1>7. Contents' = [i \in 1 .. length - 1 |-> Item(order2, i)']
  <2>1. IterationIs'
    BY IterationVisitsItems, PTL
  <2>2. Contents' = [i \in 1 .. length' |-> Item(order2, i)']
    BY <1>3, <1>4, <2>1 DEF IterationIs
  <2> QED
    BY <1>5, <2>2
<1>8. Contents' = Removed(Contents, length, p)
  <2>1. ASSUME NEW i \in 1 .. length - 1
        PROVE  Item(order2, i)' = IF i < p THEN Contents[i] ELSE Contents[i + 1]
    <3>1. i \in 1 .. length /\ i + 1 \in 1 .. length
      BY <1>1
    <3> QED
      BY <1>4, <1>6, <3>1
  <2> QED
    BY <1>7, <2>1 DEF Removed
<1>9. Contents' = RemoveAt(Contents, p)
  <2>1. p \in 1 .. Len(Contents)
    BY <1>2, <1>6
  <2>2. RemoveAt(Contents, p) = Removed(Contents, Len(Contents), p)
    BY <1>6, <2>1, RemoveAtIsRemoved
  <2> QED
    BY <1>6, <1>8, <2>2
<1>10. index \in 0 .. Len(Contents) - 1
  BY <1>6
<1>11. Sequence!Delete(index)
  <2>1. Contents' = RemoveAt(Contents, index + 1)
    BY <1>2, <1>9
  <2> QED
    BY <1>5, <1>10, <2>1 DEF Sequence!Delete, Sequence!RemoveAt, RemoveAt
<1> QED
  BY <1>3, <1>11

(* A list that holds the invariant and has no items is the empty sequence. *)
EmptyIs == ListInv /\ length = 0 => Contents = <<>>

LEMMA EmptyIsEmpty == EmptyIs
<1> SUFFICES ASSUME ListInv, length = 0 PROVE Contents = <<>>
  BY DEF EmptyIs
<1>1. PICK order : InOrder(order)
  BY HasOrder
<1>2. Contents \in Seq(Values) /\ Len(Contents) = 0
  BY <1>1, IterationVisitsItems DEF IterationIs
<1> QED
  BY <1>2, EmptySeq

LEMMA CreateStep ==
  ASSUME ListInv, NEW isLinked \in BOOLEAN, listCreate(isLinked)
  PROVE  ListInv' /\ Sequence!Create
<1>1. /\ ~ exists /\ exists' = TRUE /\ linked' = isLinked
      /\ capacity' = (IF isLinked THEN 0 ELSE InitialCapacity)
      /\ entries' = [i \in 0 .. capacity' - 1 |-> Junk]
      /\ length' = length /\ head' = head /\ tail' = tail /\ cell' = cell /\ owned' = owned
  BY DEF listCreate, linkedVars
<1>2. length = 0 /\ DOMAIN cell = {} /\ head = Null /\ tail = Null /\ ArrayInv
  BY <1>1 DEF ListInv, ArrayInv
<1>3. owned = {} /\ 0 .. length - 1 = {} /\ 1 .. length = {}
  BY <1>2 DEF ArrayInv
<1>4. capacity' \in Nat
  BY <1>1, ListAssumption
<1>5. TypeOK'
  <2>1. entries' \in [0 .. capacity' - 1 -> Values \cup {Junk}]
    BY <1>1
  <2> QED
    BY <1>1, <1>2, <1>4, <2>1 DEF ListInv, TypeOK
<1>6. ASSUME isLinked PROVE ListInv'
  <2>1. IsChain(<<>>, 0, cell, Null, Null)
    <3>1. <<>> \in [1 .. 0 -> DOMAIN cell]
      <4>1. <<>> = [i \in 1 .. 0 |-> Null]
        OBVIOUS
      <4> QED
        BY <4>1
    <3> QED
      BY <1>2, <3>1 DEF IsChain
  <2>2. Chained(<<>>)'
    BY <1>1, <1>2, <2>1 DEF Chained
  <2>3. <<>> \in [1 .. length' -> DOMAIN cell']
    BY <1>1, <1>2, <2>1 DEF IsChain
  <2>4. LinkedInv'
    BY <1>1, <1>2, <1>3, <2>2, <2>3 DEF LinkedInv
  <2> QED
    BY <1>1, <1>5, <1>6, <2>4 DEF ListInv
<1>7. ASSUME ~ isLinked PROVE ListInv'
  <2>1. ArrayInv'
    <3>1. length' = 0 /\ 0 .. length' - 1 = {}
      BY <1>1, <1>2
    <3> QED
      BY <1>1, <1>2, <1>3, <1>4, <3>1 DEF ArrayInv
  <2> QED
    BY <1>1, <1>5, <1>7, <2>1 DEF ListInv
<1>8. ListInv'
  BY <1>6, <1>7
<1>9. Contents = <<>>
  BY <1>2, EmptyIsEmpty DEF EmptyIs
<1>10. Contents' = <<>>
  <2>1. EmptyIs'
    BY EmptyIsEmpty, PTL
  <2>2. length' = 0
    BY <1>1, <1>2
  <2> QED
    BY <1>8, <2>1, <2>2 DEF EmptyIs
<1> QED
  BY <1>1, <1>8, <1>9, <1>10, Zenon DEF Sequence!Create

LEMMA FreeStep ==
  ASSUME ListInv, listFree
  PROVE  ListInv' /\ Sequence!Free
<1>1. /\ exists /\ exists' = FALSE /\ linked' = FALSE /\ length' = 0
      /\ head' = Null /\ tail' = Null /\ capacity' = 0 /\ entries' = [i \in {} |-> Junk]
      /\ owned' = owned \ ToSet(Iteration(FALSE))
      /\ cell' = [e \in DOMAIN cell \ ToSet(IterEntries(FALSE)) |-> cell[e]]
  BY DEF listFree, FreeStruct
<1>2. owned' = {} /\ DOMAIN cell' = {}
  <2>1. /\ owned = ToSet(Iteration(FALSE))
        /\ DOMAIN cell = (IF linked THEN ToSet(IterEntries(FALSE)) ELSE {})
    BY <1>1, InvNothingLeaks DEF NothingLeaks
  <2> QED
    BY <1>1, <2>1
<1>3. 0 .. 0 - 1 = {} /\ 0 \in Nat
  OBVIOUS
<1>4. TypeOK'
  <2>1. entries' \in [0 .. capacity' - 1 -> Values \cup {Junk}]
    BY <1>1, <1>3
  <2> QED
    BY <1>1, <1>2, <1>3, <2>1 DEF TypeOK
<1>5. ArrayInv'
  <2>1. length' <= capacity' /\ 0 .. length' - 1 = {}
    BY <1>1
  <2> QED
    BY <1>1, <1>2, <2>1 DEF ArrayInv
<1>6. ListInv'
  BY <1>1, <1>4, <1>5 DEF ListInv
<1>7. Contents' = <<>>
  BY <1>1 DEF Contents
<1> QED
  BY <1>1, <1>6, <1>7 DEF Sequence!Free

LEMMA InitList ==
  ASSUME Init
  PROVE  ListInv /\ Sequence!Init
<1>1. 0 .. length - 1 = {} /\ 0 .. capacity - 1 = {} /\ length <= capacity /\ length \in Nat /\ capacity \in Nat
  BY DEF Init
<1>2. entries \in [0 .. capacity - 1 -> Values \cup {Junk}]
  BY <1>1 DEF Init
<1>3. DOMAIN cell = {}
  BY DEF Init
<1>4. TypeOK
  BY <1>1, <1>2, <1>3 DEF Init, TypeOK
<1>5. ArrayInv
  BY <1>1, <1>3 DEF Init, ArrayInv
<1> QED
  BY <1>4, <1>5 DEF Init, ListInv, Contents, Sequence!Init

LEMMA NextList ==
  ASSUME ListInv, [Next]_vars
  PROVE  ListInv' /\ [Sequence!Next]_(Sequence!vars)
<1>0. length \in Nat
  BY DEF ListInv, TypeOK
<1>1. \A index \in -1 .. length - 1 : index \in -1 .. Len(Contents) - 1
  <2>1. PICK order : InOrder(order)
    BY HasOrder
  <2>2. Len(Contents) = length
    BY <2>1, IterationVisitsItems DEF IterationIs
  <2> QED
    BY <2>2
<1>2. ASSUME NEW isLinked \in BOOLEAN, listCreate(isLinked)
      PROVE  ListInv' /\ Sequence!Next
  BY <1>2, CreateStep DEF Sequence!Next
<1>3. ASSUME NEW v \in Values, NEW index \in -1 .. length - 1, listInsert(index, v)
      PROVE  ListInv' /\ Sequence!Next
  <2>1. ListInv' /\ Sequence!Insert(index, v)
    BY <1>3, InsertStep
  <2> QED
    BY <1>1, <2>1 DEF Sequence!Next
<1>4. ASSUME NEW v \in Values, listAppend(v) \/ listPrepend(v)
      PROVE  ListInv' /\ Sequence!Next
  <2>1. -1 \in -1 .. length - 1 /\ (length # 0 => 0 \in -1 .. length - 1)
    BY <1>0
  <2>2. \E index \in -1 .. length - 1 : listInsert(index, v)
    BY <1>4, <2>1 DEF listAppend, listPrepend
  <2> QED
    BY <1>3, <2>2
<1>5. ASSUME NEW index \in 0 .. length - 1, listRemove(index)
      PROVE  ListInv' /\ Sequence!Next
  <2>1. ListInv' /\ Sequence!Delete(index)
    BY <1>5, RemoveStep
  <2>2. index \in -1 .. length - 1
    BY <1>0
  <2> QED
    BY <1>1, <2>1, <2>2 DEF Sequence!Next
<1>6. CASE listFree
  BY <1>6, FreeStep DEF Sequence!Next
<1>7. CASE UNCHANGED vars
  <2>1. /\ exists' = exists /\ linked' = linked /\ length' = length
        /\ head' = head /\ tail' = tail /\ cell' = cell
        /\ capacity' = capacity /\ entries' = entries /\ owned' = owned
    BY <1>7 DEF vars, linkedVars, arrayVars
  <2>2. ListInv'
    BY <2>1 DEF ListInv, TypeOK, LinkedInv, ArrayInv, Chained
  <2>3. Contents' = Contents
    BY <2>1 DEF Contents, Iteration, IterEntries, IterEntry, listEntryNext
  <2> QED
    BY <2>1, <2>2, <2>3 DEF Sequence!vars
<1>8. \A index \in 0 .. length - 1 : index \in -1 .. length - 1
  BY <1>0
<1> QED
  BY <1>2, <1>3, <1>4, <1>5, <1>6, <1>7, <1>8 DEF Next

-----------------------------------------------------------------------------
(* The theorems.                                                           *)

(* The cells of a linked list make one chain that is the same from both    *)
(* ends, the slots of an array below its length hold values, no value is   *)
(* in the list twice and the list owns just those.                         *)
THEOREM ListInvariance == Spec => []ListInv
<1>1. Init => ListInv
  BY InitList
<1>2. ListInv /\ [Next]_vars => ListInv'
  BY NextList
<1> QED
  BY <1>1, <1>2, PTL DEF Spec

(* The variables have their types: no operation leaves head, tail or a     *)
(* slot with what is none of the list's.                                   *)
THEOREM ListTypeCorrect == Spec => []TypeOK
<1>1. ListInv => TypeOK
  BY DEF ListInv
<1> QED
  BY <1>1, ListInvariance, PTL

(* A walk from the tail is the reverse of a walk from the head, and the    *)
(* length that is kept beside the chain counts what either visits, after   *)
(* any sequence of listInsert, listRemove and listFree.                    *)
THEOREM BothWaysAgree == Spec => []WalksAgree
<1>1. ListInv => WalksAgree
  BY InvWalksAgree
<1> QED
  BY <1>1, ListInvariance, PTL

(* listGet reaches the value at an index from whichever end is nearer, and *)
(* in an array of any capacity.                                            *)
THEOREM GetReachesIndex == Spec => []GetIsIndexed
<1>1. ListInv => GetIsIndexed
  BY InvGetIsIndexed
<1> QED
  BY <1>1, ListInvariance, PTL

(* A list never loses a value or a cell it has not freed.                  *)
THEOREM ListOwnsWhatItReaches == Spec => []NothingLeaks
<1>1. ListInv => NothingLeaks
  BY InvNothingLeaks
<1> QED
  BY <1>1, ListInvariance, PTL

(* A list of either kind implements the sequence of ListSpec: its initial  *)
(* state is the empty one, and every operation of src/list.c inserts at,   *)
(* or removes from, the place its caller names, or empties it.             *)
THEOREM ListIsSequence == Spec => IsSequence
<1>1. Init => Sequence!Init
  BY InitList
<1>2. ListInv /\ [Next]_vars => [Sequence!Next]_(Sequence!vars)
  BY NextList
<1> QED
  BY <1>1, <1>2, ListInvariance, PTL DEF Spec, IsSequence, Sequence!Spec


=============================================================================
