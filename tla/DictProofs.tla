----------------------------- MODULE DictProofs -----------------------------
(***************************************************************************)
(* Proofs about Dict for any keys, values, number of buckets and hash: the *)
(* size and the ownership are exact, an iteration returns each entry once  *)
(* whatever buckets are empty, and the dictionary is the queues of values  *)
(* of DictSpec.                                                            *)
(***************************************************************************)
EXTENDS Dict, DataProofs

-----------------------------------------------------------------------------
(* The chains, one behind the other.                                       *)

Parts == [i \in 1 .. NumBuckets |-> Chain(i - 1)]


(* The entries of the buckets before b.                                    *)
Upto(b) == FlattenSeq([i \in 1 .. b |-> Chain(i - 1)])

LEMMA ChainsAreSeqs ==
  ASSUME TypeOK
  PROVE  \A b \in Buckets : Chain(b) \in Seq(DictEntry) /\ Len(Chain(b)) \in Nat
<1>1. \A b \in Buckets : Chain(b) \in Seq(DictEntry)
  BY EmptySeq DEF TypeOK, Chain
<1> QED
  BY <1>1, LenProperties

LEMMA BucketNumbers ==
  /\ NumBuckets \in Nat /\ NumBuckets # 0
  /\ \A i \in 1 .. NumBuckets : i - 1 \in Buckets
  /\ \A b \in Buckets : b \in Nat /\ b + 1 \in 1 .. NumBuckets /\ (b + 1) - 1 = b /\ b \in 0 .. NumBuckets
BY DictAssumption DEF Buckets

JoinsUp(f) ==
  /\ Parts \in [1 .. NumBuckets -> Seq(DictEntry)]
  /\ Joins(Parts, NumBuckets, f)
  /\ \A b \in 0 .. NumBuckets : Upto(b) = f[b]

LEMMA BucketsJoin ==
  ASSUME TypeOK
  PROVE  \E f : JoinsUp(f)
<1>1. Parts \in [1 .. NumBuckets -> Seq(DictEntry)]
  BY ChainsAreSeqs, BucketNumbers DEF Parts
<1>2. PICK f : Joins(Parts, NumBuckets, f)
  BY BucketNumbers, JoinsExist
<1>3. ASSUME NEW b \in 0 .. NumBuckets
      PROVE  Upto(b) = f[b]
  <2>1. PICK s : s = [i \in 1 .. b |-> Chain(i - 1)]
    OBVIOUS
  <2>2. b \in Nat /\ \A i \in 1 .. b : i \in 1 .. NumBuckets
    BY BucketNumbers
  <2>3. \A i \in 1 .. b : s[i] = Parts[i]
    BY <2>1, <2>2 DEF Parts
  <2>4. s \in [1 .. b -> Seq(DictEntry)]
    BY <1>1, <2>1, <2>2, <2>3
  <2>5. Joins(s, b, f)
    <3>1. f[0] = <<>> /\ \A i \in 1 .. b : f[i] = f[i - 1] \o Parts[i]
      BY <1>2, <2>2 DEF Joins
    <3>2. ASSUME NEW i \in 1 .. b
          PROVE  f[i] = f[i - 1] \o s[i]
      <4>1. f[i] = f[i - 1] \o Parts[i] /\ s[i] = Parts[i]
        BY <2>3, <3>1
      <4> QED
        BY <4>1, Zenon
    <3> QED
      BY <3>1, <3>2 DEF Joins
  <2>6. FlattenSeq(s) = f[b]
    BY <2>2, <2>4, <2>5, FlattenJoins
  <2> QED
    BY <2>1, <2>6, Zenon DEF Upto
<1>4. JoinsUp(f)
  BY <1>1, <1>2, <1>3 DEF JoinsUp
<1> QED
  BY <1>4

LEMMA UptoTypes ==
  ASSUME TypeOK
  PROVE  /\ Entries = Upto(NumBuckets) /\ Upto(0) = <<>> /\ Len(Upto(0)) = 0
         /\ Entries \in Seq(DictEntry) /\ Len(Entries) \in Nat
         /\ \A b \in 0 .. NumBuckets : Len(Upto(b)) \in Nat /\ Len(Upto(b)) <= Len(Entries)
<1>1. PICK f : JoinsUp(f)
  BY BucketsJoin
<1>2. Entries = Upto(NumBuckets)
  BY DEF Entries, Upto
<1>3. Upto(0) = <<>> /\ Len(Upto(0)) = 0
  BY <1>1, BucketNumbers, EmptySeq DEF JoinsUp, Joins
<1>4. ASSUME NEW b \in 0 .. NumBuckets
      PROVE  /\ Upto(b) \in Seq(DictEntry)
             /\ Len(Upto(b)) \in Nat /\ Len(Upto(b)) <= Len(Upto(NumBuckets))
  <2>1. f[b] \in Seq(DictEntry)
    BY <1>1, BucketNumbers, JoinsAreSeqs DEF JoinsUp
  <2>2. StaysIn(f, b, NumBuckets)
    <3>1. NumBuckets \in b .. NumBuckets
      BY BucketNumbers
    <3> QED
      BY <1>1, <3>1, BucketNumbers, JoinsGrow DEF JoinsUp
  <2>3. Upto(b) = f[b] /\ Upto(NumBuckets) = f[NumBuckets]
    BY <1>1, BucketNumbers DEF JoinsUp
  <2> QED
    BY <2>1, <2>2, <2>3 DEF StaysIn
<1>5. NumBuckets \in 0 .. NumBuckets
  BY BucketNumbers
<1> QED
  BY <1>2, <1>3, <1>4, <1>5

LEMMA UptoNext ==
  ASSUME TypeOK, NEW b \in Buckets
  PROVE  Len(Upto(b + 1)) = Len(Upto(b)) + Len(Chain(b))
<1>1. PICK f : JoinsUp(f)
  BY BucketsJoin
<1>2. PICK i : i = b + 1
  OBVIOUS
<1>3. i \in 1 .. NumBuckets /\ i - 1 = b /\ b \in 0 .. NumBuckets /\ i \in 0 .. NumBuckets
  BY <1>2, BucketNumbers
<1>4. NextJoined(Parts, f, i)
  BY <1>1, <1>3, BucketNumbers, JoinsNext DEF JoinsUp
<1>5. Parts[i] = Chain(b)
  BY <1>3 DEF Parts
<1>6. Upto(i) = f[i] /\ Upto(b) = f[b]
  BY <1>1, <1>3 DEF JoinsUp
<1>7. Len(f[i]) = Len(f[b]) + Len(Parts[i])
  BY <1>3, <1>4 DEF NextJoined
<1> QED
  BY <1>2, <1>5, <1>6, <1>7

(* Where an entry of a chain is among all entries.                         *)
EntryAt(b, i) ==
  /\ Len(Upto(b)) + i \in 1 .. Len(Entries)
  /\ Entries[Len(Upto(b)) + i] = Chain(b)[i]

LEMMA EntryIsAt ==
  ASSUME TypeOK, NEW b \in Buckets, NEW i \in 1 .. Len(Chain(b))
  PROVE  EntryAt(b, i)
<1>1. PICK f : JoinsUp(f)
  BY BucketsJoin
<1>2. PICK k : k = b + 1
  OBVIOUS
<1>3. k \in 1 .. NumBuckets /\ k - 1 = b /\ b \in 0 .. NumBuckets /\ NumBuckets \in 0 .. NumBuckets
  BY <1>2, BucketNumbers
<1>4. Parts[k] = Chain(b)
  BY <1>3 DEF Parts
<1>5. i \in 1 .. Len(Parts[k])
  BY <1>4
<1>6. FoundAt(Parts, NumBuckets, f, k, i)
  BY <1>1, <1>3, <1>5, BucketNumbers, JoinsFind DEF JoinsUp
<1>7. Upto(b) = f[b] /\ Upto(NumBuckets) = f[NumBuckets] /\ Entries = Upto(NumBuckets)
  BY <1>1, <1>3, UptoTypes DEF JoinsUp
<1>8. PICK es : es = Entries
  OBVIOUS
<1>9. Len(f[b]) + i \in 1 .. Len(es) /\ es[Len(f[b]) + i] = Chain(b)[i]
  BY <1>3, <1>4, <1>6, <1>7, <1>8 DEF FoundAt
<1> QED
  BY <1>7, <1>8, <1>9 DEF EntryAt

LEMMA EntryIsFrom ==
  ASSUME TypeOK, NEW p \in 1 .. Len(Entries)
  PROVE  \E b \in Buckets : \E i \in 1 .. Len(Chain(b)) : Entries[p] = Chain(b)[i]
<1>1. PICK f : JoinsUp(f)
  BY BucketsJoin
<1>2. Entries = f[NumBuckets]
  <2>1. NumBuckets \in 0 .. NumBuckets
    BY BucketNumbers
  <2> QED
    BY <1>1, <2>1, UptoTypes DEF JoinsUp
<1>3. p \in 1 .. Len(f[NumBuckets])
  BY <1>2
<1>4. PICK k \in 1 .. NumBuckets : \E i \in 1 .. Len(Parts[k]) :
        p = Len(f[k - 1]) + i /\ f[NumBuckets][p] = Parts[k][i]
  <2>1. ReachedFrom(Parts, NumBuckets, f, p)
    BY <1>1, <1>3, BucketNumbers, JoinsReach DEF JoinsUp
  <2> QED
    BY <2>1 DEF ReachedFrom
<1>5. PICK i \in 1 .. Len(Parts[k]) : f[NumBuckets][p] = Parts[k][i]
  BY <1>4
<1>6. k - 1 \in Buckets /\ Parts[k] = Chain(k - 1)
  BY BucketNumbers DEF Parts
<1>7. PICK b : b = k - 1
  OBVIOUS
<1>8. b \in Buckets /\ Parts[k] = Chain(b)
  BY <1>6, <1>7
<1>9. i \in 1 .. Len(Chain(b)) /\ Entries[p] = Chain(b)[i]
  BY <1>2, <1>5, <1>8
<1> QED
  BY <1>8, <1>9

(* Buckets without entries add nothing.                                    *)
EmptyChains(b, c) == \A d \in Buckets : b <= d /\ d < c => Chain(d) = <<>>

LEMMA SkipChains ==
  ASSUME TypeOK, NEW b \in 0 .. NumBuckets, NEW c \in b .. NumBuckets, EmptyChains(b, c)
  PROVE  Len(Upto(c)) = Len(Upto(b))
<1>1. PICK f : JoinsUp(f)
  BY BucketsJoin
<1>2. c \in 0 .. NumBuckets
  BY BucketNumbers
<1>3. EmptyBetween(Parts, b, c)
  <2> SUFFICES ASSUME NEW i \in b + 1 .. c
               PROVE  Parts[i] = <<>>
    BY DEF EmptyBetween
  <2>1. PICK d : d = i - 1
    OBVIOUS
  <2>2. i \in 1 .. NumBuckets /\ b <= d /\ d < c
    BY <2>1, BucketNumbers
  <2>3. d \in Buckets
    BY <2>1, <2>2, BucketNumbers
  <2>4. Chain(d) = <<>>
    BY <2>2, <2>3 DEF EmptyChains
  <2> QED
    BY <2>1, <2>2, <2>4 DEF Parts
<1>4. Len(f[c]) = Len(f[b])
  BY <1>1, <1>3, BucketNumbers, JoinsSkip DEF JoinsUp
<1> QED
  BY <1>1, <1>2, <1>4 DEF JoinsUp

LEMMA NoEntries == TypeOK /\ EmptyChains(0, NumBuckets) => Len(Entries) = 0
<1> SUFFICES ASSUME TypeOK, EmptyChains(0, NumBuckets) PROVE Len(Entries) = 0
  OBVIOUS
<1>1. 0 \in 0 .. NumBuckets /\ NumBuckets \in 0 .. NumBuckets
  BY BucketNumbers
<1>2. Len(Upto(NumBuckets)) = Len(Upto(0))
  BY <1>1, SkipChains
<1> QED
  BY <1>2, UptoTypes

-----------------------------------------------------------------------------
(* Searching.                                                              *)

(* What getDictEntry finds for dictGet and dictRemove.                     *)
FirstWith(s, k, p) ==
  /\ p \in 1 .. Len(s)
  /\ s[p].key = k
  /\ \A i \in 1 .. p - 1 : s[i].key # k

LEMMA LoopSearch ==
  ASSUME NEW s \in Seq(DictEntry), NEW k
  PROVE  /\ SearchEntry(s, k) >= 0 =>
              FirstWith(s, k, SearchEntry(s, k) + 1)
         /\ ~ (SearchEntry(s, k) >= 0) => \A i \in 1 .. Len(s) : s[i].key # k
<1> DEFINE I == {i \in 1 .. Len(s) : s[i].key = k}
<1>1. I \subseteq Nat /\ 0 \notin I /\ \A i \in 1 .. Len(s) : s[i].key = k <=> i \in I
  BY LenProperties
<1>2. SearchEntry(s, k) = (IF I # {} THEN Min(I) ELSE 0) - 1
  BY DEF SearchEntry, SelectInSeq
<1>3. I # {} => Min(I) \in I /\ \A i \in I : Min(I) <= i
  BY <1>1, MinIsLeast
<1>4. CASE I = {}
  <2>1. SearchEntry(s, k) = 0 - 1
    BY <1>2, <1>4
  <2> QED
    BY <1>1, <1>4, <2>1
<1>5. CASE I # {}
  <2>1. PICK p : p = Min(I)
    OBVIOUS
  <2>2. p \in I /\ \A i \in I : p <= i
    BY <1>3, <1>5, <2>1
  <2>3. p \in Nat /\ p # 0 /\ p \in 1 .. Len(s) /\ s[p].key = k /\ Len(s) \in Nat
    BY <1>1, <2>2, LenProperties
  <2>4. SearchEntry(s, k) = p - 1
    BY <1>2, <1>5, <2>1
  <2>5. SearchEntry(s, k) >= 0 /\ SearchEntry(s, k) + 1 = p
    BY <2>3, <2>4
  <2>6. \A i \in 1 .. p - 1 : i \in 1 .. Len(s) /\ ~ (p <= i)
    BY <2>3
  <2>7. FirstWith(s, k, p)
    BY <1>1, <2>2, <2>3, <2>6 DEF FirstWith
  <2> QED
    BY <2>5, <2>7
<1> QED
  BY <1>4, <1>5

LEMMA EntrySearch ==
  ASSUME NEW s \in Seq(DictEntry), NEW k
  PROVE  /\ getDictEntry(s, k) >= 0 =>
              FirstWith(s, k, getDictEntry(s, k) + 1)
         /\ ~ (getDictEntry(s, k) >= 0) => \A i \in 1 .. Len(s) : s[i].key # k
<1>1. Len(s) \in Nat
  BY LenProperties
<1>2. CASE Len(s) = 0
  <2>1. getDictEntry(s, k) = -1
    BY <1>2 DEF getDictEntry
  <2> QED
    BY <1>2, <2>1
<1>3. CASE Len(s) = 1
  <2>1. getDictEntry(s, k) = IF s[1].key = k THEN 0 ELSE -1
    BY <1>3 DEF getDictEntry
  <2>2. CASE s[1].key = k
    <3>1. getDictEntry(s, k) = 0
      BY <2>1, <2>2
    <3>2. FirstWith(s, k, 1)
      BY <1>3, <2>2 DEF FirstWith
    <3> QED
      BY <3>1, <3>2
  <2>3. CASE s[1].key # k
    <3>1. getDictEntry(s, k) = -1
      BY <2>1, <2>3
    <3>2. \A i \in 1 .. Len(s) : s[i].key # k
      BY <1>3, <2>3
    <3> QED
      BY <3>1, <3>2
  <2> QED
    BY <2>2, <2>3
<1>4. CASE Len(s) # 0 /\ Len(s) # 1
  <2>1. getDictEntry(s, k) = SearchEntry(s, k)
    BY <1>4 DEF getDictEntry
  <2> QED
    BY <2>1, LoopSearch
<1> QED
  BY <1>1, <1>2, <1>3, <1>4

(* The next bucket with a list.                                            *)
IsScan(b, r) ==
  \/ r = -1 /\ \A c \in Buckets : b <= c => buckets[c] = Null
  \/ /\ r \in Buckets /\ b <= r /\ buckets[r] # Null
     /\ \A c \in Buckets : b <= c /\ c < r => buckets[c] = Null

LEMMA ScanFinds ==
  ASSUME NEW b
  PROVE  IsScan(b, dictIterScan(b))
<1> DEFINE lists == {c \in Buckets : c >= b /\ buckets[c] # Null}
<1>1. dictIterScan(b) = IF lists = {} THEN -1 ELSE Min(lists)
  BY DEF dictIterScan
<1>2. lists \subseteq Nat
  BY BucketNumbers
<1>3. lists # {} => Min(lists) \in lists /\ \A c \in lists : Min(lists) <= c
  BY <1>2, MinIsLeast
<1>4. CASE lists = {}
  BY <1>1, <1>4 DEF IsScan
<1>5. CASE lists # {}
  <2>1. PICK r : r = Min(lists)
    OBVIOUS
  <2>2. r \in lists /\ \A c \in lists : r <= c
    BY <1>3, <1>5, <2>1
  <2>3. r \in Buckets /\ r >= b /\ buckets[r] # Null
    BY <2>2
  <2>4. ASSUME NEW c \in Buckets, c >= b, c < r
        PROVE  buckets[c] = Null
    <3>1. c \in Nat /\ r \in Nat /\ ~ (r <= c)
      BY <2>3, <2>4, BucketNumbers
    <3> QED
      BY <2>2, <2>4, <3>1
  <2>5. IsScan(b, r)
    BY <2>3, <2>4 DEF IsScan
  <2> QED
    BY <1>1, <1>5, <2>1, <2>5
<1> QED
  BY <1>4, <1>5

(* The next bucket with an entry, from one with a list on.                 *)
Filled(c) == {d \in Buckets : c <= d /\ Chain(d) # <<>>}

NextFilled(c) == IF c = -1 \/ Filled(c) = {} THEN -1 ELSE Min(Filled(c))

LEMMA NextFilledIs ==
  ASSUME NEW c \in Buckets
  PROVE  \/ NextFilled(c) = -1 /\ \A d \in Buckets : c <= d => Chain(d) = <<>>
         \/ /\ NextFilled(c) \in Buckets /\ c <= NextFilled(c) /\ Chain(NextFilled(c)) # <<>>
            /\ \A d \in Buckets : c <= d /\ d < NextFilled(c) => Chain(d) = <<>>
<1>1. Filled(c) \subseteq Nat /\ c # -1
  BY BucketNumbers DEF Filled
<1>2. CASE Filled(c) = {}
  BY <1>2 DEF NextFilled, Filled
<1>3. CASE Filled(c) # {}
  <2>1. PICK r : r = Min(Filled(c))
    OBVIOUS
  <2>2. r \in Filled(c) /\ \A d \in Filled(c) : r <= d
    BY <1>1, <1>3, <2>1, MinIsLeast
  <2>3. r \in Buckets /\ c <= r /\ Chain(r) # <<>>
    BY <2>2 DEF Filled
  <2>4. ASSUME NEW d \in Buckets, c <= d, d < r
        PROVE  Chain(d) = <<>>
    <3>1. d \in Nat /\ r \in Nat /\ ~ (r <= d)
      BY <2>3, <2>4, BucketNumbers
    <3> QED
      BY <2>2, <2>4, <3>1 DEF Filled
  <2>5. NextFilled(c) = r
    BY <1>1, <1>3, <2>1 DEF NextFilled
  <2> QED
    BY <2>3, <2>4, <2>5
<1> QED
  BY <1>2, <1>3

(* From a bucket without an entry the scan goes on to the next with a list.*)
LEMMA NextFilledSkips ==
  ASSUME NEW c \in Buckets
  PROVE  NextFilled(c) = IF Chain(c) = <<>> THEN NextFilled(dictIterScan(c + 1)) ELSE c
<1>1. \A d \in Buckets : d \in Nat
  BY BucketNumbers
<1>2. CASE Chain(c) # <<>>
  <2>1. c \in Filled(c) /\ \A d \in Filled(c) : c <= d
    BY <1>1, <1>2 DEF Filled
  <2>2. Filled(c) \subseteq Nat /\ Filled(c) # {}
    BY <1>1, <2>1 DEF Filled
  <2>3. PICK r : r = Min(Filled(c))
    OBVIOUS
  <2>4. r \in Filled(c) /\ r <= c
    BY <2>1, <2>2, <2>3, MinIsLeast
  <2>5. r = c
    BY <1>1, <2>1, <2>2, <2>4
  <2> QED
    BY <1>1, <1>2, <2>2, <2>3, <2>5 DEF NextFilled
<1>3. CASE Chain(c) = <<>>
  <2>1. PICK r : r = dictIterScan(c + 1)
    OBVIOUS
  <2>2. IsScan(c + 1, r)
    BY <2>1, ScanFinds
  <2>3. \A d \in Buckets : c <= d <=> d = c \/ c + 1 <= d
    BY <1>1
  <2>4. CASE r = -1
    <3>1. \A d \in Buckets : c <= d => Chain(d) = <<>>
      BY <1>1, <1>3, <2>2, <2>3, <2>4 DEF IsScan, Chain
    <3>2. Filled(c) = {}
      BY <3>1 DEF Filled
    <3> QED
      BY <1>1, <1>3, <2>1, <2>4, <3>2 DEF NextFilled
  <2>5. CASE r # -1
    <3>1. /\ r \in Buckets /\ c + 1 <= r
          /\ \A d \in Buckets : c + 1 <= d /\ d < r => Chain(d) = <<>>
      BY <2>2, <2>5 DEF IsScan, Chain
    <3>2. \A d \in Buckets : Chain(d) # <<>> => (c <= d <=> r <= d)
      BY <1>1, <1>3, <2>3, <3>1
    <3>3. Filled(c) = Filled(r)
      BY <3>2 DEF Filled
    <3> QED
      BY <1>1, <1>3, <2>1, <3>1, <3>3 DEF NextFilled
  <2> QED
    BY <2>4, <2>5
<1> QED
  BY <1>2, <1>3

(* That is what the recursion of dictIterNext comes to.                    *)
LEMMA PassFinds ==
  ASSUME NEW b \in Buckets \cup {-1}
  PROVE  PassEmptyLists(b) = NextFilled(b)
<1> DEFINE F(h) == [c \in Buckets \cup {-1} |->
                      IF c # -1 /\ Chain(c) = <<>> THEN h[dictIterScan(c + 1)] ELSE c]
           rest == CHOOSE h : h = F(h)
           g == [c \in Buckets \cup {-1} |-> NextFilled(c)]
<1>1. PassEmptyLists(b) = rest[b]
  BY DEF PassEmptyLists
<1>2. \A c : dictIterScan(c) \in Buckets \cup {-1}
  BY ScanFinds DEF IsScan
<1>3. g = F(g)
  <2>1. ASSUME NEW c \in Buckets \cup {-1}
        PROVE  g[c] = IF c # -1 /\ Chain(c) = <<>> THEN g[dictIterScan(c + 1)] ELSE c
    <3>1. CASE c = -1
      BY <3>1 DEF NextFilled
    <3>2. CASE c # -1
      BY <1>2, <3>2, NextFilledSkips
    <3> QED
      BY <3>1, <3>2
  <2> QED
    BY <2>1
<1>4. rest = F(rest)
  BY <1>3
<1>5. \A c \in Buckets \cup {-1} :
        rest[c] = IF c # -1 /\ Chain(c) = <<>> THEN rest[dictIterScan(c + 1)] ELSE c
  <2> HIDE DEF rest
  <2> QED
    BY <1>4
<1> HIDE DEF rest
<1>6. rest[-1] = NextFilled(-1)
  BY <1>5 DEF NextFilled
<1> DEFINE S == {m \in Nat : \A c \in Buckets : NumBuckets - c <= m => rest[c] = NextFilled(c)}
<1>7. 0 \in S
  <2>1. \A c \in Buckets : ~ (NumBuckets - c <= 0)
    BY DictAssumption DEF Buckets
  <2> QED
    BY <2>1
<1>8. ASSUME NEW m \in Nat, m \in S
      PROVE  m + 1 \in S
  <2>1. ASSUME NEW c \in Buckets, NumBuckets - c <= m + 1
        PROVE  rest[c] = NextFilled(c)
    <3>1. c # -1
      BY BucketNumbers
    <3>2. CASE Chain(c) # <<>>
      BY <1>5, <3>1, <3>2, NextFilledSkips
    <3>3. CASE Chain(c) = <<>>
      <4>1. PICK d : d = dictIterScan(c + 1)
        OBVIOUS
      <4>2. rest[c] = rest[d] /\ NextFilled(c) = NextFilled(d)
        BY <1>5, <3>1, <3>3, <4>1, NextFilledSkips
      <4>3. d = -1 \/ (d \in Buckets /\ c + 1 <= d)
        BY <4>1, ScanFinds DEF IsScan
      <4>4. rest[d] = NextFilled(d)
        <5>1. CASE d = -1
          BY <1>6, <5>1
        <5>2. CASE d \in Buckets /\ c + 1 <= d
          <6>1. NumBuckets - d <= m
            BY <2>1, <5>2, BucketNumbers
          <6> QED
            BY <1>8, <5>2, <6>1
        <5> QED
          BY <4>3, <5>1, <5>2
      <4> QED
        BY <4>2, <4>4
    <3> QED
      BY <3>2, <3>3
  <2> QED
    BY <2>1
<1>9. NumBuckets \in S
  <2> HIDE DEF S
  <2> QED
    BY <1>7, <1>8, BucketNumbers, NatSetInduction
<1>10. \A c \in Buckets : rest[c] = NextFilled(c)
  <2>1. \A c \in Buckets : NumBuckets - c <= NumBuckets
    BY BucketNumbers
  <2> QED
    BY <1>9, <2>1
<1> QED
  BY <1>1, <1>6, <1>10

-----------------------------------------------------------------------------
(* What every step keeps.                                                  *)

(* Each value is in one entry only, and the entries hold what is owned.    *)
ValuesApart ==
  \A b, c \in Buckets : \A i \in 1 .. Len(Chain(b)), j \in 1 .. Len(Chain(c)) :
    Chain(b)[i].value = Chain(c)[j].value => b = c /\ i = j

InEntry(v) == \E b \in Buckets : \E i \in 1 .. Len(Chain(b)) : Chain(b)[i].value = v

OwnsEntries == \A v \in Values : v \in owned <=> InEntry(v)

(* What has been returned is the buckets before the iterator's and the     *)
(* list up to its position, or everything.                                 *)
IteratesInOrder ==
  /\ bucket # -1 =>
       /\ buckets[bucket] # Null
       /\ position \in 0 .. Len(Chain(bucket))
       /\ Len(visited) = Len(Upto(bucket)) + position
  /\ bucket = -1 => Len(visited) = Len(Entries)
  /\ \A i \in 1 .. Len(visited) : i \in 1 .. Len(Entries) /\ visited[i] = Entries[i].key

DictInv ==
  /\ TypeOK
  /\ size = Len(Entries)
  /\ ValuesApart
  /\ OwnsEntries
  /\ iterating => IteratesInOrder

-----------------------------------------------------------------------------
(* What a change of one chain changes.                                     *)

ChainsSame == \A b \in Buckets : Chain(b)' = Chain(b)
UptoSame   == \A b \in 0 .. NumBuckets : Upto(b)' = Upto(b)

LEMMA SameBuckets ==
  ASSUME UNCHANGED buckets
  PROVE  ChainsSame /\ UptoSame /\ Entries' = Entries
BY DEF ChainsSame, UptoSame, Chain, Upto, Entries

ChainChanges(h, s) ==
  /\ buckets' \in [Buckets -> Seq(DictEntry) \cup {Null}]
  /\ Chain(h)' = s
  /\ \A b \in Buckets : b = h => Chain(b)' = s
  /\ \A b \in Buckets : b # h => Chain(b)' = Chain(b)

LEMMA OneChainChanges ==
  ASSUME TypeOK, NEW h \in Buckets, NEW s \in Seq(DictEntry), buckets' = [buckets EXCEPT ![h] = s]
  PROVE  ChainChanges(h, s)
<1>1. s # Null
  BY DictAssumption DEF DictEntry
<1>2. buckets \in [Buckets -> Seq(DictEntry) \cup {Null}]
  BY DEF TypeOK
<1>3. Chain(h)' = s
  BY <1>1, <1>2 DEF Chain
<1>4. \A b \in Buckets : b = h => Chain(b)' = s
  BY <1>1, <1>2 DEF Chain
<1>5. \A b \in Buckets : b # h => Chain(b)' = Chain(b)
  BY <1>2 DEF Chain
<1> QED
  BY <1>2, <1>3, <1>4, <1>5 DEF ChainChanges

Joinable == \E f : JoinsUp(f)

LEMMA TypesJoin == TypeOK => Joinable
BY BucketsJoin DEF Joinable

LEMMA LengthChanges ==
  ASSUME TypeOK, TypeOK', NEW h \in Buckets, NEW s, ChainChanges(h, s),
         NEW d \in Int, Len(s) = Len(Chain(h)) + d
  PROVE  Len(Entries') = Len(Entries) + d
<1>1. PICK f : JoinsUp(f)
  BY BucketsJoin
<1>3. Joinable'
  BY TypesJoin, PTL
<1>4. PICK g : JoinsUp(g)'
  BY <1>3 DEF Joinable
<1>5. PICK n, k : n = NumBuckets /\ k = h + 1
  OBVIOUS
<1>6. n \in Nat /\ n # 0 /\ k \in 1 .. n /\ k - 1 = h /\ n \in 0 .. NumBuckets
  BY <1>5, BucketNumbers
<1>7. PICK S, T : S = Parts /\ T = Parts'
  OBVIOUS
<1>8. S \in [1 .. n -> Seq(DictEntry)] /\ Joins(S, n, f) /\ Upto(n) = f[n]
  BY <1>1, <1>5, <1>6, <1>7 DEF JoinsUp
<1>9. T \in [1 .. n -> Seq(DictEntry)] /\ Joins(T, n, g) /\ Upto(n)' = g[n]
  <2>1. Parts' \in [1 .. NumBuckets -> Seq(DictEntry)]
    BY <1>4 DEF JoinsUp
  <2>2. Joins(Parts', NumBuckets, g)
    BY <1>4 DEF JoinsUp, Joins
  <2>3. \A b \in 0 .. NumBuckets : Upto(b)' = g[b]
    BY <1>4 DEF JoinsUp
  <2> QED
    BY <1>5, <1>6, <1>7, <2>1, <2>2, <2>3
<1>10. DifferAt(S, T, n, k)
  <2>1. ASSUME NEW i \in 1 .. n, i # k
        PROVE  T[i] = S[i]
    <3>1. PICK b : b = i - 1
      OBVIOUS
    <3>2. b \in Buckets /\ b # h
      BY <1>5, <2>1, <3>1, BucketNumbers
    <3>3. Chain(b)' = Chain(b)
      BY <3>2 DEF ChainChanges
    <3>4. S[i] = Chain(b) /\ T[i] = Chain(b)'
      BY <1>5, <1>7, <3>1 DEF Parts
    <3> QED
      BY <3>3, <3>4
  <2> QED
    BY <2>1 DEF DifferAt
<1>11. Len(T[k]) = Len(S[k]) + d
  <2>1. S[k] = Chain(h) /\ T[k] = Chain(h)'
    BY <1>5, <1>6, <1>7 DEF Parts
  <2>2. Chain(h)' = s
    BY DEF ChainChanges
  <2> QED
    BY <2>1, <2>2
<1>12. Len(g[n]) = Len(f[n]) + d
  <2>1. S \in [1 .. n -> Seq(DictEntry)] /\ T \in [1 .. n -> Seq(DictEntry)]
    BY <1>8, <1>9
  <2>2. Joins(S, n, f) /\ Joins(T, n, g)
    BY <1>8, <1>9
  <2>3. n \in Nat /\ k \in 1 .. n
    BY <1>6
  <2>4. LongerAt(DictEntry, S, T, n, f, g, k, d)
    BY <2>1, <2>2, <2>3, <1>10, <1>11 DEF LongerAt
  <2> QED
    BY <2>3, <2>4, JoinsDiffer
<1>13. Entries = Upto(n) /\ Entries' = Upto(n)'
  BY <1>5 DEF Entries, Upto
<1> QED
  BY <1>8, <1>9, <1>12, <1>13

(* What has been counted and owned shows it.                               *)
LEMMA EntryValues ==
  ASSUME TypeOK
  PROVE  {entry.value : entry \in ToSet(Entries)} = {v \in Values : InEntry(v)}
<1>1. \A b \in Buckets : Chain(b) \in Seq(DictEntry)
  BY ChainsAreSeqs
<1>2. Entries \in Seq(DictEntry)
  BY UptoTypes
<1>3. ASSUME NEW entry \in ToSet(Entries)
      PROVE  entry.value \in Values /\ InEntry(entry.value)
  <2>1. PICK p \in 1 .. Len(Entries) : Entries[p] = entry
    BY <1>2, <1>3 DEF ToSet
  <2>2. PICK b \in Buckets : \E i \in 1 .. Len(Chain(b)) : Entries[p] = Chain(b)[i]
    BY <2>1, EntryIsFrom
  <2>3. PICK i \in 1 .. Len(Chain(b)) : Entries[p] = Chain(b)[i]
    BY <2>2
  <2>4. Chain(b)[i].value = entry.value
    BY <2>1, <2>3
  <2>5. entry \in DictEntry
    BY <1>1, <2>1, <2>3, ElementOfSeq
  <2> QED
    BY <2>4, <2>5 DEF InEntry, DictEntry
<1>4. ASSUME NEW v \in Values, InEntry(v)
      PROVE  \E entry \in ToSet(Entries) : v = entry.value
  <2>1. PICK b \in Buckets : \E i \in 1 .. Len(Chain(b)) : Chain(b)[i].value = v
    BY <1>4 DEF InEntry
  <2>2. PICK i \in 1 .. Len(Chain(b)) : Chain(b)[i].value = v
    BY <2>1
  <2>3. EntryAt(b, i)
    BY EntryIsAt
  <2>4. PICK p : p = Len(Upto(b)) + i
    OBVIOUS
  <2>5. p \in 1 .. Len(Entries) /\ Entries[p] = Chain(b)[i]
    BY <2>3, <2>4 DEF EntryAt
  <2>6. Entries[p] \in ToSet(Entries) /\ Entries[p].value = v
    BY <1>2, <2>2, <2>5 DEF ToSet
  <2> QED
    BY <2>6
<1> QED
  BY <1>3, <1>4

LEMMA ShowsCount ==
  ASSUME DictInv
  PROVE  CountsWhatItOwns
<1>1. owned \subseteq Values
  BY DEF DictInv, TypeOK
<1>2. owned = {v \in Values : InEntry(v)}
  BY <1>1 DEF DictInv, OwnsEntries
<1> QED
  BY <1>2, EntryValues DEF DictInv, CountsWhatItOwns

LEMMA ShowsVisits ==
  ASSUME DictInv
  PROVE  IterVisitsAll
<1> SUFFICES ASSUME iterating PROVE IterVisitsAll
  BY DEF IterVisitsAll
<1> DEFINE keys == [i \in DOMAIN Entries |-> Entries[i].key]
<1>1. /\ visited \in Seq(Keys) /\ Len(visited) \in Nat /\ DOMAIN visited = 1 .. Len(visited)
      /\ Entries \in Seq(DictEntry) /\ Len(Entries) \in Nat /\ DOMAIN Entries = 1 .. Len(Entries)
  BY UptoTypes, LenProperties DEF DictInv, TypeOK
<1>2. \A i \in 1 .. Len(Entries) : Entries[i].key \in Keys
  <2>1. ASSUME NEW i \in 1 .. Len(Entries) PROVE Entries[i] \in DictEntry
    BY <1>1, ElementOfSeq
  <2> QED
    BY <2>1 DEF DictEntry
<1>3. keys \in Seq(Keys) /\ Len(keys) = Len(Entries)
  BY <1>1, <1>2, FunctionIsSeq
<1>4. \A i \in 1 .. Len(visited) : i \in 1 .. Len(Entries) /\ visited[i] = Entries[i].key
  BY DEF DictInv, IteratesInOrder
<1>5. \A i \in 1 .. Len(visited) : keys[i] = visited[i]
  BY <1>1, <1>4
<1>6. Len(visited) <= Len(keys)
  <2>1. CASE Len(visited) = 0
    BY <1>1, <1>3, <2>1
  <2>2. CASE Len(visited) # 0
    <3>1. Len(visited) \in 1 .. Len(visited)
      BY <1>1, <2>2
    <3>2. Len(visited) \in 1 .. Len(Entries)
      BY <1>4, <3>1
    <3> QED
      BY <1>1, <1>3, <3>2
  <2> QED
    BY <2>1, <2>2
<1> HIDE DEF keys
<1>7. IsPrefix(visited, keys)
  <2>1. SubSeq(keys, 1, Len(visited)) = [i \in 1 .. Len(visited) |-> keys[i]]
    BY <1>1, <1>3, <1>6
  <2>2. visited = [i \in 1 .. Len(visited) |-> keys[i]]
    BY <1>1, <1>5
  <2> QED
    BY <1>6, <2>1, <2>2 DEF IsPrefix
<1>8. bucket = -1 => visited = keys
  <2> SUFFICES ASSUME bucket = -1 PROVE visited = keys
    OBVIOUS
  <2>1. Len(visited) = Len(keys)
    BY <1>3 DEF DictInv, IteratesInOrder
  <2> QED
    BY <1>1, <1>3, <1>5, <2>1, SeqEqual
<1> QED
  BY <1>7, <1>8 DEF IterVisitsAll, keys

-----------------------------------------------------------------------------
(* The inductive invariant.                                                *)

Kept == size = Len(Entries) /\ ValuesApart /\ OwnsEntries

LEMMA StartInv ==
  ASSUME Init
  PROVE  DictInv
<1>1. TypeOK
  BY EmptySeq DEF Init, TypeOK
<1>2. \A b \in Buckets : Chain(b) = <<>> /\ Len(Chain(b)) = 0
  BY EmptySeq DEF Init, Chain
<1>3. size = Len(Entries)
  <2>1. EmptyChains(0, NumBuckets)
    BY <1>2 DEF EmptyChains
  <2> QED
    BY <1>1, <2>1, NoEntries DEF Init
<1>4. ValuesApart
  BY <1>2 DEF ValuesApart
<1>5. OwnsEntries
  BY <1>2 DEF OwnsEntries, InEntry, Init
<1> QED
  BY <1>1, <1>3, <1>4, <1>5 DEF DictInv, Init

LEMMA SameDictKeeps ==
  ASSUME DictInv, UNCHANGED <<size, buckets, owned>>
  PROVE  Kept'
<1>1. ChainsSame /\ Entries' = Entries
  BY SameBuckets
<1>2. size' = Len(Entries')
  BY <1>1 DEF DictInv
<1>3. ValuesApart'
  BY <1>1 DEF DictInv, ValuesApart, ChainsSame
<1>4. OwnsEntries'
  BY <1>1 DEF DictInv, OwnsEntries, InEntry, ChainsSame
<1> QED
  BY <1>2, <1>3, <1>4 DEF Kept

LEMMA SameAll ==
  ASSUME DictInv, UNCHANGED <<hash, size, buckets, owned, iterVars>>, exists' \in BOOLEAN
  PROVE  DictInv'
<1>1. Kept'
  BY SameDictKeeps
<1>2. TypeOK'
  BY DEF DictInv, TypeOK, iterVars
<1>3. ASSUME iterating' PROVE IteratesInOrder'
  <2>1. IteratesInOrder /\ bucket \in Buckets \cup {-1} /\ UNCHANGED iterVars
    BY <1>3 DEF DictInv, TypeOK, iterVars
  <2>2. ChainsSame /\ UptoSame /\ Entries' = Entries /\ \A b \in Buckets : b \in 0 .. NumBuckets
    BY SameBuckets, BucketNumbers
  <2>3. bucket # -1 => Chain(bucket)' = Chain(bucket) /\ Upto(bucket)' = Upto(bucket)
    BY <2>1, <2>2 DEF ChainsSame, UptoSame, iterVars
  <2>4. bucket' # -1 => /\ buckets'[bucket'] # Null
                        /\ position' \in 0 .. Len(Chain(bucket)')
                        /\ Len(visited') = Len(Upto(bucket)') + position'
    BY <2>1, <2>3 DEF IteratesInOrder, iterVars
  <2>5. bucket' = -1 => Len(visited') = Len(Entries')
    BY <2>1, <2>2 DEF IteratesInOrder, iterVars
  <2>6. \A i \in 1 .. Len(visited') : i \in 1 .. Len(Entries') /\ visited'[i] = Entries'[i].key
    BY <2>1, <2>2 DEF IteratesInOrder, iterVars
  <2> QED
    BY <2>4, <2>5, <2>6 DEF IteratesInOrder
<1> QED
  BY <1>1, <1>2, <1>3 DEF DictInv, Kept

LEMMA SetKeeps ==
  ASSUME DictInv, NEW k \in Keys, NEW v \in Values, dictSet(k, v)
  PROVE  DictInv'
<1> DEFINE e == [key |-> k, value |-> v]
           h == hash[k]
           s == Append(Chain(h), e)
<1>1. TypeOK /\ h \in Buckets /\ e \in DictEntry /\ e.value = v
  BY DEF DictInv, TypeOK, DictEntry
<1>2. Chain(h) \in Seq(DictEntry) /\ Len(Chain(h)) \in Nat
  BY <1>1, ChainsAreSeqs
<1> HIDE DEF e, h
<1>3. /\ s \in Seq(DictEntry) /\ Len(s) = Len(Chain(h)) + 1 /\ s[Len(Chain(h)) + 1] = e
      /\ \A i \in 1 .. Len(Chain(h)) : s[i] = Chain(h)[i]
  BY <1>1, <1>2, AppendProperties
<1>4. ChainChanges(h, s)
  <2>1. buckets' = [buckets EXCEPT ![h] = s]
    BY DEF dictSet, e, h
  <2> QED
    BY <1>1, <1>3, <2>1, OneChainChanges
<1> HIDE DEF s
<1>5. TypeOK'
  BY <1>1, <1>4 DEF dictSet, TypeOK, iterVars, ChainChanges
<1>6. size' = Len(Entries')
  <2>1. Len(Entries') = Len(Entries) + 1
    BY <1>1, <1>3, <1>4, <1>5, LengthChanges
  <2> QED
    BY <2>1 DEF dictSet, DictInv
<1>7. \A b \in Buckets : \A i \in 1 .. Len(Chain(b)) : Chain(b)[i].value # v
  BY DEF dictSet, DictInv, OwnsEntries, InEntry
<1>8. \A b \in Buckets : b # h => Chain(b)' = Chain(b)
  BY <1>4 DEF ChainChanges
<1>9. Chain(h)' = s /\ \A b \in Buckets : b = h => Chain(b)' = s
  BY <1>4 DEF ChainChanges
<1>10. ASSUME NEW b \in Buckets, NEW i \in 1 .. Len(Chain(b)')
       PROVE  \/ i \in 1 .. Len(Chain(b)) /\ Chain(b)'[i] = Chain(b)[i]
              \/ b = h /\ i = Len(Chain(h)) + 1 /\ Chain(b)'[i] = e
  <2>1. CASE b # h
    BY <1>8, <2>1
  <2>2. CASE b = h
    <3>1. i \in 1 .. Len(s)
      BY <1>9, <2>2
    <3>2. i \in 1 .. Len(Chain(h)) \/ i = Len(Chain(h)) + 1
      BY <1>2, <1>3, <3>1
    <3> QED
      BY <1>3, <1>9, <2>2, <3>2
  <2> QED
    BY <2>1, <2>2
<1>11. ValuesApart'
  <2> SUFFICES ASSUME NEW b \in Buckets, NEW c \in Buckets,
                      NEW i \in 1 .. Len(Chain(b)'), NEW j \in 1 .. Len(Chain(c)'),
                      Chain(b)'[i].value = Chain(c)'[j].value
               PROVE  b = c /\ i = j
    BY DEF ValuesApart
  <2>1. ValuesApart
    BY DEF DictInv
  <2>2. \/ i \in 1 .. Len(Chain(b)) /\ Chain(b)'[i] = Chain(b)[i]
        \/ b = h /\ i = Len(Chain(h)) + 1 /\ Chain(b)'[i] = e
    BY <1>10
  <2>3. \/ j \in 1 .. Len(Chain(c)) /\ Chain(c)'[j] = Chain(c)[j]
        \/ c = h /\ j = Len(Chain(h)) + 1 /\ Chain(c)'[j] = e
    BY <1>10
  <2>4. PICK x, y : x = Chain(b)'[i] /\ y = Chain(c)'[j]
    OBVIOUS
  <2>5. x.value = y.value
    BY <2>4
  <2>6. CASE i \in 1 .. Len(Chain(b)) /\ x = Chain(b)[i]
    <3>1. x.value # v
      BY <1>7, <2>6
    <3>2. y # e
      BY <1>1, <2>5, <3>1
    <3>3. j \in 1 .. Len(Chain(c)) /\ y = Chain(c)[j]
      BY <2>3, <2>4, <3>2
    <3> QED
      BY <2>1, <2>5, <2>6, <3>3 DEF ValuesApart
  <2>7. CASE b = h /\ i = Len(Chain(h)) + 1 /\ x = e
    <3>1. y.value = v
      BY <1>1, <2>5, <2>7
    <3>2. ~ (j \in 1 .. Len(Chain(c)) /\ y = Chain(c)[j])
      BY <1>7, <3>1
    <3> QED
      BY <2>3, <2>4, <2>7, <3>2
  <2> QED
    BY <2>2, <2>4, <2>6, <2>7
<1>12. OwnsEntries'
  <2> SUFFICES ASSUME NEW w \in Values
               PROVE  w \in owned' <=> InEntry(w)'
    BY DEF OwnsEntries
  <2>1. InEntry(v)'
    <3>1. PICK b, i : b = h /\ i = Len(Chain(h)) + 1
      OBVIOUS
    <3>2. i \in 1 .. Len(s) /\ s[i] = e
      BY <1>2, <1>3, <3>1
    <3>3. b \in Buckets /\ i \in 1 .. Len(Chain(b)') /\ Chain(b)'[i].value = v
      BY <1>1, <1>9, <3>1, <3>2
    <3> QED
      BY <3>3 DEF InEntry
  <2>2. ASSUME InEntry(w) PROVE InEntry(w)'
    <3>1. PICK b \in Buckets : \E i \in 1 .. Len(Chain(b)) : Chain(b)[i].value = w
      BY <2>2 DEF InEntry
    <3>2. PICK i \in 1 .. Len(Chain(b)) : Chain(b)[i].value = w
      BY <3>1
    <3>3. i \in 1 .. Len(Chain(b)') /\ Chain(b)'[i] = Chain(b)[i]
      <4>1. CASE b # h
        BY <1>8, <4>1
      <4>2. CASE b = h
        <5>1. i \in 1 .. Len(s) /\ s[i] = Chain(h)[i]
          BY <1>2, <1>3, <4>2
        <5> QED
          BY <1>9, <4>2, <5>1
      <4> QED
        BY <4>1, <4>2
    <3>4. Chain(b)'[i].value = w
      BY <3>2, <3>3
    <3> QED
      BY <3>3, <3>4 DEF InEntry
  <2>3. ASSUME InEntry(w)' PROVE w = v \/ InEntry(w)
    <3>1. PICK b \in Buckets : \E i \in 1 .. Len(Chain(b)') : Chain(b)'[i].value = w
      BY <2>3 DEF InEntry
    <3>2. PICK i \in 1 .. Len(Chain(b)') : Chain(b)'[i].value = w
      BY <3>1
    <3>3. \/ i \in 1 .. Len(Chain(b)) /\ Chain(b)'[i] = Chain(b)[i]
          \/ Chain(b)'[i] = e
      BY <1>10
    <3> QED
      BY <1>1, <3>2, <3>3 DEF InEntry
  <2>4. w \in owned' <=> w \in owned \/ w = v
    BY DEF dictSet
  <2>5. w \in owned <=> InEntry(w)
    BY DEF DictInv, OwnsEntries
  <2> QED
    BY <2>1, <2>2, <2>3, <2>4, <2>5
<1>13. ~ iterating'
  BY DEF dictSet, iterVars
<1> QED
  BY <1>5, <1>6, <1>11, <1>12, <1>13 DEF DictInv

(* A chain without its p-th entry.                                         *)
WithoutAt(s, r, p) ==
  /\ r \in Seq(DictEntry) /\ Len(r) = Len(s) - 1
  /\ \A i \in 1 .. Len(r) : r[i] = s[IF p <= i THEN i + 1 ELSE i]

LEMMA RemovedWithout ==
  ASSUME NEW s \in Seq(DictEntry), NEW p \in 1 .. Len(s)
  PROVE  WithoutAt(s, RemoveAt(s, p), p)
<1>1. PICK r : r = RemoveAt(s, p)
  OBVIOUS
<1>2. Len(s) \in Nat
  BY LenProperties
<1>3. /\ r \in Seq(DictEntry) /\ Len(r) = Len(s) - 1
      /\ \A i \in 1 .. Len(s) - 1 : r[i] = s[IF i < p THEN i ELSE i + 1]
  BY <1>1, RemoveAtParts
<1>4. ASSUME NEW i \in 1 .. Len(s) - 1
      PROVE  r[i] = s[IF p <= i THEN i + 1 ELSE i]
  <2>1. i < p <=> ~ (p <= i)
    BY <1>2
  <2> QED
    BY <1>3, <2>1
<1> QED
  BY <1>1, <1>3, <1>4 DEF WithoutAt

LEMMA RemoveKeeps ==
  ASSUME DictInv, NEW k \in Keys, dictRemove(k)
  PROVE  DictInv'
<1>1. PICK h, s, p, v : /\ h = hash[k] /\ s = Chain(h)
                        /\ p = getDictEntry(s, k) + 1 /\ v = s[p].value
  OBVIOUS
<1>2. TypeOK /\ h \in Buckets /\ s \in Seq(DictEntry) /\ Len(s) \in Nat
  BY <1>1, ChainsAreSeqs DEF DictInv, TypeOK
<1>3. getDictEntry(s, k) >= 0
  BY <1>1 DEF dictRemove, HasKey
<1>4. p \in 1 .. Len(s)
  <2>1. FirstWith(s, k, getDictEntry(s, k) + 1)
    BY <1>2, <1>3, EntrySearch
  <2> QED
    BY <1>1, <2>1 DEF FirstWith
<1>5. dictGet(k) = v
  BY <1>1, <1>3 DEF dictGet, HasKey
<1>6. PICK r : r = RemoveAt(s, p)
  OBVIOUS
<1> DEFINE Was(b, i) == IF b = h /\ p <= i THEN i + 1 ELSE i
<1>7. /\ r \in Seq(DictEntry) /\ Len(r) = Len(s) - 1
      /\ \A i \in 1 .. Len(r) : r[i] = s[IF p <= i THEN i + 1 ELSE i]
  <2>1. WithoutAt(s, r, p)
    BY <1>2, <1>4, <1>6, RemovedWithout
  <2> QED
    BY <2>1 DEF WithoutAt
<1>8. ChainChanges(h, r)
  <2>1. buckets[h] = s
    <3>1. s # <<>>
      BY <1>2, <1>4, EmptySeq
    <3> QED
      BY <1>1, <3>1 DEF Chain
  <2>2. buckets' = [buckets EXCEPT ![h] = r]
    BY <1>1, <1>6, <2>1 DEF dictRemove
  <2> QED
    BY <1>2, <1>7, <2>2, OneChainChanges
<1>9. TypeOK'
  <2>1. size - 1 \in Nat
    <3>1. Len(s) # 0
      BY <1>2, <1>4
    <3>2. Len(Upto(h + 1)) = Len(Upto(h)) + Len(s)
      BY <1>1, <1>2, UptoNext
    <3>3. h \in 0 .. NumBuckets /\ h + 1 \in 0 .. NumBuckets
      BY <1>2, BucketNumbers
    <3>4. Len(Upto(h)) \in Nat /\ Len(Upto(h + 1)) <= Len(Entries) /\ Len(Upto(h + 1)) \in Nat
      BY <1>2, <3>3, UptoTypes
    <3>5. PICK a, c, n : a = Len(Upto(h)) /\ c = Len(Upto(h + 1)) /\ n = Len(Entries)
      OBVIOUS
    <3>6. n \in Nat /\ size = n
      BY <1>2, <3>5, UptoTypes DEF DictInv
    <3> QED
      BY <1>2, <3>1, <3>2, <3>4, <3>5, <3>6
  <2> QED
    BY <1>2, <1>8, <2>1 DEF dictRemove, TypeOK, iterVars, ChainChanges
<1>10. size' = Len(Entries')
  <2>1. PICK d \in Int : d = -1
    OBVIOUS
  <2>2. Len(r) = Len(Chain(h)) + d
    BY <1>1, <1>2, <1>7, <2>1
  <2>3. Len(Entries') = Len(Entries) + d
    BY <1>2, <1>8, <1>9, <2>2, LengthChanges
  <2>4. Len(Entries) \in Nat
    BY <1>2, UptoTypes
  <2> QED
    BY <2>1, <2>3, <2>4 DEF dictRemove, DictInv
<1>11. /\ \A b \in Buckets : b # h => Chain(b)' = Chain(b)
       /\ \A b \in Buckets : b = h => Chain(b)' = r
  BY <1>8 DEF ChainChanges
<1>12. ASSUME NEW b \in Buckets, NEW i \in 1 .. Len(Chain(b)')
       PROVE  /\ Was(b, i) \in 1 .. Len(Chain(b)) /\ Chain(b)'[i] = Chain(b)[Was(b, i)]
              /\ ~ (b = h /\ Was(b, i) = p)
  <2>1. CASE b # h
    BY <1>11, <2>1
  <2>2. CASE b = h
    <3>1. i \in 1 .. Len(r) /\ Chain(b)'[i] = r[i] /\ Chain(b) = s
      BY <1>1, <1>11, <2>2
    <3>2. r[i] = s[Was(b, i)]
      BY <1>7, <2>2, <3>1
    <3>3. Was(b, i) \in 1 .. Len(s) /\ Was(b, i) # p
      BY <1>2, <1>4, <1>7, <2>2, <3>1
    <3> QED
      BY <3>1, <3>2, <3>3
  <2> QED
    BY <2>1, <2>2
<1>13. ValuesApart'
  <2> SUFFICES ASSUME NEW b \in Buckets, NEW c \in Buckets,
                      NEW i \in 1 .. Len(Chain(b)'), NEW j \in 1 .. Len(Chain(c)'),
                      Chain(b)'[i].value = Chain(c)'[j].value
               PROVE  b = c /\ i = j
    BY DEF ValuesApart
  <2>1. PICK x, y : x = Was(b, i) /\ y = Was(c, j)
    OBVIOUS
  <2>2. /\ x \in 1 .. Len(Chain(b)) /\ Chain(b)'[i] = Chain(b)[x]
        /\ y \in 1 .. Len(Chain(c)) /\ Chain(c)'[j] = Chain(c)[y]
    BY <1>12, <2>1
  <2>3. Chain(b)[x].value = Chain(c)[y].value
    BY <2>2
  <2>4. b = c /\ x = y
    BY <2>2, <2>3 DEF DictInv, ValuesApart
  <2>5. i \in Int /\ j \in Int /\ p \in Int
    BY <1>4
  <2> QED
    BY <2>1, <2>4, <2>5
<1>14. OwnsEntries'
  <2> SUFFICES ASSUME NEW w \in Values
               PROVE  w \in owned' <=> InEntry(w)'
    BY DEF OwnsEntries
  <2>1. ASSUME InEntry(w), w # v PROVE InEntry(w)'
    <3>1. PICK b \in Buckets : \E j \in 1 .. Len(Chain(b)) : Chain(b)[j].value = w
      BY <2>1 DEF InEntry
    <3>2. PICK j \in 1 .. Len(Chain(b)) : Chain(b)[j].value = w
      BY <3>1
    <3>3. PICK i \in 1 .. Len(Chain(b)') : Chain(b)'[i] = Chain(b)[j]
      <4>1. CASE b # h
        BY <1>11, <4>1
      <4>2. CASE b = h
        <5>1. j # p /\ Chain(b) = s
          BY <1>1, <2>1, <3>2, <4>2
        <5>2. PICK i : i = IF j < p THEN j ELSE j - 1
          OBVIOUS
        <5>3. i \in 1 .. Len(r) /\ j = IF p <= i THEN i + 1 ELSE i
          BY <1>2, <1>4, <1>7, <5>1, <5>2
        <5>4. r[i] = s[j]
          BY <1>7, <5>3
        <5> QED
          BY <1>11, <4>2, <5>1, <5>3, <5>4
      <4> QED
        BY <4>1, <4>2
    <3>4. Chain(b)'[i].value = w
      BY <3>2, <3>3
    <3> QED
      BY <3>4 DEF InEntry
  <2>2. ASSUME InEntry(w)' PROVE InEntry(w) /\ w # v
    <3>1. PICK b \in Buckets : \E i \in 1 .. Len(Chain(b)') : Chain(b)'[i].value = w
      BY <2>2 DEF InEntry
    <3>2. PICK i \in 1 .. Len(Chain(b)') : Chain(b)'[i].value = w
      BY <3>1
    <3>3. PICK x : x = Was(b, i)
      OBVIOUS
    <3>4. x \in 1 .. Len(Chain(b)) /\ Chain(b)[x].value = w /\ ~ (b = h /\ x = p)
      BY <1>12, <3>2, <3>3
    <3>5. ~ (Chain(b)[x].value = Chain(h)[p].value)
      BY <1>1, <1>2, <1>4, <3>4 DEF DictInv, ValuesApart
    <3> QED
      BY <1>1, <3>4, <3>5 DEF InEntry
  <2>3. w \in owned' <=> w \in owned /\ w # v
    BY <1>5 DEF dictRemove
  <2>4. w \in owned <=> InEntry(w)
    BY DEF DictInv, OwnsEntries
  <2> QED
    BY <2>1, <2>2, <2>3, <2>4
<1>15. ~ iterating'
  BY DEF dictRemove, iterVars
<1> QED
  BY <1>9, <1>10, <1>13, <1>14, <1>15 DEF DictInv

LEMMA FreeKeeps ==
  ASSUME DictInv, dictFree
  PROVE  DictInv'
<1>1. TypeOK'
  BY DEF DictInv, dictFree, TypeOK, iterVars
<1>2. \A b \in Buckets : Chain(b)' = <<>> /\ Len(Chain(b)') = 0
  BY EmptySeq DEF dictFree, Chain
<1>3. size' = Len(Entries')
  <2>1. (TypeOK /\ EmptyChains(0, NumBuckets))'
    BY <1>1, <1>2 DEF EmptyChains
  <2>2. (Len(Entries) = 0)'
    BY <2>1, NoEntries, PTL
  <2> QED
    BY <2>2 DEF dictFree
<1>4. ValuesApart'
  BY <1>2 DEF ValuesApart
<1>5. OwnsEntries'
  <2>1. owned' = {}
    <3>1. owned' = owned \ {entry.value : entry \in UNION {ToSet(Chain(b)) : b \in Buckets}}
      BY DEF dictFree
    <3>2. ASSUME NEW v \in owned
          PROVE  v \in {entry.value : entry \in UNION {ToSet(Chain(b)) : b \in Buckets}}
      <4>1. InEntry(v)
        BY <3>2 DEF DictInv, TypeOK, OwnsEntries
      <4>2. PICK b \in Buckets : \E i \in 1 .. Len(Chain(b)) : Chain(b)[i].value = v
        BY <4>1 DEF InEntry
      <4>3. PICK i \in 1 .. Len(Chain(b)) : Chain(b)[i].value = v
        BY <4>2
      <4>4. Chain(b) \in Seq(DictEntry)
        BY ChainsAreSeqs DEF DictInv
      <4>5. Chain(b)[i] \in ToSet(Chain(b))
        BY <4>3, <4>4, LenProperties DEF ToSet
      <4>6. Chain(b)[i] \in UNION {ToSet(Chain(c)) : c \in Buckets}
        BY <4>5
      <4> QED
        BY <4>3, <4>6
    <3> QED
      BY <3>1, <3>2
  <2> QED
    BY <1>2, <2>1 DEF OwnsEntries, InEntry
<1>6. ~ iterating'
  BY DEF dictFree, iterVars
<1> QED
  BY <1>1, <1>3, <1>4, <1>5, <1>6 DEF DictInv

-----------------------------------------------------------------------------
(* Iterations.                                                             *)

(* What dictIterScan and the passing of empty lists come to, from b on.    *)
IsNext(b, d) ==
  \/ d = -1 /\ EmptyChains(b, NumBuckets)
  \/ d \in Buckets /\ b <= d /\ Chain(d) # <<>> /\ EmptyChains(b, d)

LEMMA NextBucket ==
  ASSUME NEW b \in 0 .. NumBuckets
  PROVE  IsNext(b, PassEmptyLists(dictIterScan(b)))
<1>1. PICK c, d : c = dictIterScan(b) /\ d = NextFilled(c)
  OBVIOUS
<1>2. IsScan(b, c)
  BY <1>1, ScanFinds
<1>3. c \in Buckets \cup {-1}
  BY <1>2 DEF IsScan
<1>4. PassEmptyLists(dictIterScan(b)) = d
  BY <1>1, <1>3, PassFinds
<1>5. b \in Nat /\ \A e \in Buckets : e \in Nat /\ e < NumBuckets
  BY BucketNumbers DEF Buckets
<1>6. CASE c = -1
  <2>1. EmptyChains(b, NumBuckets)
    BY <1>2, <1>5, <1>6 DEF IsScan, EmptyChains, Chain
  <2>2. d = -1
    BY <1>1, <1>6 DEF NextFilled
  <2> QED
    BY <1>4, <2>1, <2>2 DEF IsNext
<1>7. CASE c # -1
  <2>1. c \in Buckets /\ b <= c /\ \A e \in Buckets : b <= e /\ e < c => Chain(e) = <<>>
    BY <1>2, <1>7 DEF IsScan, Chain
  <2>2. \/ d = -1 /\ \A e \in Buckets : c <= e => Chain(e) = <<>>
        \/ /\ d \in Buckets /\ c <= d /\ Chain(d) # <<>>
           /\ \A e \in Buckets : c <= e /\ e < d => Chain(e) = <<>>
    BY <1>1, <2>1, NextFilledIs
  <2>3. CASE d = -1 /\ \A e \in Buckets : c <= e => Chain(e) = <<>>
    <3>1. EmptyChains(b, NumBuckets)
      BY <1>5, <2>1, <2>3 DEF EmptyChains
    <3> QED
      BY <1>4, <2>3, <3>1 DEF IsNext
  <2>4. CASE /\ d \in Buckets /\ c <= d /\ Chain(d) # <<>>
             /\ \A e \in Buckets : c <= e /\ e < d => Chain(e) = <<>>
    <3>1. EmptyChains(b, d) /\ b <= d
      BY <1>5, <2>1, <2>4 DEF EmptyChains
    <3> QED
      BY <1>4, <2>4, <3>1 DEF IsNext
  <2> QED
    BY <2>2, <2>3, <2>4
<1> QED
  BY <1>6, <1>7

LEMMA IterKeeps ==
  ASSUME DictInv, dictIter
  PROVE  DictInv'
<1>1. PICK c : c = dictIterScan(0)
  OBVIOUS
<1>2. IsScan(0, c) /\ bucket' = c /\ position' = StartOf(c) /\ visited' = <<>>
  BY <1>1, ScanFinds DEF dictIter
<1>3. c \in Buckets \cup {-1} /\ StartOf(c) \in Nat \cup {-1}
  BY <1>2 DEF IsScan, StartOf
<1>4. TypeOK'
  BY <1>2, <1>3, EmptySeq DEF DictInv, TypeOK, dictIter, dictVars
<1>5. Kept'
  BY SameDictKeeps DEF dictIter, dictVars
<1>6. ChainsSame /\ UptoSame /\ Entries' = Entries /\ UNCHANGED buckets
  BY SameBuckets DEF dictIter, dictVars
<1>7. Len(visited') = 0
  BY <1>2, EmptySeq
<1>8. 0 \in 0 .. NumBuckets /\ NumBuckets \in 0 .. NumBuckets /\ NumBuckets \in Nat
  BY BucketNumbers
<1>9. TypeOK /\ Len(Upto(0)) = 0 /\ Entries = Upto(NumBuckets)
  BY UptoTypes DEF DictInv
<1>10. CASE c = -1
  <2>1. EmptyChains(0, NumBuckets)
    BY <1>2, <1>10, BucketNumbers DEF IsScan, EmptyChains, Chain
  <2>2. Len(Entries) = 0
    BY <1>8, <1>9, <2>1, SkipChains
  <2>3. IteratesInOrder'
    BY <1>2, <1>6, <1>7, <1>10, <2>2 DEF IteratesInOrder
  <2> QED
    BY <1>4, <1>5, <2>3 DEF DictInv, Kept
<1>11. CASE c # -1
  <2>1. c \in Buckets /\ buckets[c] # Null /\ \A e \in Buckets : 0 <= e /\ e < c => buckets[e] = Null
    BY <1>2, <1>11 DEF IsScan
  <2>2. c \in 0 .. NumBuckets
    BY <2>1, BucketNumbers
  <2>3. EmptyChains(0, c)
    BY <2>1 DEF EmptyChains, Chain
  <2>4. Len(Upto(c)) = 0
    BY <1>8, <1>9, <2>2, <2>3, SkipChains
  <2>5. Len(Chain(c)) \in Nat
    BY <1>9, <2>1, ChainsAreSeqs
  <2>6. Chain(bucket)' = Chain(c) /\ Upto(bucket)' = Upto(c)
    BY <1>2, <1>6 DEF Chain, Upto
  <2>7. IteratesInOrder'
    BY <1>2, <1>6, <1>7, <1>11, <2>1, <2>4, <2>5, <2>6 DEF IteratesInOrder, StartOf
  <2> QED
    BY <1>4, <1>5, <2>7 DEF DictInv, Kept
<1> QED
  BY <1>10, <1>11

(* One more key has been returned: the i-th of bucket d, which is the next *)
(* of all entries.                                                         *)
LEMMA VisitsNext ==
  ASSUME DictInv, dictIterNext, IteratesInOrder,
         NEW d \in Buckets, NEW i \in 1 .. Len(Chain(d)),
         Len(visited) + 1 = Len(Upto(d)) + i,
         bucket' = d, position' = i, visited' = Append(visited, Chain(d)[i].key)
  PROVE  DictInv'
<1>1. TypeOK
  BY DEF DictInv
<1>2. UNCHANGED <<hash, exists, size, buckets, owned, iterating>> /\ iterating
  BY DEF dictIterNext, dictVars
<1>3. Chain(d) \in Seq(DictEntry) /\ Len(Chain(d)) \in Nat
  BY <1>1, ChainsAreSeqs
<1>4. PICK k : k = Chain(d)[i].key
  OBVIOUS
<1>5. k \in Keys
  <2>1. Chain(d)[i] \in DictEntry
    BY <1>3, ElementOfSeq
  <2> QED
    BY <1>4, <2>1 DEF DictEntry
<1>6. visited \in Seq(Keys) /\ Len(visited) \in Nat
  BY <1>1, LenProperties DEF TypeOK
<1>7. /\ visited' \in Seq(Keys) /\ Len(visited') = Len(visited) + 1
      /\ visited'[Len(visited) + 1] = k
      /\ \A j \in 1 .. Len(visited) : visited'[j] = visited[j]
  BY <1>4, <1>5, <1>6, AppendProperties
<1>8. TypeOK'
  BY <1>1, <1>2, <1>7 DEF TypeOK
<1>9. Kept'
  BY <1>2, SameDictKeeps
<1>10. ChainsSame /\ UptoSame /\ Entries' = Entries
  BY <1>2, SameBuckets
<1>11. Chain(bucket)' = Chain(d) /\ Upto(bucket)' = Upto(d)
  BY <1>2 DEF Chain, Upto
<1>12. EntryAt(d, i)
  BY <1>1, EntryIsAt
<1>13. PICK n : n = Len(visited) + 1
  OBVIOUS
<1>14. n \in 1 .. Len(Entries) /\ Entries[n] = Chain(d)[i]
  <2>1. n = Len(Upto(d)) + i
    BY <1>13
  <2> QED
    BY <1>12, <2>1 DEF EntryAt
<1>15. \A j \in 1 .. Len(visited') : j \in 1 .. Len(Entries') /\ visited'[j] = Entries'[j].key
  <2> SUFFICES ASSUME NEW j \in 1 .. Len(visited')
               PROVE  j \in 1 .. Len(Entries) /\ visited'[j] = Entries[j].key
    BY <1>10
  <2>1. j \in 1 .. Len(visited) \/ j = n
    BY <1>6, <1>7, <1>13
  <2>2. CASE j \in 1 .. Len(visited)
    BY <1>7, <2>2 DEF IteratesInOrder
  <2>3. CASE j = n
    BY <1>4, <1>7, <1>13, <1>14, <2>3
  <2> QED
    BY <2>1, <2>2, <2>3
<1>16. d # -1 /\ buckets[d] # Null
  <2>1. Chain(d) # <<>>
    BY <1>3, EmptySeq
  <2> QED
    BY <2>1, BucketNumbers DEF Chain
<1>17. Len(visited') = Len(Upto(bucket)') + position'
  BY <1>7, <1>11
<1>18. position' \in 0 .. Len(Chain(bucket)')
  BY <1>3, <1>11
<1>19. IteratesInOrder'
  BY <1>2, <1>15, <1>16, <1>17, <1>18 DEF IteratesInOrder
<1> QED
  BY <1>8, <1>9, <1>19 DEF DictInv, Kept

LEMMA IterNextKeeps ==
  ASSUME DictInv, dictIterNext
  PROVE  DictInv'
<1>1. TypeOK /\ IteratesInOrder /\ bucket \in Buckets
  BY DEF DictInv, dictIterNext, TypeOK
<1>2. PICK c : c = bucket
  OBVIOUS
<1>3. /\ c \in Buckets /\ c # -1 /\ position \in 0 .. Len(Chain(c))
      /\ Len(visited) = Len(Upto(c)) + position
  BY <1>1, <1>2, BucketNumbers DEF IteratesInOrder
<1>4. Len(Chain(c)) \in Nat /\ Len(Upto(c)) \in Nat /\ c + 1 \in 0 .. NumBuckets
  <2>1. c \in 0 .. NumBuckets /\ c + 1 \in 0 .. NumBuckets
    BY <1>3, BucketNumbers
  <2> QED
    BY <1>1, <1>3, <2>1, ChainsAreSeqs, UptoTypes
<1>5. CASE position < Len(Chain(c))
  <2>1. PICK i : i = position + 1
    OBVIOUS
  <2>2. i \in 1 .. Len(Chain(c)) /\ Len(visited) + 1 = Len(Upto(c)) + i
    BY <1>3, <1>4, <1>5, <2>1
  <2>3. bucket' = c /\ position' = i /\ visited' = Append(visited, Chain(c)[i].key)
    BY <1>2, <1>3, <1>5, <2>1 DEF dictIterNext
  <2> QED
    BY <1>1, <1>3, <2>2, <2>3, VisitsNext
<1>6. CASE ~ (position < Len(Chain(c)))
  <2>1. PICK b, d : b = c + 1 /\ d = PassEmptyLists(dictIterScan(c + 1))
    OBVIOUS
  <2>2. IsNext(b, d) /\ b \in 0 .. NumBuckets
    BY <1>4, <2>1, NextBucket
  <2>3. Len(visited) = Len(Upto(b))
    <3>1. Len(Upto(c + 1)) = Len(Upto(c)) + Len(Chain(c))
      BY <1>1, <1>3, UptoNext
    <3>2. position = Len(Chain(c))
      BY <1>3, <1>4, <1>6
    <3>3. Len(Upto(b)) = Len(Upto(c + 1))
      BY <2>1
    <3> QED
      BY <1>3, <3>1, <3>2, <3>3
  <2>4. /\ bucket' = d
        /\ position' = IF d = -1 THEN -1 ELSE StartOf(d) + 1
        /\ visited' = IF d = -1 THEN visited ELSE Append(visited, Chain(d)[StartOf(d) + 1].key)
    BY <1>2, <1>6, <2>1 DEF dictIterNext
  <2>5. CASE d = -1 /\ EmptyChains(b, NumBuckets)
    <3>1. NumBuckets \in b .. NumBuckets /\ Entries = Upto(NumBuckets)
      BY <1>1, <2>2, BucketNumbers, UptoTypes
    <3>2. Len(Entries) = Len(visited)
      BY <1>1, <2>2, <2>3, <2>5, <3>1, SkipChains
    <3>3. visited' = visited /\ bucket' = -1 /\ position' = -1
      BY <2>4, <2>5
    <3>4. UNCHANGED <<hash, exists, size, buckets, owned, iterating>>
      BY DEF dictIterNext, dictVars
    <3>5. Kept' /\ Entries' = Entries
      BY <3>4, SameDictKeeps, SameBuckets
    <3>6. TypeOK'
      BY <1>1, <3>3, <3>4 DEF TypeOK
    <3>7. IteratesInOrder'
      BY <1>1, <3>2, <3>3, <3>5 DEF IteratesInOrder
    <3> QED
      BY <3>5, <3>6, <3>7 DEF DictInv, Kept
  <2>6. CASE d \in Buckets /\ b <= d /\ Chain(d) # <<>> /\ EmptyChains(b, d)
    <3>1. d \in b .. NumBuckets /\ d # -1
      BY <2>2, <2>6, BucketNumbers
    <3>2. Len(Upto(d)) = Len(visited)
      BY <1>1, <2>2, <2>3, <2>6, <3>1, SkipChains
    <3>3. PICK i : i = 1
      OBVIOUS
    <3>4. Chain(d) \in Seq(DictEntry) /\ Len(Chain(d)) \in Nat
      BY <1>1, <2>6, ChainsAreSeqs
    <3>5. i \in 1 .. Len(Chain(d))
      BY <2>6, <3>3, <3>4, EmptySeq
    <3>6. Len(visited) + 1 = Len(Upto(d)) + i
      BY <3>2, <3>3
    <3>7. bucket' = d /\ position' = i /\ visited' = Append(visited, Chain(d)[i].key)
      BY <2>4, <3>1, <3>3 DEF StartOf
    <3> QED
      BY <1>1, <2>6, <3>5, <3>6, <3>7, VisitsNext
  <2> QED
    BY <2>2, <2>5, <2>6 DEF IsNext
<1> QED
  BY <1>5, <1>6

LEMMA IterFreeKeeps ==
  ASSUME DictInv, dictIterFree
  PROVE  DictInv'
<1>1. UNCHANGED <<hash, exists, size, buckets, owned>>
  BY DEF dictIterFree, dictVars
<1>2. TypeOK'
  BY <1>1, EmptySeq DEF DictInv, TypeOK, dictIterFree
<1>3. Kept'
  BY <1>1, SameDictKeeps
<1> QED
  BY <1>2, <1>3 DEF DictInv, Kept, dictIterFree

-----------------------------------------------------------------------------
(* What the dictionary promises.                                           *)

(* Each step of dictSet, dictRemove, dictFree and the iterator leaves size *)
(* and owned true to the chains and an iterator where its keys say it is.  *)
THEOREM DictInvariance == Spec => []DictInv
<1>1. Init => DictInv
  BY StartInv
<1>2. DictInv /\ [Next]_vars => DictInv'
  <2> SUFFICES ASSUME DictInv, [Next]_vars PROVE DictInv'
    OBVIOUS
  <2>1. CASE dictCreate
    BY <2>1, SameAll DEF dictCreate
  <2>2. CASE \E k \in Keys : \E v \in Values : dictSet(k, v)
    BY <2>2, SetKeeps
  <2>3. CASE \E k \in Keys : dictRemove(k)
    BY <2>3, RemoveKeeps
  <2>4. CASE dictFree
    BY <2>4, FreeKeeps
  <2>5. CASE dictIter
    BY <2>5, IterKeeps
  <2>6. CASE dictIterNext
    BY <2>6, IterNextKeeps
  <2>7. CASE dictIterFree
    BY <2>7, IterFreeKeeps
  <2>8. CASE UNCHANGED vars
    <3>1. exists' \in BOOLEAN
      BY <2>8 DEF DictInv, TypeOK, vars, dictVars
    <3> QED
      BY <2>8, <3>1, SameAll DEF vars, dictVars
  <2> QED
    BY <2>1, <2>2, <2>3, <2>4, <2>5, <2>6, <2>7, <2>8 DEF Next
<1> QED
  BY <1>1, <1>2, PTL DEF Spec

(* Every variable keeps to its type; the size never goes below 0.          *)
THEOREM DictTypeCorrect == Spec => []TypeOK
<1>1. DictInv => TypeOK
  BY DEF DictInv
<1> QED
  BY <1>1, DictInvariance, PTL

(* After any calls of dictSet, dictRemove and dictFree the size is the     *)
(* number of entries and the values in them are those still to be freed.   *)
THEOREM CountsExactly == Spec => []CountsWhatItOwns
BY ShowsCount, DictInvariance, PTL

(* However the keys hash, and whatever buckets have no list or a list that *)
(* dictRemove has emptied, dictIterNext returns the key of each entry once *)
(* and says that it has come to the end only behind the last.              *)
THEOREM IteratesOverAll == Spec => []IterVisitsAll
BY ShowsVisits, DictInvariance, PTL

-----------------------------------------------------------------------------
(* The values of one key in a chain, entry by entry.                       *)

More(q, e, k) == IF e.key = k THEN Append(q, e.value) ELSE q

Picks(s, k, n, g) == g[0] = <<>> /\ \A i \in 1 .. n : g[i] = More(g[i - 1], s[i], k)

LEMMA PicksExist ==
  ASSUME NEW s, NEW k, NEW n \in Nat
  PROVE  \E g : Picks(s, k, n, g)
<1> DEFINE S == {m \in Nat : \E g : Picks(s, k, m, g)}
<1>1. 0 \in S
  <2>1. Picks(s, k, 0, [i \in {0} |-> <<>>])
    BY DEF Picks
  <2> QED
    BY <2>1
<1>2. ASSUME NEW m \in Nat, m \in S
      PROVE  m + 1 \in S
  <2>1. PICK f : Picks(s, k, m, f)
    BY <1>2
  <2>2. PICK more : more = More(f[m], s[m + 1], k)
    OBVIOUS
  <2> DEFINE g == [i \in 0 .. m + 1 |-> IF i <= m THEN f[i] ELSE more]
  <2>3. ASSUME NEW i \in 1 .. m + 1
        PROVE  g[i] = More(g[i - 1], s[i], k)
    <3>1. CASE i <= m
      <4>1. i \in 1 .. m /\ g[i] = f[i] /\ g[i - 1] = f[i - 1]
        BY <3>1
      <4> HIDE DEF g
      <4>2. f[i] = More(f[i - 1], s[i], k)
        BY <2>1, <4>1 DEF Picks
      <4> QED
        BY <4>1, <4>2
    <3>2. CASE i = m + 1
      <4>1. g[m + 1] = more /\ g[m] = f[m] /\ i - 1 = m
        BY <3>2
      <4> HIDE DEF g
      <4>2. g[i] = more /\ g[i - 1] = f[m] /\ s[i] = s[m + 1]
        BY <3>2, <4>1
      <4> QED
        BY <2>2, <4>2, Zenon
    <3> QED
      BY <3>1, <3>2
  <2>4. g[0] = <<>>
    BY <2>1 DEF Picks
  <2> HIDE DEF g
  <2>5. Picks(s, k, m + 1, g)
    BY <2>3, <2>4 DEF Picks
  <2> QED
    BY <2>5
<1>3. n \in S
  <2> HIDE DEF S
  <2> QED
    BY <1>1, <1>2, NatSetInduction
<1> QED
  BY <1>3

(* That is where ValuesIn ends.                                            *)
LEMMA ValuesInPicks ==
  ASSUME NEW s, NEW k, Len(s) \in Nat, NEW g, Picks(s, k, Len(s), g)
  PROVE  ValuesIn(s, k) = g[Len(s)]
<1>1. PICK n \in Nat : n = Len(s)
  OBVIOUS
<1> DEFINE F(h) == [i \in 0 .. n |->
                      IF i = 0 THEN <<>>
                      ELSE IF s[i].key = k THEN Append(h[i - 1], s[i].value) ELSE h[i - 1]]
           from == CHOOSE h : h = F(h)
           f == [i \in 0 .. n |-> g[i]]
<1>2. ValuesIn(s, k) = from[n]
  BY <1>1 DEF ValuesIn
<1>3. g[0] = <<>> /\ \A i \in 1 .. n : g[i] = More(g[i - 1], s[i], k)
  BY <1>1 DEF Picks
<1>4. f = F(f)
  <2>1. ASSUME NEW i \in 0 .. n
        PROVE  f[i] = IF i = 0 THEN <<>>
                      ELSE IF s[i].key = k THEN Append(f[i - 1], s[i].value) ELSE f[i - 1]
    <3>1. CASE i = 0
      BY <1>3, <3>1
    <3>2. CASE i # 0
      <4>1. i \in 1 .. n /\ i - 1 \in 0 .. n
        BY <3>2
      <4> QED
        BY <1>3, <3>2, <4>1 DEF More
    <3> QED
      BY <3>1, <3>2
  <2> QED
    BY <2>1
<1>5. from = F(from)
  BY <1>4
<1>6. from[0] = <<>> /\ \A i \in 1 .. n : from[i] = More(from[i - 1], s[i], k)
  <2>1. \A i \in 0 .. n : from[i] = IF i = 0 THEN <<>>
                      ELSE IF s[i].key = k THEN Append(from[i - 1], s[i].value) ELSE from[i - 1]
    <3> HIDE DEF from
    <3> QED
      BY <1>5
  <2> HIDE DEF from
  <2> QED
    BY <2>1 DEF More
<1> HIDE DEF from
<1> DEFINE S == {m \in Nat : m <= n => from[m] = g[m]}
<1>7. 0 \in S
  BY <1>3, <1>6
<1>8. ASSUME NEW m \in Nat, m \in S
      PROVE  m + 1 \in S
  <2>1. CASE m + 1 <= n
    <3>1. PICK i : i = m + 1
      OBVIOUS
    <3>2. i \in 1 .. n /\ i - 1 = m /\ from[m] = g[m]
      BY <1>8, <2>1, <3>1
    <3>3. from[i] = More(from[i - 1], s[i], k) /\ g[i] = More(g[i - 1], s[i], k)
      BY <1>3, <1>6, <3>2
    <3>4. from[i] = g[i]
      BY <3>2, <3>3
    <3> QED
      BY <3>1, <3>4
  <2>2. CASE ~ (m + 1 <= n)
    BY <2>2
  <2> QED
    BY <2>1, <2>2
<1>9. n \in S
  <2> HIDE DEF S
  <2> QED
    BY <1>7, <1>8, NatSetInduction
<1> QED
  BY <1>1, <1>2, <1>9

(* What is picked are values of entries.                                   *)
PicksFrom(s, n, q) == q \in Seq(Values) /\ \A j \in 1 .. Len(q) : \E i \in 1 .. n : s[i].value = q[j]

LEMMA PicksAreValues ==
  ASSUME NEW s \in Seq(DictEntry), NEW k, NEW n \in 0 .. Len(s), NEW g, Picks(s, k, Len(s), g)
  PROVE  PicksFrom(s, Len(s), g[n])
<1> DEFINE S == {m \in Nat : m <= Len(s) => PicksFrom(s, Len(s), g[m])}
<1>1. 0 \in S
  <2>1. PICK q : q = g[0]
    OBVIOUS
  <2>2. q = <<>> /\ q \in Seq(Values) /\ Len(q) = 0
    BY <2>1, EmptySeq DEF Picks
  <2>3. PicksFrom(s, Len(s), q)
    BY <2>2 DEF PicksFrom
  <2> QED
    BY <2>1, <2>3
<1>2. Len(s) \in Nat
  BY LenProperties
<1>3. ASSUME NEW m \in Nat, m \in S
      PROVE  m + 1 \in S
  <2>1. CASE m + 1 <= Len(s)
    <3>1. PICK i : i = m + 1
      OBVIOUS
    <3>2. i \in 1 .. Len(s) /\ i - 1 = m /\ PicksFrom(s, Len(s), g[m])
      BY <1>2, <1>3, <2>1, <3>1
    <3>3. g[i] = More(g[m], s[i], k)
      BY <3>2 DEF Picks
    <3>4. CASE s[i].key = k
      <4>1. g[i] = Append(g[m], s[i].value)
        BY <3>3, <3>4 DEF More
      <4>2. s[i].value \in Values
        <5>1. s[i] \in DictEntry
          BY <3>2, ElementOfSeq
        <5> QED
          BY <5>1 DEF DictEntry
      <4>3. PICK q, w : q = g[m] /\ w = s[i].value
        OBVIOUS
      <4>4. q \in Seq(Values) /\ \A j \in 1 .. Len(q) : \E l \in 1 .. Len(s) : s[l].value = q[j]
        BY <3>2, <4>3 DEF PicksFrom
      <4>5. /\ Append(q, w) \in Seq(Values) /\ Len(Append(q, w)) = Len(q) + 1 /\ Len(q) \in Nat
            /\ Append(q, w)[Len(q) + 1] = w /\ \A j \in 1 .. Len(q) : Append(q, w)[j] = q[j]
        BY <4>2, <4>3, <4>4, AppendProperties, LenProperties
      <4>6. ASSUME NEW j \in 1 .. Len(Append(q, w))
            PROVE  \E l \in 1 .. Len(s) : s[l].value = Append(q, w)[j]
        <5>1. j \in 1 .. Len(q) \/ j = Len(q) + 1
          BY <4>5
        <5> QED
          BY <3>2, <4>3, <4>4, <4>5, <5>1
      <4>7. PicksFrom(s, Len(s), g[i])
        BY <4>1, <4>3, <4>5, <4>6 DEF PicksFrom
      <4> QED
        BY <3>1, <4>7
    <3>5. CASE s[i].key # k
      BY <3>1, <3>2, <3>3, <3>5 DEF More
    <3> QED
      BY <3>4, <3>5
  <2>2. CASE ~ (m + 1 <= Len(s))
    BY <2>2
  <2> QED
    BY <2>1, <2>2
<1>4. n \in S
  <2> HIDE DEF S
  <2>1. n \in Nat
    BY <1>2
  <2> QED
    BY <1>1, <1>3, <2>1, NatSetInduction
<1> QED
  BY <1>2, <1>4

LEMMA ValuesAreFrom ==
  ASSUME NEW s \in Seq(DictEntry), NEW k
  PROVE  PicksFrom(s, Len(s), ValuesIn(s, k))
<1>1. Len(s) \in Nat
  BY LenProperties
<1>2. PICK g : Picks(s, k, Len(s), g)
  BY <1>1, PicksExist
<1>3. ValuesIn(s, k) = g[Len(s)]
  BY <1>1, <1>2, ValuesInPicks
<1>4. Len(s) \in 0 .. Len(s)
  BY <1>1
<1> QED
  BY <1>2, <1>3, <1>4, PicksAreValues

(* One entry more at the end.                                              *)
LEMMA ValuesAppended ==
  ASSUME NEW s \in Seq(DictEntry), NEW e \in DictEntry, NEW k
  PROVE  ValuesIn(Append(s, e), k) = More(ValuesIn(s, k), e, k)
<1>1. PICK t, n : t = Append(s, e) /\ n = Len(s)
  OBVIOUS
<1>2. /\ t \in Seq(DictEntry) /\ n \in Nat /\ Len(t) = n + 1 /\ t[n + 1] = e
      /\ \A i \in 1 .. n : t[i] = s[i]
  BY <1>1, AppendProperties, LenProperties
<1>3. PICK g : Picks(t, k, n + 1, g)
  <2>1. PICK m \in Nat : m = n + 1
    BY <1>2
  <2>2. PICK g : Picks(t, k, m, g)
    BY PicksExist
  <2> QED
    BY <2>1, <2>2
<1>4. ValuesIn(t, k) = g[n + 1]
  <2>1. Len(t) \in Nat /\ Picks(t, k, Len(t), g)
    BY <1>2, <1>3
  <2> QED
    BY <1>2, <2>1, ValuesInPicks
<1>5. ValuesIn(s, k) = g[n]
  <2>1. g[0] = <<>> /\ \A i \in 1 .. n + 1 : g[i] = More(g[i - 1], t[i], k)
    BY <1>3 DEF Picks
  <2>2. ASSUME NEW i \in 1 .. n
        PROVE  g[i] = More(g[i - 1], s[i], k)
    <3>1. i \in 1 .. n + 1 /\ t[i] = s[i]
      BY <1>2
    <3>2. g[i] = More(g[i - 1], t[i], k)
      BY <2>1, <3>1
    <3> QED
      BY <3>1, <3>2
  <2>3. Picks(s, k, n, g)
    BY <2>1, <2>2 DEF Picks
  <2> QED
    BY <1>1, <1>2, <2>3, ValuesInPicks
<1>6. g[n + 1] = More(g[n], e, k)
  <2>1. PICK i : i = n + 1
    OBVIOUS
  <2>2. i \in 1 .. n + 1 /\ i - 1 = n /\ t[i] = e
    BY <1>2, <2>1
  <2>3. g[i] = More(g[i - 1], t[i], k)
    BY <1>3, <2>2 DEF Picks
  <2> QED
    BY <2>1, <2>2, <2>3
<1> QED
  BY <1>1, <1>4, <1>5, <1>6

(* Before the first entry of a key nothing is picked, from then on its     *)
(* value comes first.                                                      *)
StartsAt(p, v, i, q) ==
  /\ i < p => q = <<>>
  /\ ~ (i < p) => q \in Seq(Values) /\ q # <<>> /\ Head(q) = v

NoneBefore(s, k, p) == \A i \in 1 .. p - 1 : s[i].key # k

LEMMA PicksStart ==
  ASSUME NEW s \in Seq(DictEntry), NEW k, NEW g, Picks(s, k, Len(s), g),
         NEW p \in Nat, p # 0, NoneBefore(s, k, p), NEW v,
         p \in 1 .. Len(s) => s[p].key = k /\ s[p].value = v,
         NEW n \in 0 .. Len(s)
  PROVE  StartsAt(p, v, n, g[n])
<1>1. Len(s) \in Nat
  BY LenProperties
<1> DEFINE S == {m \in Nat : m <= Len(s) => StartsAt(p, v, m, g[m])}
<1>2. 0 \in S
  BY DEF Picks, StartsAt
<1>3. ASSUME NEW m \in Nat, m \in S
      PROVE  m + 1 \in S
  <2>1. CASE m + 1 <= Len(s)
    <3>1. PICK i : i = m + 1
      OBVIOUS
    <3>2. i \in 1 .. Len(s) /\ i - 1 = m /\ StartsAt(p, v, m, g[m]) /\ m \in 0 .. Len(s)
      BY <1>1, <1>3, <2>1, <3>1
    <3>3. g[i] = More(g[m], s[i], k)
      BY <3>2 DEF Picks
    <3>4. PICK q, w : q = g[m] /\ w = s[i].value
      OBVIOUS
    <3>5. q \in Seq(Values)
      <4>1. PicksFrom(s, Len(s), g[m])
        BY <3>2, PicksAreValues
      <4> QED
        BY <3>4, <4>1 DEF PicksFrom
    <3>6. w \in Values
      <4>1. s[i] \in DictEntry
        BY <3>2, ElementOfSeq
      <4> QED
        BY <3>4, <4>1 DEF DictEntry
    <3>7. ASSUME i < p PROVE StartsAt(p, v, i, g[i])
      <4>1. s[i].key # k /\ m < p
        BY <3>1, <3>7 DEF NoneBefore
      <4>2. g[i] = <<>>
        BY <3>2, <3>3, <4>1 DEF StartsAt, More
      <4> QED
        BY <3>7, <4>2 DEF StartsAt
    <3>8. ASSUME i = p PROVE StartsAt(p, v, i, g[i])
      <4>1. s[i].key = k /\ w = v /\ q = <<>>
        BY <3>1, <3>2, <3>4, <3>8 DEF StartsAt
      <4>2. g[i] = Append(q, w)
        BY <3>3, <3>4, <4>1 DEF More
      <4>3. Append(q, w) \in Seq(Values) /\ Append(q, w) # <<>>
        BY <3>5, <3>6, AppendProperties
      <4>4. Head(Append(q, w)) = v
        BY <3>5, <4>1, HeadTailAppend
      <4> QED
        BY <3>8, <4>2, <4>3, <4>4 DEF StartsAt
    <3>9. ASSUME ~ (i < p), i # p PROVE StartsAt(p, v, i, g[i])
      <4>1. ~ (m < p)
        BY <3>1, <3>9
      <4>2. q # <<>> /\ Head(q) = v
        BY <3>2, <3>4, <4>1 DEF StartsAt
      <4>3. Append(q, w) \in Seq(Values) /\ Append(q, w) # <<>>
        BY <3>5, <3>6, AppendProperties
      <4>4. Head(Append(q, w)) = v
        BY <3>5, <4>2, HeadTailAppend
      <4>5. g[i] = Append(q, w) \/ g[i] = q
        BY <3>3, <3>4 DEF More
      <4>6. g[i] \in Seq(Values) /\ g[i] # <<>> /\ Head(g[i]) = v
        BY <3>5, <4>2, <4>3, <4>4, <4>5
      <4> QED
        BY <3>9, <4>6 DEF StartsAt
    <3>10. StartsAt(p, v, i, g[i])
      BY <3>7, <3>8, <3>9
    <3>11. m + 1 <= Len(s) => StartsAt(p, v, m + 1, g[m + 1])
      BY <3>1, <3>10
    <3> QED
      BY <3>11
  <2>2. CASE ~ (m + 1 <= Len(s))
    BY <2>2
  <2> QED
    BY <2>1, <2>2
<1>4. n \in S
  <2> HIDE DEF S
  <2>1. n \in Nat
    BY <1>1
  <2> QED
    BY <1>2, <1>3, <2>1, NatSetInduction
<1> QED
  BY <1>1, <1>4

(* The first entry of a key gives the first of its values; a key without   *)
(* an entry has none.                                                      *)
LEMMA FirstOfValues ==
  ASSUME NEW s \in Seq(DictEntry), NEW k, NEW p, FirstWith(s, k, p)
  PROVE  ValuesIn(s, k) # <<>> /\ Head(ValuesIn(s, k)) = s[p].value
<1>1. Len(s) \in Nat
  BY LenProperties
<1>2. PICK g : Picks(s, k, Len(s), g)
  BY <1>1, PicksExist
<1>3. ValuesIn(s, k) = g[Len(s)]
  BY <1>1, <1>2, ValuesInPicks
<1>4. /\ p \in Nat /\ p # 0 /\ NoneBefore(s, k, p) /\ p \in 1 .. Len(s) /\ s[p].key = k
      /\ Len(s) \in 0 .. Len(s) /\ ~ (Len(s) < p)
  BY <1>1 DEF FirstWith, NoneBefore
<1>5. StartsAt(p, s[p].value, Len(s), g[Len(s)])
  BY <1>2, <1>4, PicksStart
<1> QED
  BY <1>3, <1>4, <1>5 DEF StartsAt

LEMMA NoValues ==
  ASSUME NEW s \in Seq(DictEntry), NEW k, \A i \in 1 .. Len(s) : s[i].key # k
  PROVE  ValuesIn(s, k) = <<>>
<1>1. Len(s) \in Nat
  BY LenProperties
<1>2. PICK g : Picks(s, k, Len(s), g)
  BY <1>1, PicksExist
<1>3. ValuesIn(s, k) = g[Len(s)]
  BY <1>1, <1>2, ValuesInPicks
<1>4. PICK p : p = Len(s) + 1
  OBVIOUS
<1>5. /\ p \in Nat /\ p # 0 /\ NoneBefore(s, k, p) /\ ~ (p \in 1 .. Len(s))
      /\ Len(s) \in 0 .. Len(s) /\ Len(s) < p
  BY <1>1, <1>4 DEF NoneBefore
<1>6. StartsAt(p, k, Len(s), g[Len(s)])
  BY <1>2, <1>5, PicksStart
<1> QED
  BY <1>3, <1>5, <1>6 DEF StartsAt

(* The first entry of key k less.                                          *)
Rest(l, k, q) == IF l = k THEN Tail(q) ELSE q

LEMMA ValuesRemoved ==
  ASSUME NEW s \in Seq(DictEntry), NEW k, NEW p, FirstWith(s, k, p),
         NEW r, WithoutAt(s, r, p), NEW l
  PROVE  ValuesIn(r, l) = Rest(l, k, ValuesIn(s, l))
<1>1. PICK n : n = Len(s)
  OBVIOUS
<1>2. /\ n \in Nat /\ p \in 1 .. n /\ n # 0 /\ s[p].key = k /\ Len(r) = n - 1 /\ n - 1 \in Nat
      /\ \A i \in 1 .. p - 1 : s[i].key # k
      /\ \A i \in 1 .. n - 1 : r[i] = s[IF p <= i THEN i + 1 ELSE i]
  BY <1>1, LenProperties DEF FirstWith, WithoutAt
<1>3. PICK g : Picks(s, l, n, g)
  BY <1>2, PicksExist
<1>4. ValuesIn(s, l) = g[n]
  BY <1>1, <1>2, <1>3, ValuesInPicks
<1>5. g[0] = <<>> /\ \A i \in 1 .. n : g[i] = More(g[i - 1], s[i], l)
  BY <1>3 DEF Picks
<1>6. ASSUME l = k, NEW i \in 0 .. n
      PROVE  StartsAt(p, s[p].value, i, g[i])
  <2>1. NoneBefore(s, l, p) /\ p \in Nat /\ p # 0
    BY <1>2, <1>6 DEF NoneBefore
  <2>2. p \in 1 .. Len(s) => s[p].key = l /\ s[p].value = s[p].value
    BY <1>2, <1>6
  <2>3. Picks(s, l, Len(s), g) /\ i \in 0 .. Len(s)
    BY <1>1, <1>3
  <2> QED
    BY <2>1, <2>2, <2>3, PicksStart
<1> DEFINE h == [j \in 0 .. n - 1 |-> IF j < p THEN g[j] ELSE Rest(l, k, g[j + 1])]
<1>7. \A j \in 0 .. n - 1 : j < p => h[j] = g[j]
  OBVIOUS
<1>8. ASSUME NEW i \in p .. n
      PROVE  h[i - 1] = Rest(l, k, g[i])
  <2>1. i - 1 \in 0 .. n - 1 /\ i \in 0 .. n /\ i \in Nat
    BY <1>2
  <2>2. CASE i # p
    <3>1. ~ (i - 1 < p) /\ (i - 1) + 1 = i
      BY <1>2, <2>1, <2>2
    <3>2. h[i - 1] = Rest(l, k, g[(i - 1) + 1])
      BY <2>1, <3>1
    <3> HIDE DEF h
    <3> QED
      BY <3>1, <3>2
  <2>3. CASE i = p
    <3>1. p - 1 \in 0 .. n /\ p - 1 < p /\ h[p - 1] = g[p - 1]
      BY <1>2, <1>7, <2>1, <2>3
    <3> HIDE DEF h
    <3>2. g[p] = More(g[p - 1], s[p], l)
      BY <1>2, <1>5
    <3>3. CASE l = k
      <4>1. g[p - 1] = <<>>
        BY <1>6, <3>1, <3>3 DEF StartsAt
      <4>2. PICK e : e = s[p].value
        OBVIOUS
      <4>3. g[p] = Append(<<>>, e)
        BY <1>2, <3>2, <3>3, <4>1, <4>2 DEF More
      <4>4. <<>> \in Seq(Values)
        BY EmptySeq
      <4>5. Tail(Append(<<>>, e)) = <<>>
        BY <4>4, HeadTailAppend
      <4> QED
        BY <2>3, <3>1, <3>3, <4>1, <4>3, <4>5 DEF Rest
    <3>4. CASE l # k
      BY <1>2, <2>3, <3>1, <3>2, <3>4 DEF More, Rest
    <3> QED
      BY <3>3, <3>4
  <2> QED
    BY <2>2, <2>3
<1> HIDE DEF h
<1>9. ASSUME NEW i \in 1 .. n - 1
      PROVE  h[i] = More(h[i - 1], r[i], l)
  <2>1. i \in 1 .. n /\ i \in 0 .. n - 1 /\ i - 1 \in 0 .. n - 1
    BY <1>2
  <2>2. CASE i < p
    <3>1. r[i] = s[i]
      <4>1. ~ (p <= i)
        BY <1>2, <2>2
      <4> QED
        BY <1>2, <4>1
    <3>2. i - 1 < p
      BY <1>2, <2>2
    <3>3. h[i] = g[i] /\ h[i - 1] = g[i - 1]
      BY <1>7, <2>1, <2>2, <3>2
    <3>4. g[i] = More(g[i - 1], s[i], l)
      BY <1>5, <2>1
    <3> QED
      BY <3>1, <3>3, <3>4
  <2>3. CASE ~ (i < p)
    <3>1. PICK j : j = i + 1
      OBVIOUS
    <3>2. j \in p .. n /\ i \in p .. n /\ j - 1 = i /\ j \in 1 .. n /\ i \in 0 .. n /\ p <= i
      BY <1>2, <2>1, <2>3, <3>1
    <3>3. h[i] = Rest(l, k, g[j]) /\ h[i - 1] = Rest(l, k, g[i])
      <4>1. h[j - 1] = Rest(l, k, g[j])
        BY <1>8, <3>2
      <4>2. h[i - 1] = Rest(l, k, g[i])
        BY <1>8, <3>2
      <4> QED
        BY <3>2, <4>1, <4>2
    <3>4. g[j] = More(g[i], s[j], l)
      BY <1>5, <3>2
    <3>5. r[i] = s[j]
      BY <1>2, <3>1, <3>2
    <3>6. CASE l # k
      BY <3>3, <3>4, <3>5, <3>6 DEF Rest
    <3>7. CASE l = k
      <4>1. PICK q, e : q = g[i] /\ e = s[j]
        OBVIOUS
      <4>2. q \in Seq(Values) /\ q # <<>>
        BY <1>6, <2>3, <3>2, <3>7, <4>1 DEF StartsAt
      <4>3. Tail(Append(q, e.value)) = Append(Tail(q), e.value)
        BY <4>2, HeadTailAppend
      <4>4. Tail(More(q, e, l)) = More(Tail(q), e, l)
        BY <4>3 DEF More
      <4>5. h[i] = Tail(More(q, e, l)) /\ h[i - 1] = Tail(q)
        BY <3>3, <3>4, <3>7, <4>1 DEF Rest
      <4> QED
        BY <3>5, <4>1, <4>4, <4>5
    <3> QED
      BY <3>6, <3>7
  <2> QED
    BY <2>2, <2>3
<1>10. h[0] = <<>>
  <2>1. 0 \in 0 .. n - 1 /\ 0 < p
    BY <1>2
  <2> QED
    BY <1>5, <1>7, <2>1
<1>11. Picks(r, l, Len(r), h)
  BY <1>2, <1>9, <1>10 DEF Picks
<1>12. ValuesIn(r, l) = h[n - 1]
  <2>1. Len(r) \in Nat
    BY <1>2
  <2>2. ValuesIn(r, l) = h[Len(r)]
    BY <1>11, <2>1, ValuesInPicks
  <2> QED
    BY <1>2, <2>2
<1>13. h[n - 1] = Rest(l, k, g[n])
  <2>1. n \in p .. n
    BY <1>2
  <2> QED
    BY <1>8, <2>1
<1> QED
  BY <1>4, <1>12, <1>13

-----------------------------------------------------------------------------
(* The dictionary is the queues of its keys' values.                       *)

Stored   == [k \in Keys |-> ValuesOf(k)]
LookedUp == [k \in Keys |-> dictGet(k)]

LookupGivesOldest == LookedUp = Queues!Oldest(Stored)

LEMMA LookupIsOldest == TypeOK => LookupGivesOldest
<1> SUFFICES ASSUME TypeOK PROVE LookupGivesOldest
  OBVIOUS
<1>1. ASSUME NEW k \in Keys
      PROVE  dictGet(k) = IF ValuesOf(k) = <<>> THEN Null ELSE Head(ValuesOf(k))
  <2>1. PICK s : s = Chain(hash[k])
    OBVIOUS
  <2>2. s \in Seq(DictEntry)
    <3>1. hash[k] \in Buckets
      BY DEF TypeOK
    <3> QED
      BY <2>1, <3>1, ChainsAreSeqs
  <2>3. ValuesOf(k) = ValuesIn(s, k)
    BY <2>1 DEF ValuesOf
  <2>4. CASE getDictEntry(s, k) >= 0
    <3>1. PICK p : p = getDictEntry(s, k) + 1
      OBVIOUS
    <3>2. FirstWith(s, k, p)
      BY <2>2, <2>4, <3>1, EntrySearch
    <3>3. dictGet(k) = s[p].value
      BY <2>1, <2>4, <3>1 DEF dictGet, HasKey
    <3>4. ValuesIn(s, k) # <<>> /\ Head(ValuesIn(s, k)) = s[p].value
      BY <2>2, <3>2, FirstOfValues
    <3> QED
      BY <2>3, <3>3, <3>4
  <2>5. CASE ~ (getDictEntry(s, k) >= 0)
    <3>1. dictGet(k) = Null
      BY <2>1, <2>5 DEF dictGet, HasKey
    <3>2. \A i \in 1 .. Len(s) : s[i].key # k
      BY <2>2, <2>5, EntrySearch
    <3>3. ValuesIn(s, k) = <<>>
      BY <2>2, <3>2, NoValues
    <3> QED
      BY <2>3, <3>1, <3>3
  <2> QED
    BY <2>4, <2>5
<1> QED
  BY <1>1 DEF LookupGivesOldest, LookedUp, Stored, Queues!Oldest

LEMMA NextLookup ==
  ASSUME TypeOK'
  PROVE  LookedUp' = Queues!Oldest(Stored')
<1>1. LookupGivesOldest'
  BY LookupIsOldest, PTL
<1> QED
  BY <1>1 DEF LookupGivesOldest, Queues!Oldest

(* The values of a key after a step, by its new chain.                     *)
LEMMA NextValues ==
  ASSUME UNCHANGED hash, NEW k \in Keys, NEW b, b = hash[k]
  PROVE  ValuesOf(k)' = ValuesIn(Chain(b)', k)
<1>1. ValuesOf(k)' = ValuesIn(IF buckets'[b] = Null THEN <<>> ELSE buckets'[b], k)
  BY DEF ValuesOf, Chain
<1>2. Chain(b)' = IF buckets'[b] = Null THEN <<>> ELSE buckets'[b]
  BY DEF Chain
<1> QED
  BY <1>1, <1>2

LEMMA SameQueues ==
  ASSUME UNCHANGED <<hash, buckets>>
  PROVE  Stored' = Stored /\ LookedUp' = LookedUp
BY DEF Stored, LookedUp, ValuesOf, dictGet, HasKey, Chain

LEMMA NoQueues ==
  ASSUME \A b \in Buckets : buckets[b] = Null, hash \in [Keys -> Buckets]
  PROVE  Stored = Queues!Empty
<1>1. ASSUME NEW k \in Keys PROVE ValuesOf(k) = <<>>
  <2>1. Chain(hash[k]) = <<>>
    BY DEF Chain
  <2>2. <<>> \in Seq(DictEntry) /\ Len(<<>>) = 0
    BY EmptySeq
  <2>3. \A i \in 1 .. Len(<<>>) : <<>>[i].key # k
    BY <2>2
  <2>4. ValuesIn(<<>>, k) = <<>>
    BY <2>2, <2>3, NoValues
  <2> QED
    BY <2>1, <2>4 DEF ValuesOf
<1> QED
  BY <1>1 DEF Stored, Queues!Empty

LEMMA StartsEmpty ==
  ASSUME Init
  PROVE  Queues!Init
<1>1. DictInv
  BY StartInv
<1>2. Stored = Queues!Empty
  BY NoQueues DEF Init
<1>3. LookedUp = Queues!Oldest(Stored)
  BY <1>1, LookupIsOldest DEF DictInv, LookupGivesOldest
<1>4. LookedUp = Queues!Oldest(Queues!Empty)
  BY <1>2, <1>3
<1> QED
  BY <1>2, <1>4 DEF Init, Queues!Init, Stored, LookedUp

LEMMA SetAddsLast ==
  ASSUME DictInv, TypeOK', NEW k \in Keys, NEW v \in Values, dictSet(k, v)
  PROVE  Queues!Set(k, v)
<1>1. PICK h, s, e : h = hash[k] /\ s = Chain(h) /\ e = [key |-> k, value |-> v]
  OBVIOUS
<1>2. /\ TypeOK /\ h \in Buckets /\ e \in DictEntry /\ e.value = v /\ e.key = k
      /\ UNCHANGED <<hash, exists>> /\ exists
  BY <1>1 DEF DictInv, TypeOK, DictEntry, dictSet
<1>3. s \in Seq(DictEntry)
  BY <1>1, <1>2, ChainsAreSeqs
<1>4. PICK t : t = Append(s, e)
  OBVIOUS
<1>5. ChainChanges(h, t)
  <2>1. t \in Seq(DictEntry)
    BY <1>2, <1>3, <1>4, AppendProperties
  <2>2. buckets' = [buckets EXCEPT ![h] = t]
    BY <1>1, <1>4 DEF dictSet
  <2> QED
    BY <1>2, <2>1, <2>2, OneChainChanges
<1>6. ASSUME NEW l \in Keys
      PROVE  ValuesOf(l)' = IF l = k THEN Append(ValuesOf(l), v) ELSE ValuesOf(l)
  <2>1. PICK b \in Buckets : b = hash[l]
    BY <1>2 DEF TypeOK
  <2>2. ValuesOf(l)' = ValuesIn(Chain(b)', l) /\ ValuesOf(l) = ValuesIn(Chain(b), l)
    BY <1>2, <2>1, NextValues DEF ValuesOf
  <2>3. CASE b # h
    <3>1. Chain(b)' = Chain(b)
      BY <1>5, <2>3 DEF ChainChanges
    <3> QED
      BY <1>1, <2>1, <2>2, <2>3, <3>1
  <2>4. CASE b = h
    <3>1. Chain(b)' = t /\ Chain(b) = s
      BY <1>1, <1>5, <2>4 DEF ChainChanges
    <3>2. ValuesIn(t, l) = More(ValuesIn(s, l), e, l)
      BY <1>2, <1>3, <1>4, ValuesAppended
    <3> QED
      BY <1>2, <2>2, <3>1, <3>2 DEF More
  <2> QED
    BY <2>3, <2>4
<1>7. Stored' = [Stored EXCEPT ![k] = Append(@, v)]
  BY <1>6 DEF Stored
<1>8. LookedUp' = Queues!Oldest(Stored')
  BY NextLookup
<1>9. ~ Queues!Held(v)
  <2> SUFFICES ASSUME NEW l \in Keys, NEW j \in DOMAIN ValuesOf(l), ValuesOf(l)[j] = v
               PROVE  FALSE
    BY DEF Queues!Held
  <2>1. PICK b \in Buckets : b = hash[l]
    BY <1>2 DEF TypeOK
  <2>2. Chain(b) \in Seq(DictEntry)
    BY <1>2, ChainsAreSeqs
  <2>3. PicksFrom(Chain(b), Len(Chain(b)), ValuesIn(Chain(b), l))
    BY <2>2, ValuesAreFrom
  <2>4. ValuesOf(l) = ValuesIn(Chain(b), l)
    BY <2>1 DEF ValuesOf
  <2>5. PICK q : q = ValuesOf(l)
    OBVIOUS
  <2>6. q \in Seq(Values) /\ \A x \in 1 .. Len(q) : \E i \in 1 .. Len(Chain(b)) : Chain(b)[i].value = q[x]
    BY <2>3, <2>4, <2>5 DEF PicksFrom
  <2>7. j \in 1 .. Len(q)
    BY <2>5, <2>6, LenProperties
  <2>8. PICK i \in 1 .. Len(Chain(b)) : Chain(b)[i].value = q[j]
    BY <2>6, <2>7
  <2>9. InEntry(v)
    BY <2>5, <2>8 DEF InEntry
  <2> QED
    BY <2>9 DEF DictInv, OwnsEntries, dictSet
<1> QED
  BY <1>2, <1>7, <1>8, <1>9 DEF Queues!Set, Stored, LookedUp

LEMMA RemoveTakesFirst ==
  ASSUME DictInv, TypeOK', NEW k \in Keys, dictRemove(k)
  PROVE  Queues!Delete(k)
<1>1. PICK h, s, p : h = hash[k] /\ s = Chain(h) /\ p = getDictEntry(s, k) + 1
  OBVIOUS
<1>2. /\ TypeOK /\ h \in Buckets
      /\ UNCHANGED <<hash, exists>> /\ exists
  BY <1>1 DEF DictInv, TypeOK, dictRemove
<1>3. s \in Seq(DictEntry)
  BY <1>1, <1>2, ChainsAreSeqs
<1>4. FirstWith(s, k, p)
  <2>1. getDictEntry(s, k) >= 0
    BY <1>1 DEF dictRemove, HasKey
  <2> QED
    BY <1>1, <1>3, <2>1, EntrySearch
<1>5. p \in 1 .. Len(s)
  BY <1>4 DEF FirstWith
<1>6. PICK r : r = RemoveAt(s, p)
  OBVIOUS
<1>7. WithoutAt(s, r, p)
  BY <1>3, <1>5, <1>6, RemovedWithout
<1>8. ChainChanges(h, r)
  <2>1. buckets[h] = s
    <3>1. s # <<>>
      BY <1>3, <1>5, EmptySeq
    <3> QED
      BY <1>1, <3>1 DEF Chain
  <2>2. buckets' = [buckets EXCEPT ![h] = r]
    BY <1>1, <1>6, <2>1 DEF dictRemove
  <2>3. r \in Seq(DictEntry)
    BY <1>7 DEF WithoutAt
  <2> QED
    BY <1>2, <2>2, <2>3, OneChainChanges
<1>9. ASSUME NEW l \in Keys
      PROVE  ValuesOf(l)' = IF l = k THEN Tail(ValuesOf(l)) ELSE ValuesOf(l)
  <2>1. PICK b \in Buckets : b = hash[l]
    BY <1>2 DEF TypeOK
  <2>2. ValuesOf(l)' = ValuesIn(Chain(b)', l) /\ ValuesOf(l) = ValuesIn(Chain(b), l)
    BY <1>2, <2>1, NextValues DEF ValuesOf
  <2>3. CASE b # h
    <3>1. Chain(b)' = Chain(b)
      BY <1>8, <2>3 DEF ChainChanges
    <3> QED
      BY <1>1, <2>1, <2>2, <2>3, <3>1
  <2>4. CASE b = h
    <3>1. Chain(b)' = r /\ Chain(b) = s
      BY <1>1, <1>8, <2>4 DEF ChainChanges
    <3>2. ValuesIn(r, l) = Rest(l, k, ValuesIn(s, l))
      BY <1>3, <1>4, <1>7, ValuesRemoved
    <3> QED
      BY <2>2, <3>1, <3>2 DEF Rest
  <2> QED
    BY <2>3, <2>4
<1>10. Stored' = [Stored EXCEPT ![k] = Tail(@)]
  BY <1>9 DEF Stored
<1>11. Stored[k] # <<>>
  <2>1. ValuesIn(s, k) # <<>>
    BY <1>3, <1>4, FirstOfValues
  <2> QED
    BY <1>1, <2>1 DEF Stored, ValuesOf
<1>12. LookedUp' = Queues!Oldest(Stored')
  BY NextLookup
<1> QED
  BY <1>2, <1>10, <1>11, <1>12 DEF Queues!Delete, Stored, LookedUp

LEMMA FreeEmpties ==
  ASSUME DictInv, TypeOK', dictFree
  PROVE  Queues!Free
<1>1. exists /\ ~ exists' /\ exists' = FALSE /\ UNCHANGED hash
  BY DEF dictFree
<1>2. Stored' = Queues!Empty
  <2>1. ASSUME NEW k \in Keys PROVE ValuesOf(k)' = <<>>
    <3>1. PICK b \in Buckets : b = hash[k]
      BY DEF DictInv, TypeOK
    <3>2. Chain(b)' = <<>>
      BY DEF dictFree, Chain
    <3>3. ValuesOf(k)' = ValuesIn(Chain(b)', k)
      BY <1>1, <3>1, NextValues
    <3>4. <<>> \in Seq(DictEntry) /\ Len(<<>>) = 0
      BY EmptySeq
    <3>5. \A i \in 1 .. Len(<<>>) : <<>>[i].key # k
      BY <3>4
    <3>6. ValuesIn(<<>>, k) = <<>>
      BY <3>4, <3>5, NoValues
    <3> QED
      BY <3>2, <3>3, <3>6
  <2> QED
    BY <2>1 DEF Stored, Queues!Empty
<1>3. LookedUp' = Queues!Oldest(Stored')
  BY NextLookup
<1> QED
  BY <1>1, <1>2, <1>3 DEF Queues!Free, Stored, LookedUp

(* The dictionary keeps the promise of DictSpec: whatever keys share a     *)
(* bucket, a key gives its own values only, the oldest first; dictRemove   *)
(* takes away that one and no other, and iterations change nothing.        *)
THEOREM RefinesQueues == Spec => IsKeyQueues
<1>1. Init => Queues!Init
  BY StartsEmpty
<1>2. DictInv /\ DictInv' /\ [Next]_vars => [Queues!Next]_(Queues!vars)
  <2> SUFFICES ASSUME DictInv, DictInv', [Next]_vars
               PROVE  Queues!Next \/ UNCHANGED Queues!vars
    OBVIOUS
  <2>1. TypeOK'
    BY DEF DictInv
  <2>2. ASSUME UNCHANGED <<hash, buckets, exists>>
        PROVE  UNCHANGED Queues!vars
    <3>1. Stored' = Stored /\ LookedUp' = LookedUp
      BY <2>2, SameQueues
    <3> QED
      BY <2>2, <3>1 DEF Queues!vars, Stored, LookedUp
  <2>3. CASE dictCreate
    <3>1. Stored' = Stored /\ LookedUp' = LookedUp
      BY <2>3, SameQueues DEF dictCreate
    <3>2. Queues!Create
      BY <2>3, <3>1 DEF dictCreate, Queues!Create, Stored, LookedUp
    <3> QED
      BY <3>2 DEF Queues!Next
  <2>4. CASE \E k \in Keys : \E v \in Values : dictSet(k, v)
    <3>1. PICK k \in Keys, v \in Values : dictSet(k, v)
      BY <2>4
    <3>2. Queues!Set(k, v)
      BY <2>1, <3>1, SetAddsLast
    <3> QED
      BY <3>2 DEF Queues!Next
  <2>5. CASE \E k \in Keys : dictRemove(k)
    <3>1. PICK k \in Keys : dictRemove(k)
      BY <2>5
    <3>2. Queues!Delete(k)
      BY <2>1, <3>1, RemoveTakesFirst
    <3> QED
      BY <3>2 DEF Queues!Next
  <2>6. CASE dictFree
    <3>1. Queues!Free
      BY <2>1, <2>6, FreeEmpties
    <3> QED
      BY <3>1 DEF Queues!Next
  <2>7. CASE dictIter
    BY <2>2, <2>7 DEF dictIter, dictVars
  <2>8. CASE dictIterNext
    BY <2>2, <2>8 DEF dictIterNext, dictVars
  <2>9. CASE dictIterFree
    BY <2>2, <2>9 DEF dictIterFree, dictVars
  <2>10. CASE UNCHANGED vars
    BY <2>2, <2>10 DEF vars, dictVars
  <2> QED
    BY <2>3, <2>4, <2>5, <2>6, <2>7, <2>8, <2>9, <2>10 DEF Next
<1> QED
  BY <1>1, <1>2, DictInvariance, PTL DEF Spec, IsKeyQueues, Queues!Spec


=============================================================================
