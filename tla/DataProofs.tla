----------------------------- MODULE DataProofs -----------------------------
(***************************************************************************)
(* Facts about numbers and sequences that the proofs of several modules    *)
(* need: a set of naturals has a least element, the one that Min chooses;  *)
(* induction in a form that takes a set, so that every step of a proof by  *)
(* induction is a step about sets; what searching, inserting and removing  *)
(* make of a sequence; which values are gathered at the places of a        *)
(* sequence that pass a test, and how they change with the sequence; sums  *)
(* over a finite set, whatever the order; what is left of a number that    *)
(* wraps.                                                                  *)
(***************************************************************************)
EXTENDS SequencesExt, SequenceTheorems, FiniteSetTheorems, WellFoundedInduction, TLAPS

(* NatLessThanWellFounded with the order written out.                      *)
LEMMA LessIsWellFounded == IsWellFoundedOn({ss \in Nat \X Nat : ss[1] < ss[2]}, Nat)
BY NatLessThanWellFounded DEF OpToRel

(* Every set of naturals that is not empty has a least element.            *)
LEMMA LeastNatural ==
  ASSUME NEW S, S \subseteq Nat, S # {}
  PROVE  \E m \in S : \A n \in S : m <= n
<1> DEFINE Less == {ss \in Nat \X Nat : ss[1] < ss[2]}
<1>1. PICK m \in S : \A n \in S : ~ (<<n, m>> \in Less)
  <2> HIDE DEF Less
  <2> QED
    BY LessIsWellFounded, WFMin DEF Less
<1>2. \A n \in S : n < m => <<n, m>> \in Less
  OBVIOUS
<1>3. \A n \in S : ~ (n < m)
  BY <1>1, <1>2, Zenon
<1>4. \A n \in S : m <= n
  BY <1>3
<1> QED
  BY <1>4

(* Min chooses it.                                                         *)
LEMMA MinIsLeast ==
  ASSUME NEW S, S \subseteq Nat, S # {}
  PROVE  Min(S) \in S /\ \A n \in S : Min(S) <= n
BY LeastNatural DEF Min

(* A set that has 0 and the successor of each natural in it has them all.  *)
LEMMA NatSetInduction ==
  ASSUME NEW S, 0 \in S, \A n \in Nat : n \in S => n + 1 \in S
  PROVE  Nat \subseteq S
<1> SUFFICES ASSUME Nat \ S # {} PROVE FALSE
  OBVIOUS
<1>1. PICK m \in Nat \ S : \A n \in Nat \ S : m <= n
  BY LeastNatural
<1>2. m # 0 /\ m - 1 \in Nat /\ m - 1 \in S
  BY <1>1
<1> QED
  BY <1>1, <1>2

-----------------------------------------------------------------------------
(* Sequences.                                                              *)

(* What RemoveAt leaves of a sequence: all the others, in their order.     *)
LEMMA RemoveAtParts ==
  ASSUME NEW D, NEW s \in Seq(D), NEW n \in 1 .. Len(s)
  PROVE  /\ RemoveAt(s, n) \in Seq(D)
         /\ Len(RemoveAt(s, n)) = Len(s) - 1
         /\ \A i \in 1 .. Len(s) - 1 : RemoveAt(s, n)[i] = s[IF i < n THEN i ELSE i + 1]
<1>1. Len(s) \in Nat /\ n \in Nat /\ DOMAIN s = 1 .. Len(s) /\ 1 <= n /\ n <= Len(s)
  BY LenProperties
<1> DEFINE before == SubSeq(s, 1, n - 1)
           behind == SubSeq(s, n + 1, Len(s))
<1>2. /\ before \in Seq(D) /\ Len(before) = n - 1
      /\ \A i \in 1 .. n - 1 : before[i] = s[i]
  <2>1. \A i \in 1 .. n - 1 : s[i] \in D
    BY <1>1, ElementOfSeq
  <2>2. \A i \in 1 .. n - 1 - 1 + 1 : SubSeq(s, 1, n - 1)[i] = s[1 + i - 1]
    BY <1>1, <2>1, SubSeqProperties
  <2> QED
    BY <1>1, <2>1, <2>2, SubSeqProperties
<1>3. /\ behind \in Seq(D) /\ Len(behind) = Len(s) - n
      /\ \A i \in 1 .. Len(s) - n : behind[i] = s[n + i]
  <2>1. \A i \in n + 1 .. Len(s) : s[i] \in D
    BY <1>1, ElementOfSeq
  <2>2. n + 1 \in Int /\ Len(s) \in Int
    BY <1>1
  <2>3. /\ behind \in Seq(D)
        /\ Len(behind) = IF n + 1 <= Len(s) THEN Len(s) - (n + 1) + 1 ELSE 0
        /\ \A i \in 1 .. Len(s) - (n + 1) + 1 : behind[i] = s[n + 1 + i - 1]
    BY <2>1, <2>2, SubSeqProperties
  <2> HIDE DEF before
  <2>4. Len(s) - (n + 1) + 1 = Len(s) - n
    BY <1>1
  <2>5. (IF n + 1 <= Len(s) THEN Len(s) - n ELSE 0) = Len(s) - n
    <3>1. CASE n = Len(s)
      <4>1. ~ (n + 1 <= Len(s)) /\ Len(s) - n = 0
        BY <1>1, <3>1
      <4> QED
        BY <4>1, Zenon
    <3>2. CASE n < Len(s)
      <4>1. n + 1 <= Len(s)
        BY <1>1, <3>2
      <4> QED
        BY <4>1, Zenon
    <3>3. n = Len(s) \/ n < Len(s)
      <4>1. \A k, l \in Nat : k <= l => k = l \/ k < l
        OBVIOUS
      <4> QED
        BY <1>1, <4>1, Zenon
    <3> QED
      BY <3>1, <3>2, <3>3
  <2>6. \A i \in 1 .. Len(s) - n : n + 1 + i - 1 = n + i
    BY <1>1
  <2> HIDE DEF behind
  <2> QED
    BY <2>3, <2>4, <2>5, <2>6
<1>4. RemoveAt(s, n) = before \o behind
  BY DEF RemoveAt
<1> HIDE DEF before, behind
<1>5. /\ before \o behind \in Seq(D) /\ Len(before \o behind) = Len(s) - 1
      /\ \A i \in 1 .. Len(s) - 1 :
           (before \o behind)[i] = IF i <= n - 1 THEN before[i] ELSE behind[i - (n - 1)]
  <2>1. n - 1 + (Len(s) - n) = Len(s) - 1
    BY <1>1
  <2>2. /\ before \o behind \in Seq(D)
        /\ Len(before \o behind) = Len(before) + Len(behind)
        /\ \A i \in 1 .. Len(before) + Len(behind) :
             (before \o behind)[i] = IF i <= Len(before) THEN before[i] ELSE behind[i - Len(before)]
    BY <1>2, <1>3, ConcatProperties
  <2> QED
    BY <1>2, <1>3, <2>1, <2>2
<1>6. ASSUME NEW i \in 1 .. Len(s) - 1
      PROVE  (before \o behind)[i] = s[IF i < n THEN i ELSE i + 1]
  <2>1. CASE i < n
    BY <1>1, <1>2, <1>5, <2>1
  <2>2. CASE ~ (i < n)
    <3>1. i - (n - 1) \in 1 .. Len(s) - n /\ n + (i - (n - 1)) = i + 1
      BY <1>1, <2>2
    <3>2. behind[i - (n - 1)] = s[i + 1]
      BY <1>3, <3>1
    <3> QED
      BY <1>1, <1>5, <2>2, <3>2
  <2> QED
    BY <2>1, <2>2
<1> QED
  BY <1>4, <1>5, <1>6

(* Nothing is left that was not there.                                     *)
LEMMA RemoveAtRange ==
  ASSUME NEW D, NEW s \in Seq(D), NEW n \in 1 .. Len(s)
  PROVE  \A i \in DOMAIN RemoveAt(s, n) : \E j \in DOMAIN s : RemoveAt(s, n)[i] = s[j]
<1>1. Len(s) \in Nat /\ DOMAIN s = 1 .. Len(s)
  BY LenProperties
<1>2. DOMAIN RemoveAt(s, n) = 1 .. Len(s) - 1
  BY RemoveAtParts, LenProperties
<1>3. \A i \in 1 .. Len(s) - 1 : (IF i < n THEN i ELSE i + 1) \in DOMAIN s
  BY <1>1
<1> QED
  BY <1>2, <1>3, RemoveAtParts

(* What is appended comes last.                                            *)
LEMMA AppendRange ==
  ASSUME NEW D, NEW s \in Seq(D), NEW e \in D
  PROVE  /\ Append(s, e) \in Seq(D)
         /\ DOMAIN Append(s, e) = 1 .. Len(s) + 1
         /\ \A i \in DOMAIN Append(s, e) :
              Append(s, e)[i] = e \/ (i \in DOMAIN s /\ Append(s, e)[i] = s[i])
<1>1. Append(s, e) \in Seq(D) /\ Len(Append(s, e)) = Len(s) + 1
  BY AppendProperties
<1>2. Len(s) \in Nat /\ DOMAIN s = 1 .. Len(s) /\ DOMAIN Append(s, e) = 1 .. Len(s) + 1
  BY <1>1, LenProperties
<1>3. \A i \in 1 .. Len(s) + 1 : Append(s, e)[i] = IF i <= Len(s) THEN s[i] ELSE e
  BY <1>2, AppendProperties
<1> QED
  BY <1>1, <1>2, <1>3

(* SelectInSeq finds an index, or 0; for e it is the first one of e.       *)
LEMMA SearchFinds ==
  ASSUME NEW D, NEW s \in Seq(D), NEW e
  PROVE  LET i == SelectInSeq(s, LAMBDA v : v = e) IN
         /\ i = 0 \/ i \in 1 .. Len(s)
         /\ i \in 1 .. Len(s) => s[i] = e
         /\ i = 0 => \A j \in 1 .. Len(s) : s[j] # e
<1> DEFINE I == {i \in 1 .. Len(s) : s[i] = e}
<1>1. I \subseteq Nat /\ 0 \notin I
  BY LenProperties
<1>2. SelectInSeq(s, LAMBDA v : v = e) = IF I # {} THEN Min(I) ELSE 0
  BY DEF SelectInSeq
<1>3. I # {} => Min(I) \in I
  BY <1>1, MinIsLeast
<1> QED
  BY <1>1, <1>2, <1>3

(* RemoveFirst leaves a sequence.                                          *)
LEMMA RemoveFirstIsSeq ==
  ASSUME NEW D, NEW s \in Seq(D), NEW e
  PROVE  RemoveFirst(s, e) \in Seq(D)
<1> DEFINE i == SelectInSeq(s, LAMBDA v : v = e)
<1>1. RemoveFirst(s, e) = IF \E j \in 1 .. Len(s) : s[j] = e THEN RemoveAt(s, i) ELSE s
  BY DEF RemoveFirst
<1>2. (\E j \in 1 .. Len(s) : s[j] = e) => i \in 1 .. Len(s)
  BY SearchFinds
<1> HIDE DEF i
<1> QED
  BY <1>1, <1>2, RemoveAtParts

(* A function on 1 .. n is a sequence of length n.                         *)
LEMMA FunctionIsSeq ==
  ASSUME NEW D, NEW n \in Nat, NEW f \in [1 .. n -> D]
  PROVE  f \in Seq(D) /\ Len(f) = n /\ DOMAIN f = 1 .. n
BY SeqDef, LenProperties

(* A sequence of n elements without the one at p, and with e put in there. *)
Removed(s, n, p) == [i \in 1 .. n - 1 |-> IF i < p THEN s[i] ELSE s[i + 1]]

Inserted(s, n, p, e) ==
  [i \in 1 .. n + 1 |-> IF i < p THEN s[i] ELSE IF i = p THEN e ELSE s[i - 1]]

(* RemoveAt and InsertAt do just that.                                     *)
LEMMA RemoveAtIsRemoved ==
  ASSUME NEW D, NEW s \in Seq(D), NEW p \in 1 .. Len(s)
  PROVE  RemoveAt(s, p) = Removed(s, Len(s), p)
<1>1. Len(s) \in Nat /\ Len(s) - 1 \in Nat /\ p \in Nat
  BY LenProperties
<1>2. \A i \in 1 .. Len(s) - 1 : (IF i < p THEN s[i] ELSE s[i + 1]) \in D
  BY <1>1, ElementOfSeq
<1>3. Removed(s, Len(s), p) \in Seq(D) /\ Len(Removed(s, Len(s), p)) = Len(s) - 1
  BY <1>1, <1>2, FunctionIsSeq DEF Removed
<1>4. \A i \in 1 .. Len(s) - 1 : RemoveAt(s, p)[i] = Removed(s, Len(s), p)[i]
  BY RemoveAtParts DEF Removed
<1>5. RemoveAt(s, p) \in Seq(D) /\ Len(RemoveAt(s, p)) = Len(s) - 1
  BY RemoveAtParts
<1> QED
  BY <1>3, <1>4, <1>5, SeqEqual

LEMMA InsertAtIsInserted ==
  ASSUME NEW D, NEW s \in Seq(D), NEW p \in 1 .. Len(s) + 1, NEW e \in D
  PROVE  InsertAt(s, p, e) = Inserted(s, Len(s), p, e)
<1> DEFINE n == Len(s)
           before == SubSeq(s, 1, p - 1)
           middle == <<e>>
           behind == SubSeq(s, p, n)
<1>1. n \in Nat /\ p \in Nat /\ 1 <= p /\ p <= n + 1
  BY LenProperties
<1>2. \A i \in 1 .. n : s[i] \in D
  BY ElementOfSeq
<1>3. /\ before \in Seq(D) /\ Len(before) = p - 1
      /\ \A i \in 1 .. p - 1 : before[i] = s[i]
  <2>1. \A i \in 1 .. p - 1 : s[i] \in D
    BY <1>1, <1>2
  <2>2. 1 \in Int /\ p - 1 \in Int
    BY <1>1
  <2>3. /\ before \in Seq(D)
        /\ Len(before) = IF 1 <= p - 1 THEN p - 1 - 1 + 1 ELSE 0
        /\ \A i \in 1 .. p - 1 - 1 + 1 : before[i] = s[1 + i - 1]
    BY <2>1, <2>2, SubSeqProperties
  <2>4. (IF 1 <= p - 1 THEN p - 1 - 1 + 1 ELSE 0) = p - 1
    BY <1>1
  <2>5. \A i \in 1 .. p - 1 : 1 + i - 1 = i /\ i \in 1 .. p - 1 - 1 + 1
    BY <1>1
  <2> HIDE DEF before
  <2> QED
    BY <2>3, <2>4, <2>5
<1>4. /\ behind \in Seq(D) /\ Len(behind) = n - p + 1
      /\ \A i \in 1 .. n - p + 1 : behind[i] = s[p + i - 1]
  <2>1. \A i \in p .. n : s[i] \in D
    BY <1>1, <1>2
  <2>2. p \in Int /\ n \in Int
    BY <1>1
  <2>3. /\ behind \in Seq(D)
        /\ Len(behind) = IF p <= n THEN n - p + 1 ELSE 0
        /\ \A i \in 1 .. n - p + 1 : behind[i] = s[p + i - 1]
    BY <2>1, <2>2, SubSeqProperties
  <2>4. (IF p <= n THEN n - p + 1 ELSE 0) = n - p + 1
    <3>1. \A k, l \in Nat : l <= k + 1 => (IF l <= k THEN k - l + 1 ELSE 0) = k - l + 1
      OBVIOUS
    <3> HIDE DEF n
    <3> QED
      BY <1>1, <3>1
  <2> HIDE DEF behind, n
  <2> QED
    BY <2>3, <2>4
<1>5. middle \in Seq(D) /\ Len(middle) = 1 /\ middle[1] = e
  OBVIOUS
<1>6. InsertAt(s, p, e) = (before \o middle) \o behind
  BY DEF InsertAt
<1> DEFINE front == before \o middle
<1> HIDE DEF before, middle, behind
<1>7. /\ front \in Seq(D) /\ Len(front) = p
      /\ \A i \in 1 .. p : front[i] = IF i <= p - 1 THEN before[i] ELSE middle[i - (p - 1)]
  <2>1. p - 1 + 1 = p
    BY <1>1
  <2>2. /\ front \in Seq(D) /\ Len(front) = Len(before) + Len(middle)
        /\ \A i \in 1 .. Len(before) + Len(middle) :
             front[i] = IF i <= Len(before) THEN before[i] ELSE middle[i - Len(before)]
    BY <1>3, <1>5, ConcatProperties
  <2> HIDE DEF front
  <2> QED
    BY <1>3, <1>5, <2>1, <2>2
<1>8. \A i \in 1 .. p : front[i] = IF i < p THEN s[i] ELSE e
  <2> SUFFICES ASSUME NEW i \in 1 .. p PROVE front[i] = IF i < p THEN s[i] ELSE e
    OBVIOUS
  <2> HIDE DEF front
  <2>1. CASE i < p
    BY <1>1, <1>3, <1>7, <2>1
  <2>2. CASE i = p
    <3>1. ~ (i <= p - 1) /\ i - (p - 1) = 1 /\ ~ (i < p)
      BY <1>1, <2>2
    <3> QED
      BY <1>5, <1>7, <3>1
  <2>3. i < p \/ i = p
    BY <1>1
  <2> QED
    BY <2>1, <2>2, <2>3
<1> HIDE DEF front
<1>9. /\ front \o behind \in Seq(D) /\ Len(front \o behind) = n + 1
      /\ \A i \in 1 .. n + 1 :
           (front \o behind)[i] = IF i <= p THEN front[i] ELSE behind[i - p]
  <2>1. p + (n - p + 1) = n + 1
    BY <1>1
  <2>2. /\ front \o behind \in Seq(D) /\ Len(front \o behind) = Len(front) + Len(behind)
        /\ \A i \in 1 .. Len(front) + Len(behind) :
             (front \o behind)[i] = IF i <= Len(front) THEN front[i] ELSE behind[i - Len(front)]
    BY <1>4, <1>7, ConcatProperties
  <2> HIDE DEF n
  <2> QED
    BY <1>4, <1>7, <2>1, <2>2
<1>10. \A i \in 1 .. n + 1 : (front \o behind)[i] = Inserted(s, n, p, e)[i]
  <2> SUFFICES ASSUME NEW i \in 1 .. n + 1 PROVE (front \o behind)[i] = Inserted(s, n, p, e)[i]
    OBVIOUS
  <2>1. Inserted(s, n, p, e)[i] = IF i < p THEN s[i] ELSE IF i = p THEN e ELSE s[i - 1]
    BY DEF Inserted
  <2> HIDE DEF n
  <2>2. CASE i <= p
    <3>1. i \in 1 .. p /\ (i < p \/ i = p)
      BY <1>1, <2>2
    <3> QED
      BY <1>8, <1>9, <2>1, <2>2, <3>1
  <2>3. CASE ~ (i <= p)
    <3>1. i - p \in 1 .. n - p + 1 /\ p + (i - p) - 1 = i - 1 /\ ~ (i < p) /\ i # p
      BY <1>1, <2>3
    <3>2. behind[i - p] = s[i - 1]
      BY <1>4, <3>1
    <3> QED
      BY <1>9, <2>1, <2>3, <3>1, <3>2
  <2> QED
    BY <2>2, <2>3
<1>11. Inserted(s, n, p, e) \in Seq(D) /\ Len(Inserted(s, n, p, e)) = n + 1
  <2>1. \A i \in 1 .. n + 1 : (IF i < p THEN s[i] ELSE IF i = p THEN e ELSE s[i - 1]) \in D
    <3> SUFFICES ASSUME NEW i \in 1 .. n + 1
                 PROVE  (IF i < p THEN s[i] ELSE IF i = p THEN e ELSE s[i - 1]) \in D
      OBVIOUS
    <3> HIDE DEF n
    <3>1. i < p => i \in 1 .. n
      BY <1>1
    <3>2. ~ (i < p) /\ i # p => i - 1 \in 1 .. n
      BY <1>1
    <3> QED
      BY <1>2, <3>1, <3>2
  <2>2. n + 1 \in Nat
    BY <1>1
  <2> HIDE DEF n
  <2> QED
    BY <2>1, <2>2, FunctionIsSeq DEF Inserted
<1> HIDE DEF n
<1>12. front \o behind = Inserted(s, n, p, e)
  BY <1>9, <1>10, <1>11, SeqEqual
<1> QED
  BY <1>6, <1>12 DEF n, front

-----------------------------------------------------------------------------
(* Sums over finite sets.                                                  *)

(* The sum of f over a set, and what a function from sets to sums obeys.   *)
SumOf(f, T) == MapThenSumSet(LAMBDA x : f[x], T)

Chosen(s) == CHOOSE x \in s : TRUE

Sums(f, D, h) ==
  \A s \in D : h[s] = IF s = {} THEN 0 ELSE f[Chosen(s)] + h[s \ {Chosen(s)}]

LEMMA SumIsIterated ==
  ASSUME NEW f, NEW T, IsFiniteSet(T)
  PROVE  \E h : Sums(f, SUBSET T, h) /\ SumOf(f, T) = h[T]
<1> DEFINE F(h) == [s \in SUBSET T |->
                      IF s = {} THEN 0 ELSE f[Chosen(s)] + h[s \ {Chosen(s)}]]
           iter == CHOOSE h : h = F(h)
           Small(n) == {s \in SUBSET T : Cardinality(s) <= n}
           S == {n \in Nat : \E h : Sums(f, Small(n), h)}
<1>1. SumOf(f, T) = iter[T]
  BY DEF SumOf, MapThenSumSet, MapThenFoldSet, Chosen
<1>2. \A s \in SUBSET T : IsFiniteSet(s) /\ Cardinality(s) \in Nat
  BY FS_Subset, FS_CardinalityType
<1>3. ASSUME NEW s \in SUBSET T, s # {}
      PROVE  /\ Chosen(s) \in s /\ s \ {Chosen(s)} \in SUBSET T
             /\ Cardinality(s \ {Chosen(s)}) = Cardinality(s) - 1
  <2>1. Chosen(s) \in s
    BY <1>3 DEF Chosen
  <2> QED
    BY <1>2, <2>1, FS_RemoveElement
<1>4. 0 \in S
  <2>1. \A s \in Small(0) : s = {}
    BY <1>2, FS_EmptySet
  <2>2. Sums(f, Small(0), [s \in SUBSET T |-> 0])
    BY <2>1 DEF Sums
  <2> QED
    BY <2>2
<1>5. ASSUME NEW n \in Nat, n \in S
      PROVE  n + 1 \in S
  <2>1. PICK h : Sums(f, Small(n), h)
    BY <1>5
  <2> DEFINE g == [s \in SUBSET T |->
                     IF s = {} THEN 0 ELSE f[Chosen(s)] + h[s \ {Chosen(s)}]]
  <2>2. ASSUME NEW s \in Small(n + 1), s # {}
        PROVE  g[s \ {Chosen(s)}] = h[s \ {Chosen(s)}]
    <3> DEFINE r == s \ {Chosen(s)}
    <3>1. r \in Small(n)
      BY <1>2, <1>3, <2>2
    <3>2. h[r] = IF r = {} THEN 0 ELSE f[Chosen(r)] + h[r \ {Chosen(r)}]
      BY <2>1, <3>1 DEF Sums
    <3> QED
      BY <3>1, <3>2
  <2>3. Sums(f, Small(n + 1), g)
    BY <2>2 DEF Sums
  <2> HIDE DEF g, Small
  <2> QED
    BY <2>3
<1>6. Cardinality(T) \in S
  <2> HIDE DEF S
  <2> QED
    BY <1>2, <1>4, <1>5, NatSetInduction
<1>7. \A s \in SUBSET T : s \in Small(Cardinality(T))
  BY FS_Subset
<1>8. PICK h : Sums(f, SUBSET T, h)
  BY <1>6, <1>7 DEF Sums
<1>9. iter = F(iter)
  <2> DEFINE k == [s \in SUBSET T |-> h[s]]
  <2>1. k = F(k)
    <3>1. ASSUME NEW s \in SUBSET T
          PROVE  k[s] = F(k)[s]
      BY <1>3, <1>8 DEF Sums
    <3> QED
      BY <3>1
  <2> QED
    BY <2>1
<1>10. Sums(f, SUBSET T, iter)
  <2> HIDE DEF iter
  <2> QED
    BY <1>9 DEF Sums
<1> QED
  BY <1>1, <1>10

(* Every element can be the first.                                         *)
TakesAny(f, T, h) ==
  \A s \in SUBSET T : h[s] \in Int /\ \A y \in s : h[s] = f[y] + h[s \ {y}]

LEMMA SumsTakeAny ==
  ASSUME NEW f, NEW T, IsFiniteSet(T), \A x \in T : f[x] \in Int,
         NEW h, Sums(f, SUBSET T, h)
  PROVE  TakesAny(f, T, h)
<1> DEFINE Good(s) == h[s] \in Int /\ \A y \in s : h[s] = f[y] + h[s \ {y}]
           S == {n \in Nat : \A s \in SUBSET T : Cardinality(s) <= n => Good(s)}
<1>1. \A s \in SUBSET T : IsFiniteSet(s) /\ Cardinality(s) \in Nat
  BY FS_Subset, FS_CardinalityType
<1>2. ASSUME NEW s \in SUBSET T, NEW x \in s
      PROVE  s \ {x} \in SUBSET T /\ Cardinality(s \ {x}) = Cardinality(s) - 1
  BY <1>1, FS_RemoveElement
<1>3. 0 \in S
  <2>1. ASSUME NEW s \in SUBSET T, Cardinality(s) <= 0
        PROVE  Good(s)
    <3>1. s = {}
      BY <1>1, <2>1, FS_EmptySet
    <3>2. h[s] = 0
      BY <3>1 DEF Sums
    <3> QED
      BY <3>1, <3>2
  <2> QED
    BY <2>1
<1>4. ASSUME NEW n \in Nat, n \in S
      PROVE  n + 1 \in S
  <2> SUFFICES ASSUME NEW s \in SUBSET T, Cardinality(s) <= n + 1
               PROVE  Good(s)
    OBVIOUS
  <2>1. CASE s = {}
    <3>1. Cardinality(s) <= 0
      BY <2>1, FS_EmptySet
    <3> QED
      BY <1>3, <3>1
  <2>2. CASE s # {}
    <3> DEFINE x == Chosen(s)
    <3>1. x \in s /\ h[s] = f[x] + h[s \ {x}]
      BY <2>2 DEF Sums, Chosen
    <3> HIDE DEF x
    <3>2. \A y \in s : s \ {y} \in SUBSET T /\ Good(s \ {y})
      <4>1. \A y \in s : s \ {y} \in SUBSET T /\ Cardinality(s \ {y}) <= n
        BY <1>1, <1>2
      <4> QED
        BY <1>4, <4>1
    <3>3. h[s] \in Int
      <4>1. f[x] \in Int /\ h[s \ {x}] \in Int
        BY <3>1, <3>2
      <4> QED
        BY <3>1, <4>1
    <3>4. ASSUME NEW y \in s
          PROVE  h[s] = f[y] + h[s \ {y}]
      <4>1. CASE y = x
        BY <3>1, <4>1
      <4>2. CASE y # x
        <5>1. /\ h[s \ {x}] = f[y] + h[(s \ {x}) \ {y}]
              /\ h[s \ {y}] = f[x] + h[(s \ {y}) \ {x}]
          BY <3>1, <3>2, <4>2
        <5>2. (s \ {x}) \ {y} = (s \ {y}) \ {x}
          OBVIOUS
        <5>3. f[x] \in Int /\ f[y] \in Int
          BY <3>1
        <5>4. h[(s \ {y}) \ {x}] \in Int
          <6>1. (s \ {y}) \ {x} \in SUBSET T
            OBVIOUS
          <6>2. Cardinality((s \ {y}) \ {x}) <= n
            <7>1. x \in s \ {y}
              BY <3>1, <4>2
            <7>2. Cardinality((s \ {y}) \ {x}) = Cardinality(s \ {y}) - 1
              BY <3>2, <7>1, <1>2
            <7>3. Cardinality(s \ {y}) = Cardinality(s) - 1
              BY <1>2
            <7> QED
              BY <1>1, <7>2, <7>3
          <6> QED
            BY <1>4, <6>1, <6>2
        <5>5. PICK z : z = h[(s \ {y}) \ {x}]
          OBVIOUS
        <5>6. h[s] = f[x] + (f[y] + z) /\ h[s \ {y}] = f[x] + z /\ z \in Int
          BY <3>1, <5>1, <5>2, <5>4, <5>5
        <5>7. f[x] + (f[y] + z) = f[y] + (f[x] + z)
          BY <5>3, <5>6
        <5> QED
          BY <5>6, <5>7
      <4> QED
        BY <4>1, <4>2
    <3> QED
      BY <3>3, <3>4
  <2> QED
    BY <2>1, <2>2
<1>5. Nat \subseteq S
  <2> HIDE DEF S
  <2> QED
    BY <1>3, <1>4, NatSetInduction
<1> QED
  <2>1. ASSUME NEW s \in SUBSET T PROVE Good(s)
    BY <1>1, <1>5
  <2> QED
    BY <2>1 DEF TakesAny

(* Two functions that agree on a set have the same sums of its subsets.    *)
LEMMA SumsAgree ==
  ASSUME NEW T, IsFiniteSet(T),
         NEW f, NEW h, Sums(f, SUBSET T, h),
         NEW g, NEW k, Sums(g, SUBSET T, k),
         \A x \in T : f[x] = g[x]
  PROVE  h[T] = k[T]
<1> DEFINE S == {n \in Nat : \A s \in SUBSET T : Cardinality(s) <= n => h[s] = k[s]}
<1>1. \A s \in SUBSET T : IsFiniteSet(s) /\ Cardinality(s) \in Nat
  BY FS_Subset, FS_CardinalityType
<1>2. ASSUME NEW s \in SUBSET T, s # {}
      PROVE  /\ Chosen(s) \in s /\ s \ {Chosen(s)} \in SUBSET T
             /\ Cardinality(s \ {Chosen(s)}) = Cardinality(s) - 1
  <2>1. Chosen(s) \in s
    BY <1>2 DEF Chosen
  <2> QED
    BY <1>1, <2>1, FS_RemoveElement
<1>3. 0 \in S
  <2>1. ASSUME NEW s \in SUBSET T, Cardinality(s) <= 0
        PROVE  h[s] = k[s]
    <3>1. s = {}
      BY <1>1, <2>1, FS_EmptySet
    <3> QED
      BY <3>1 DEF Sums
  <2> QED
    BY <2>1
<1>4. ASSUME NEW n \in Nat, n \in S
      PROVE  n + 1 \in S
  <2> SUFFICES ASSUME NEW s \in SUBSET T, Cardinality(s) <= n + 1
               PROVE  h[s] = k[s]
    OBVIOUS
  <2>2. CASE s = {}
    BY <2>2 DEF Sums
  <2>3. CASE s # {}
    <3> DEFINE x == Chosen(s)
               r == s \ {x}
    <3>1. x \in s /\ r \in SUBSET T /\ Cardinality(r) <= n
      BY <1>1, <1>2, <2>3
    <3>2. h[s] = f[x] + h[r] /\ k[s] = g[x] + k[r]
      BY <2>3 DEF Sums
    <3>3. h[r] = k[r] /\ f[x] = g[x]
      BY <1>4, <3>1
    <3> QED
      BY <3>2, <3>3
  <2> QED
    BY <2>2, <2>3
<1>5. Nat \subseteq S
  <2> HIDE DEF S
  <2> QED
    BY <1>3, <1>4, NatSetInduction
<1> QED
  BY <1>1, <1>5

(* The sum over a set, element by element.                                 *)
LEMMA SumOfEmpty ==
  ASSUME NEW f
  PROVE  SumOf(f, {}) = 0
<1>1. PICK h : Sums(f, SUBSET {}, h) /\ SumOf(f, {}) = h[{}]
  BY SumIsIterated, FS_EmptySet
<1> QED
  BY <1>1 DEF Sums

LEMMA SumOfAgrees ==
  ASSUME NEW f, NEW g, NEW T, IsFiniteSet(T), \A x \in T : f[x] = g[x]
  PROVE  SumOf(f, T) = SumOf(g, T)
<1>1. PICK h : Sums(f, SUBSET T, h) /\ SumOf(f, T) = h[T]
  BY SumIsIterated
<1>2. PICK k : Sums(g, SUBSET T, k) /\ SumOf(g, T) = k[T]
  BY SumIsIterated
<1>3. h[T] = k[T]
  BY <1>1, <1>2, SumsAgree
<1> QED
  BY <1>1, <1>2, <1>3

LEMMA SumIsInteger ==
  ASSUME NEW f, NEW T, IsFiniteSet(T), \A x \in T : f[x] \in Int
  PROVE  SumOf(f, T) \in Int
<1>1. PICK h : Sums(f, SUBSET T, h) /\ SumOf(f, T) = h[T]
  BY SumIsIterated
<1>2. TakesAny(f, T, h)
  BY <1>1, SumsTakeAny
<1>3. T \in SUBSET T
  OBVIOUS
<1> QED
  BY <1>1, <1>2, <1>3 DEF TakesAny

LEMMA SumOfMore ==
  ASSUME NEW f, NEW T, IsFiniteSet(T), NEW e, e \notin T,
         \A x \in T \cup {e} : f[x] \in Int
  PROVE  /\ SumOf(f, T) \in Int
         /\ SumOf(f, T \cup {e}) = f[e] + SumOf(f, T)
<1> DEFINE U == T \cup {e}
<1>1. IsFiniteSet(U)
  BY FS_AddElement
<1>2. PICK h : Sums(f, SUBSET U, h) /\ SumOf(f, U) = h[U]
  BY <1>1, SumIsIterated
<1>3. PICK k : Sums(f, SUBSET T, k) /\ SumOf(f, T) = k[T]
  BY SumIsIterated
<1>4. h[T] = k[T]
  <2>1. Sums(f, SUBSET T, h)
    BY <1>2 DEF Sums
  <2> QED
    BY <1>3, <2>1, SumsAgree
<1>5. \A x \in U : f[x] \in Int
  OBVIOUS
<1>6. TakesAny(f, U, h)
  <2> HIDE DEF U
  <2> QED
    BY <1>1, <1>2, <1>5, SumsTakeAny
<1>7. U \in SUBSET U /\ T \in SUBSET U /\ e \in U /\ U \ {e} = T
  OBVIOUS
<1> HIDE DEF U
<1>8. h[U] = f[e] + h[T] /\ h[T] \in Int
  BY <1>6, <1>7 DEF TakesAny
<1> QED
  BY <1>2, <1>3, <1>4, <1>8 DEF U

(* A sum of numbers that are at most m.                                    *)
LEMMA SumIsBounded ==
  ASSUME NEW f, NEW T, IsFiniteSet(T), NEW m \in Nat, \A x \in T : f[x] \in 0 .. m
  PROVE  SumOf(f, T) \in 0 .. Cardinality(T) * m
<1> DEFINE S == {n \in Nat : \A s \in SUBSET T : Cardinality(s) = n => SumOf(f, s) \in 0 .. n * m}
<1>1. \A s \in SUBSET T : IsFiniteSet(s) /\ Cardinality(s) \in Nat
  BY FS_Subset, FS_CardinalityType
<1>2. 0 \in S
  <2>1. \A s \in SUBSET T : Cardinality(s) = 0 => s = {}
    BY <1>1, FS_EmptySet
  <2>2. SumOf(f, {}) \in 0 .. 0 * m
    BY SumOfEmpty
  <2> QED
    BY <2>1, <2>2
<1>3. ASSUME NEW n \in Nat, n \in S
      PROVE  n + 1 \in S
  <2>1. ASSUME NEW s \in SUBSET T, Cardinality(s) = n + 1
        PROVE  SumOf(f, s) \in 0 .. (n + 1) * m
    <3>1. PICK e : e \in s
      BY <1>1, <2>1, FS_EmptySet
    <3>2. PICK r : r = s \ {e}
      OBVIOUS
    <3>3. /\ r \in SUBSET T /\ IsFiniteSet(r) /\ Cardinality(r) = n
          /\ e \notin r /\ s = r \cup {e}
      <4>1. IsFiniteSet(s)
        BY <1>1
      <4>2. IsFiniteSet(r) /\ Cardinality(r) = Cardinality(s) - 1
        BY <3>1, <3>2, <4>1, FS_RemoveElement
      <4>3. r \in SUBSET T /\ e \notin r /\ s = r \cup {e}
        BY <3>1, <3>2
      <4> QED
        BY <2>1, <4>2, <4>3
    <3>4. SumOf(f, r) \in 0 .. n * m
      BY <1>3, <3>3
    <3>5. SumOf(f, r \cup {e}) = f[e] + SumOf(f, r)
      <4>1. \A x \in r \cup {e} : f[x] \in Int
        BY <3>1, <3>3
      <4> QED
        BY <3>3, <4>1, SumOfMore
    <3>6. f[e] \in 0 .. m
      BY <3>1
    <3>7. PICK nm \in Int : nm = n * m
      OBVIOUS
    <3>8. (n + 1) * m = nm + m
      BY <3>7
    <3> QED
      BY <3>3, <3>4, <3>5, <3>6, <3>7, <3>8
  <2> QED
    BY <2>1
<1>4. S = Nat
  <2> HIDE DEF S
  <2>1. S \subseteq Nat
    BY DEF S
  <2> QED
    BY <1>2, <1>3, <2>1, NatSetInduction
<1> QED
  BY <1>1, <1>4

-----------------------------------------------------------------------------
(* Remainders.                                                             *)

(* A remainder is in range, and some multiples away.                       *)
LEMMA ModBasics ==
  ASSUME NEW w \in Nat \ {0}, NEW a \in Int
  PROVE  /\ a % w \in 0 .. w - 1
         /\ \E k \in Int : a % w = a + k * w
<1>1. a % w \in 0 .. w - 1
  OBVIOUS
<1>2. a \div w \in Int
  OBVIOUS
<1>3. a % w = a + (- (a \div w)) * w
  OBVIOUS
<1>4. PICK k : k = - (a \div w)
  OBVIOUS
<1>5. k \in Int /\ a % w = a + k * w
  BY <1>2, <1>3, <1>4
<1> QED
  BY <1>1, <1>5

(* A multiple closer to 0 than one of them is 0.                           *)
LEMMA MultipleIsFar ==
  ASSUME NEW w \in Nat \ {0}, NEW m \in Int, - w < m * w, m * w < w
  PROVE  m = 0
<1>1. m >= 1 => m * w >= w
  OBVIOUS
<1>2. m <= -1 => m * w <= - w
  OBVIOUS
<1> QED
  BY <1>1, <1>2

(* Multiples make no difference.                                           *)
LEMMA ModShift ==
  ASSUME NEW w \in Nat \ {0}, NEW a \in Int, NEW k \in Int
  PROVE  (a + k * w) % w = a % w
<1> DEFINE b == a + k * w
<1>1. b \in Int /\ k * w \in Int
  OBVIOUS
<1>2. PICK j \in Int : a % w = a + j * w
  BY ModBasics
<1>3. b % w \in 0 .. w - 1 /\ \E i \in Int : b % w = b + i * w
  <2> HIDE DEF b
  <2> QED
    BY <1>1, ModBasics
<1>4. PICK i \in Int : b % w = b + i * w
  BY <1>3
<1>5. PICK m : m = (k + i) - j
  OBVIOUS
<1>6. m \in Int /\ m * w = (k * w + i * w) - j * w
  BY <1>5
<1>7. (b % w) - (a % w) = m * w /\ a % w \in 0 .. w - 1
  <2>1. j * w \in Int /\ i * w \in Int /\ k * w \in Int
    OBVIOUS
  <2>2. PICK jw, iw, kw : jw = j * w /\ iw = i * w /\ kw = k * w
    OBVIOUS
  <2>3. a % w = a + jw /\ b = a + kw /\ b % w = b + iw /\ m * w = (kw + iw) - jw
    BY <1>2, <1>4, <1>6, <2>2
  <2>4. jw \in Int /\ iw \in Int /\ kw \in Int
    BY <2>1, <2>2
  <2>5. ((a + kw) + iw) - (a + jw) = (kw + iw) - jw
    BY <2>4
  <2>6. a % w \in 0 .. w - 1
    BY ModBasics
  <2> QED
    BY <2>3, <2>5, <2>6
<1>8. m = 0
  <2>1. - w < m * w /\ m * w < w
    <3> HIDE DEF b
    <3> QED
     BY <1>3, <1>7
  <2> QED
    BY <1>6, <2>1, MultipleIsFar
<1>9. m * w = 0
  BY <1>8
<1> HIDE DEF b
<1> QED
  BY <1>3, <1>7, <1>9 DEF b

-----------------------------------------------------------------------------
(* Sequences of sequences.                                                 *)

(* f[i] is the first i of n sequences, one behind the other.               *)
Joins(s, n, f) == f[0] = <<>> /\ \A i \in 1 .. n : f[i] = f[i - 1] \o s[i]

LEMMA JoinsExist ==
  ASSUME NEW n \in Nat, NEW s
  PROVE  \E f : Joins(s, n, f)
<1> DEFINE S == {m \in Nat : \E f : Joins(s, m, f)}
<1>1. 0 \in S
  <2>1. Joins(s, 0, [i \in {0} |-> <<>>])
    BY DEF Joins
  <2> QED
    BY <2>1
<1>2. ASSUME NEW m \in Nat, m \in S
      PROVE  m + 1 \in S
  <2>1. PICK f : Joins(s, m, f)
    BY <1>2
  <2>a. PICK more : more = f[m] \o s[m + 1]
    OBVIOUS
  <2> DEFINE g == [i \in 0 .. m + 1 |-> IF i <= m THEN f[i] ELSE more]
  <2>2. f[0] = <<>> /\ \A i \in 1 .. m : f[i] = f[i - 1] \o s[i]
    BY <2>1 DEF Joins
  <2>3. ASSUME NEW i \in 1 .. m + 1
        PROVE  g[i] = g[i - 1] \o s[i]
    <3>1. CASE i <= m
      <4>1. i \in 1 .. m /\ g[i] = f[i] /\ g[i - 1] = f[i - 1]
        BY <3>1
      <4> HIDE DEF g
      <4> QED
        BY <2>2, <4>1
    <3>2. CASE i = m + 1
      <4>1. g[m + 1] = more /\ g[m] = f[m] /\ i - 1 = m
        BY <3>2
      <4> HIDE DEF g
      <4>2. g[i] = more /\ g[i - 1] = f[m] /\ s[i] = s[m + 1]
        BY <3>2, <4>1
      <4> QED
        BY <2>a, <4>2, Zenon
    <3> QED
      BY <3>1, <3>2
  <2>4. g[0] = <<>>
    BY <2>2
  <2> HIDE DEF g
  <2>5. Joins(s, m + 1, g)
    BY <2>3, <2>4 DEF Joins
  <2> QED
    BY <2>5
<1>3. n \in S
  <2> HIDE DEF S
  <2> QED
    BY <1>1, <1>2, NatSetInduction
<1> QED
  BY <1>3

LEMMA JoinsAreSeqs ==
  ASSUME NEW D, NEW n \in Nat, NEW s \in [1 .. n -> Seq(D)], NEW f, Joins(s, n, f),
         NEW i \in 0 .. n
  PROVE  f[i] \in Seq(D)
<1> DEFINE S == {m \in Nat : m <= n => f[m] \in Seq(D)}
<1>1. 0 \in S
  BY EmptySeq DEF Joins
<1>2. ASSUME NEW m \in Nat, m \in S
      PROVE  m + 1 \in S
  <2>1. CASE m + 1 <= n
    <3>1. m + 1 \in 1 .. n /\ (m + 1) - 1 = m /\ f[m] \in Seq(D)
      BY <1>2, <2>1
    <3>2. f[m + 1] = f[m] \o s[m + 1] /\ s[m + 1] \in Seq(D)
      BY <3>1 DEF Joins
    <3>3. f[m + 1] \in Seq(D)
      BY <3>1, <3>2, ConcatProperties
    <3> QED
      BY <3>3
  <2>2. CASE ~ (m + 1 <= n)
    BY <2>2
  <2> QED
    BY <2>1, <2>2
<1>3. i \in S
  <2> HIDE DEF S
  <2>1. i \in Nat
    OBVIOUS
  <2> QED
    BY <1>1, <1>2, <2>1, NatSetInduction
<1> QED
  BY <1>3

(* FlattenSeq is where the joining ends.                                   *)
LEMMA FlattenJoins ==
  ASSUME NEW D, NEW n \in Nat, NEW s \in [1 .. n -> Seq(D)], NEW f, Joins(s, n, f)
  PROVE  FlattenSeq(s) = f[n]
<1>1. s \in Seq(Seq(D)) /\ Len(s) = n
  BY FunctionIsSeq
<1>2. CASE n = 0
  <2>1. s = <<>>
    BY <1>1, <1>2, EmptySeq
  <2> QED
    BY <1>1, <1>2, <2>1 DEF FlattenSeq, Joins
<1>3. CASE n # 0
  <2> DEFINE F(h) == [i \in 1 .. n |-> IF i = 1 THEN s[i] ELSE h[i - 1] \o s[i]]
             at == CHOOSE h : h = F(h)
             g == [i \in 1 .. n |-> f[i]]
  <2>1. FlattenSeq(s) = at[n]
    BY <1>1, <1>3 DEF FlattenSeq
  <2>2. f[1] = s[1]
    <3>1. 1 \in 1 .. n /\ s[1] \in Seq(D)
      BY <1>3
    <3>2. f[1] = <<>> \o s[1]
      <4>1. f[0] = <<>> /\ f[1] = f[1 - 1] \o s[1] /\ 1 - 1 = 0
        BY <3>1 DEF Joins
      <4> QED
        BY <4>1
    <3> QED
      BY <3>1, <3>2, ConcatEmptySeq
  <2>3. g = F(g)
    <3>1. ASSUME NEW i \in 1 .. n
          PROVE  f[i] = IF i = 1 THEN s[i] ELSE g[i - 1] \o s[i]
      <4>1. i # 1 => i - 1 \in 1 .. n
        OBVIOUS
      <4> QED
        BY <2>2, <4>1 DEF Joins
    <3> QED
      BY <3>1
  <2>4. at = F(at)
    BY <2>3
  <2>5. \A i \in 1 .. n : at[i] = IF i = 1 THEN s[i] ELSE at[i - 1] \o s[i]
    <3> HIDE DEF at
    <3> QED
      BY <2>4
  <2> HIDE DEF at
  <2> DEFINE S == {m \in Nat : m + 1 <= n => at[m + 1] = f[m + 1]}
  <2>6. 0 \in S
    BY <2>2, <2>5
  <2>7. ASSUME NEW m \in Nat, m \in S
        PROVE  (m + 1) \in S
    <3>1. CASE (m + 1) + 1 <= n
      <4>1. PICK k : k = (m + 1) + 1
        OBVIOUS
      <4>2. k \in 1 .. n /\ k # 1 /\ k - 1 = m + 1 /\ at[m + 1] = f[m + 1]
        BY <2>7, <3>1, <4>1
      <4>3. at[k] = at[k - 1] \o s[k] /\ f[k] = f[k - 1] \o s[k]
        BY <2>5, <4>2 DEF Joins
      <4>4. at[(m + 1) + 1] = f[(m + 1) + 1]
        BY <4>1, <4>2, <4>3
      <4> QED
        BY <4>4
    <3>2. CASE ~ ((m + 1) + 1 <= n)
      BY <3>2
    <3> QED
      BY <3>1, <3>2
  <2>8. n - 1 \in S
    <3> HIDE DEF S
    <3>1. n - 1 \in Nat
      BY <1>3
    <3> QED
      BY <2>6, <2>7, <3>1, NatSetInduction
  <2>9. at[n] = f[n]
    BY <2>8
  <2> QED
    BY <2>1, <2>9
<1> QED
  BY <1>2, <1>3

(* What the i-th sequence adds.                                            *)
NextJoined(s, f, i) ==
  /\ Len(f[i - 1]) \in Nat /\ Len(s[i]) \in Nat /\ Len(f[i]) = Len(f[i - 1]) + Len(s[i])
  /\ \A j \in 1 .. Len(f[i - 1]) : f[i][j] = f[i - 1][j]
  /\ \A j \in 1 .. Len(s[i]) : f[i][Len(f[i - 1]) + j] = s[i][j]

LEMMA JoinsNext ==
  ASSUME NEW D, NEW n \in Nat, NEW s \in [1 .. n -> Seq(D)], NEW f, Joins(s, n, f),
         NEW i \in 1 .. n
  PROVE  NextJoined(s, f, i)
<1>1. PICK a, b : a = f[i - 1] /\ b = s[i]
  OBVIOUS
<1>2. a \in Seq(D)
  <2>1. i - 1 \in 0 .. n
    OBVIOUS
  <2> QED
    BY <1>1, <2>1, JoinsAreSeqs
<1>3. b \in Seq(D)
  BY <1>1
<1>4. f[i] = a \o b
  <2>1. f[i] = f[i - 1] \o s[i]
    BY DEF Joins
  <2> QED
    BY <1>1, <2>1, Zenon
<1>5. /\ Len(a \o b) = Len(a) + Len(b)
      /\ \A j \in 1 .. Len(a) + Len(b) :
           (a \o b)[j] = IF j <= Len(a) THEN a[j] ELSE b[j - Len(a)]
  BY <1>2, <1>3, ConcatProperties
<1>6. PICK c : c = a \o b
  OBVIOUS
<1>7. /\ f[i] = c /\ Len(c) = Len(a) + Len(b)
      /\ \A j \in 1 .. Len(a) + Len(b) : c[j] = IF j <= Len(a) THEN a[j] ELSE b[j - Len(a)]
  BY <1>4, <1>5, <1>6, Zenon
<1>8. Len(a) \in Nat /\ Len(b) \in Nat
  BY <1>2, <1>3, LenProperties
<1>9. \A j \in 1 .. Len(a) : c[j] = a[j]
  BY <1>7, <1>8
<1>10. \A j \in 1 .. Len(b) : c[Len(a) + j] = b[j]
  <2> SUFFICES ASSUME NEW j \in 1 .. Len(b)
               PROVE  c[Len(a) + j] = b[j]
    OBVIOUS
  <2>1. PICK p : p = Len(a) + j
    OBVIOUS
  <2>2. p \in 1 .. Len(a) + Len(b) /\ ~ (p <= Len(a)) /\ p - Len(a) = j
    BY <1>8, <2>1
  <2> QED
    BY <1>7, <2>1, <2>2
<1> QED
  BY <1>1, <1>7, <1>8, <1>9, <1>10 DEF NextJoined

(* What is joined stays where it is.                                       *)
StaysIn(f, i, k) ==
  /\ Len(f[i]) \in Nat /\ Len(f[k]) \in Nat /\ Len(f[i]) <= Len(f[k])
  /\ \A j \in 1 .. Len(f[i]) : f[k][j] = f[i][j]

LEMMA JoinsGrow ==
  ASSUME NEW D, NEW n \in Nat, NEW s \in [1 .. n -> Seq(D)], NEW f, Joins(s, n, f),
         NEW i \in 0 .. n, NEW k \in i .. n
  PROVE  StaysIn(f, i, k)
<1> DEFINE Kept(m) == StaysIn(f, i, m)
           S == {m \in Nat : i + m <= n => Kept(i + m)}
<1>1. Len(f[i]) \in Nat
  BY JoinsAreSeqs, LenProperties
<1>2. 0 \in S
  BY <1>1 DEF StaysIn
<1>3. ASSUME NEW m \in Nat, m \in S
      PROVE  m + 1 \in S
  <2>1. CASE i + (m + 1) <= n
    <3>1. PICK k1 : k1 = i + (m + 1)
      OBVIOUS
    <3>2. k1 \in 1 .. n /\ k1 - 1 = i + m /\ Kept(k1 - 1)
      BY <1>3, <2>1, <3>1
    <3>3. NextJoined(s, f, k1)
      BY <3>2, JoinsNext
    <3>4. Kept(k1)
      <4>1. PICK a, b, c : a = f[i] /\ b = f[k1 - 1] /\ c = f[k1]
        OBVIOUS
      <4>2. /\ Len(a) \in Nat /\ Len(b) \in Nat /\ Len(a) <= Len(b)
            /\ \A j \in 1 .. Len(a) : b[j] = a[j]
        BY <3>2, <4>1 DEF StaysIn
      <4>3. /\ Len(s[k1]) \in Nat /\ Len(c) = Len(b) + Len(s[k1])
            /\ \A j \in 1 .. Len(b) : c[j] = b[j]
        BY <3>3, <4>1 DEF NextJoined
      <4>4. Len(c) \in Nat /\ Len(a) <= Len(c) /\ \A j \in 1 .. Len(a) : c[j] = a[j]
        BY <4>2, <4>3
      <4> QED
        BY <4>1, <4>2, <4>4 DEF StaysIn
    <3> HIDE DEF Kept
    <3>5. Kept(i + (m + 1))
      BY <3>1, <3>4
    <3> QED
      BY <3>5
  <2>2. CASE ~ (i + (m + 1) <= n)
    BY <2>2
  <2> QED
    BY <2>1, <2>2
<1>4. k - i \in S
  <2> HIDE DEF S
  <2>1. k - i \in Nat
    OBVIOUS
  <2> QED
    BY <1>2, <1>3, <2>1, NatSetInduction
<1>5. i + (k - i) = k
  OBVIOUS
<1>6. Kept(k)
  <2> HIDE DEF Kept
  <2> QED
    BY <1>4, <1>5
<1> QED
  BY <1>6

(* Where an element of the i-th sequence comes.                            *)
FoundAt(s, n, f, i, j) ==
  Len(f[i - 1]) + j \in 1 .. Len(f[n]) /\ f[n][Len(f[i - 1]) + j] = s[i][j]

LEMMA JoinsFind ==
  ASSUME NEW D, NEW n \in Nat, NEW s \in [1 .. n -> Seq(D)], NEW f, Joins(s, n, f),
         NEW i \in 1 .. n, NEW j \in 1 .. Len(s[i])
  PROVE  FoundAt(s, n, f, i, j)
<1>1. /\ Len(f[i - 1]) \in Nat /\ Len(s[i]) \in Nat /\ Len(f[i]) = Len(f[i - 1]) + Len(s[i])
      /\ f[i][Len(f[i - 1]) + j] = s[i][j]
  <2>1. NextJoined(s, f, i)
    BY JoinsNext
  <2> QED
    BY <2>1 DEF NextJoined
<1>2. PICK p : p = Len(f[i - 1]) + j
  OBVIOUS
<1>3. p \in 1 .. Len(f[i])
  BY <1>1, <1>2
<1>4. /\ Len(f[n]) \in Nat /\ Len(f[i]) <= Len(f[n])
      /\ \A q \in 1 .. Len(f[i]) : f[n][q] = f[i][q]
  <2>1. i \in 0 .. n /\ n \in i .. n
    OBVIOUS
  <2>2. StaysIn(f, i, n)
    BY <2>1, JoinsGrow
  <2> QED
    BY <2>2 DEF StaysIn
<1>5. p \in 1 .. Len(f[n]) /\ f[n][p] = f[i][p]
  BY <1>1, <1>3, <1>4
<1> QED
  BY <1>1, <1>2, <1>5 DEF FoundAt

(* Nothing else is joined.                                                 *)
ReachedFrom(s, n, f, p) ==
  \E i \in 1 .. n : \E j \in 1 .. Len(s[i]) : p = Len(f[i - 1]) + j /\ f[n][p] = s[i][j]

LEMMA JoinsReach ==
  ASSUME NEW D, NEW n \in Nat, NEW s \in [1 .. n -> Seq(D)], NEW f, Joins(s, n, f),
         NEW p \in 1 .. Len(f[n])
  PROVE  ReachedFrom(s, n, f, p)
<1> DEFINE Found(i) == p \in 1 .. Len(f[i])
           S == {i \in 0 .. n : Found(i)}
<1>1. n \in S /\ S \subseteq Nat
  OBVIOUS
<1>2. PICK i \in S : \A k \in S : i <= k
  <2> HIDE DEF S
  <2> QED
    BY <1>1, LeastNatural
<1>3. i # 0
  <2>1. Len(f[0]) = 0
    BY EmptySeq DEF Joins
  <2> QED
    BY <1>2, <2>1
<1>4. i \in 1 .. n /\ i - 1 \in 0 .. n /\ ~ (i <= i - 1) /\ p \in 1 .. Len(f[i])
  BY <1>2, <1>3
<1>5. p \notin 1 .. Len(f[i - 1])
  BY <1>2, <1>4
<1>6. Len(f[i - 1]) \in Nat /\ Len(s[i]) \in Nat /\ Len(f[i]) = Len(f[i - 1]) + Len(s[i])
  <2>1. NextJoined(s, f, i)
    BY <1>4, JoinsNext
  <2> QED
    BY <2>1 DEF NextJoined
<1>7. PICK j : j = p - Len(f[i - 1])
  OBVIOUS
<1>8. p \in Nat /\ Len(f[i]) \in Nat
  BY <1>4, <1>6
<1>9. j \in 1 .. Len(s[i]) /\ p = Len(f[i - 1]) + j
  BY <1>4, <1>5, <1>6, <1>7, <1>8
<1>10. f[n][Len(f[i - 1]) + j] = s[i][j]
  <2>1. FoundAt(s, n, f, i, j)
    BY <1>4, <1>9, JoinsFind
  <2> QED
    BY <2>1 DEF FoundAt
<1> QED
  BY <1>4, <1>9, <1>10 DEF ReachedFrom

(* Empty sequences add nothing.                                            *)
EmptyBetween(s, i, k) == \A j \in i + 1 .. k : s[j] = <<>>

LEMMA JoinsSkip ==
  ASSUME NEW D, NEW n \in Nat, NEW s \in [1 .. n -> Seq(D)], NEW f, Joins(s, n, f),
         NEW i \in 0 .. n, NEW k \in i .. n, EmptyBetween(s, i, k)
  PROVE  Len(f[k]) = Len(f[i])
<1> DEFINE S == {m \in Nat : i + m <= k => Len(f[i + m]) = Len(f[i])}
<1>1. 0 \in S
  OBVIOUS
<1>2. ASSUME NEW m \in Nat, m \in S
      PROVE  m + 1 \in S
  <2>1. CASE i + (m + 1) <= k
    <3>1. PICK k1 : k1 = i + (m + 1)
      OBVIOUS
    <3>2. k1 \in 1 .. n /\ k1 \in i + 1 .. k /\ k1 - 1 = i + m /\ Len(f[k1 - 1]) = Len(f[i])
      BY <1>2, <2>1, <3>1
    <3>3. Len(f[k1 - 1]) \in Nat /\ Len(f[k1]) = Len(f[k1 - 1]) + Len(s[k1])
      <4>1. NextJoined(s, f, k1)
        BY <3>2, JoinsNext
      <4> QED
        BY <4>1 DEF NextJoined
    <3>4. Len(s[k1]) = 0
      BY <3>2, EmptySeq DEF EmptyBetween
    <3>5. Len(f[i + (m + 1)]) = Len(f[i])
      BY <3>1, <3>2, <3>3, <3>4
    <3> QED
      BY <3>5
  <2>2. CASE ~ (i + (m + 1) <= k)
    BY <2>2
  <2> QED
    BY <2>1, <2>2
<1>3. k - i \in S
  <2> HIDE DEF S
  <2>1. k - i \in Nat
    OBVIOUS
  <2> QED
    BY <1>1, <1>2, <2>1, NatSetInduction
<1>4. i + (k - i) = k
  OBVIOUS
<1> QED
  BY <1>3, <1>4

(* What one longer or shorter sequence makes of the whole.                 *)
DifferAt(s, t, n, b) == \A i \in 1 .. n : i # b => t[i] = s[i]

LongerAt(D, s, t, n, f, g, b, d) ==
  /\ s \in [1 .. n -> Seq(D)] /\ Joins(s, n, f)
  /\ t \in [1 .. n -> Seq(D)] /\ Joins(t, n, g)
  /\ b \in 1 .. n /\ DifferAt(s, t, n, b)
  /\ d \in Int /\ Len(t[b]) = Len(s[b]) + d

LEMMA JoinsDiffer ==
  ASSUME NEW D, NEW n \in Nat, NEW s, NEW t, NEW f, NEW g, NEW b, NEW d,
         LongerAt(D, s, t, n, f, g, b, d)
  PROVE  Len(g[n]) = Len(f[n]) + d
<1> USE DEF LongerAt
<1> DEFINE Differ(m) == /\ Len(f[m]) \in Nat /\ Len(g[m]) \in Nat
                        /\ m < b => Len(g[m]) = Len(f[m])
                        /\ ~ (m < b) => Len(g[m]) = Len(f[m]) + d
           S == {m \in Nat : m <= n => Differ(m)}
<1>1. 0 \in S
  <2>1. Len(f[0]) = 0 /\ Len(g[0]) = 0 /\ 0 < b
    BY EmptySeq DEF Joins
  <2>2. Differ(0)
    BY <2>1
  <2> QED
    BY <2>2
<1>2. ASSUME NEW m \in Nat, m \in S
      PROVE  m + 1 \in S
  <2>1. CASE m + 1 <= n
    <3>1. PICK k : k = m + 1
      OBVIOUS
    <3>2. k \in 1 .. n /\ k - 1 = m /\ Differ(m)
      BY <1>2, <2>1, <3>1
    <3>3. Len(f[k]) = Len(f[m]) + Len(s[k]) /\ Len(s[k]) \in Nat
      <4>1. NextJoined(s, f, k)
        BY <3>2, JoinsNext
      <4> QED
        BY <3>2, <4>1 DEF NextJoined
    <3>4. Len(g[k]) = Len(g[m]) + Len(t[k]) /\ Len(t[k]) \in Nat
      <4>1. NextJoined(t, g, k)
        BY <3>2, JoinsNext
      <4> QED
        BY <3>2, <4>1 DEF NextJoined
    <3>5. (k # b => Len(t[k]) = Len(s[k])) /\ (k = b => Len(t[k]) = Len(s[k]) + d)
      BY <3>2 DEF DifferAt
    <3>6. Differ(k)
      <4>1. PICK x, y, x1, y1, u, v :
              /\ x = Len(f[m]) /\ y = Len(g[m]) /\ x1 = Len(f[k]) /\ y1 = Len(g[k])
              /\ u = Len(s[k]) /\ v = Len(t[k])
        OBVIOUS
      <4>2. /\ x \in Nat /\ y \in Nat /\ u \in Nat /\ v \in Nat
            /\ x1 = x + u /\ y1 = y + v
            /\ m < b => y = x
            /\ ~ (m < b) => y = x + d
            /\ k # b => v = u
            /\ k = b => v = u + d
        BY <3>2, <3>3, <3>4, <3>5, <4>1
      <4>3. /\ x1 \in Nat /\ y1 \in Nat
            /\ k < b => y1 = x1
            /\ ~ (k < b) => y1 = x1 + d
        <5>1. CASE k < b
          BY <3>1, <4>2, <5>1
        <5>2. CASE k = b
          BY <3>1, <4>2, <5>2
        <5>3. CASE k > b
          BY <3>1, <4>2, <5>3
        <5> QED
          BY <3>1, <5>1, <5>2, <5>3
      <4> QED
        BY <4>1, <4>3
    <3> HIDE DEF Differ
    <3> QED
      BY <3>1, <3>6
  <2>2. CASE ~ (m + 1 <= n)
    BY <2>2
  <2> QED
    BY <2>1, <2>2
<1>3. n \in S
  <2> HIDE DEF S
  <2> QED
    BY <1>1, <1>2, NatSetInduction
<1>4. Differ(n) /\ ~ (n < b)
  BY <1>3
<1> QED
  BY <1>4

-----------------------------------------------------------------------------
(* Gathering: the values of the places of In among 1 .. n, in their order. *)

Gathers(In, val, n, g) ==
  /\ g[0] = <<>>
  /\ \A i \in 1 .. n : g[i] = IF i \in In THEN Append(g[i - 1], val[i]) ELSE g[i - 1]

(* The gathering of the first places is one of more places.                *)
LEMMA GathersFewer ==
  ASSUME NEW n \in Nat, NEW m \in 0 .. n, NEW In, NEW val, NEW g, Gathers(In, val, n, g)
  PROVE  Gathers(In, val, m, g)
<1>1. \A i \in 1 .. m : i \in 1 .. n
  OBVIOUS
<1> QED
  BY <1>1 DEF Gathers

LEMMA GathersExist ==
  ASSUME NEW n \in Nat, NEW In, NEW val
  PROVE  \E g : Gathers(In, val, n, g)
<1> DEFINE S == {m \in Nat : \E g : Gathers(In, val, m, g)}
<1>1. 0 \in S
  <2>1. Gathers(In, val, 0, [i \in {0} |-> <<>>])
    BY DEF Gathers
  <2> QED
    BY <2>1
<1>2. ASSUME NEW m \in S
      PROVE  m + 1 \in S
  <2>1. PICK f : Gathers(In, val, m, f)
    OBVIOUS
  <2> DEFINE last == IF m + 1 \in In THEN Append(f[m], val[m + 1]) ELSE f[m]
             g == [i \in 0 .. m + 1 |-> IF i = m + 1 THEN last ELSE f[i]]
  <2>2. g[0] = <<>>
    BY <2>1 DEF Gathers
  <2>3. ASSUME NEW i \in 1 .. m + 1
        PROVE  g[i] = IF i \in In THEN Append(g[i - 1], val[i]) ELSE g[i - 1]
    <3>1. i - 1 \in 0 .. m /\ i - 1 # m + 1 /\ i \in 0 .. m + 1 /\ i - 1 \in 0 .. m + 1
      OBVIOUS
    <3>2. g[i - 1] = f[i - 1]
      BY <3>1
    <3>3. CASE i = m + 1
      <4>1. g[i] = last /\ i - 1 = m
        BY <3>1, <3>3
      <4> QED
        BY <3>2, <3>3, <4>1
    <3>4. CASE i # m + 1
      <4>1. g[i] = f[i] /\ i \in 1 .. m
        BY <3>1, <3>4
      <4> HIDE DEF g
      <4> QED
        BY <2>1, <3>2, <4>1 DEF Gathers
    <3> QED
      BY <3>3, <3>4
  <2> HIDE DEF g
  <2>4. Gathers(In, val, m + 1, g)
    BY <2>2, <2>3 DEF Gathers
  <2> QED
    BY <2>4
<1> HIDE DEF S
<1>3. n \in S
  BY <1>1, <1>2, NatSetInduction
<1> QED
  BY <1>3 DEF S

(* The values of the places of In are in V.                                *)
ValuesAreIn(In, val, n, V) == \A i \in 1 .. n : i \in In => val[i] \in V

LEMMA GathersTyped ==
  ASSUME NEW n \in Nat, NEW In, NEW val, NEW g, Gathers(In, val, n, g),
         NEW V, ValuesAreIn(In, val, n, V)
  PROVE  \A i \in 0 .. n : g[i] \in Seq(V)
<1> DEFINE S == {m \in Nat : m <= n => g[m] \in Seq(V)}
<1>1. 0 \in S
  BY EmptySeq DEF Gathers
<1>2. ASSUME NEW m \in S
      PROVE  m + 1 \in S
  <2>1. PICK k : k = m + 1
    OBVIOUS
  <2>2. CASE k <= n
    <3>1. k \in 1 .. n /\ k - 1 = m
      BY <2>1, <2>2
    <3>2. g[m] \in Seq(V)
      BY <3>1
    <3>3. g[k] = IF k \in In THEN Append(g[m], val[k]) ELSE g[m]
      BY <3>1 DEF Gathers
    <3>4. k \in In => val[k] \in V
      BY <3>1 DEF ValuesAreIn
    <3>5. g[k] \in Seq(V)
      BY <3>2, <3>3, <3>4
    <3> QED
      BY <2>1, <3>5
  <2> QED
    BY <2>1, <2>2
<1> HIDE DEF S
<1>3. \A m \in Nat : m \in S
  BY <1>1, <1>2, NatSetInduction
<1> QED
  BY <1>3 DEF S

(* Gatherings of the same values are the same.                             *)
SameValues(In, J, val, u, n) ==
  \A i \in 1 .. n : (i \in In <=> i \in J) /\ (i \in In => val[i] = u[i])

LEMMA GathersSame ==
  ASSUME NEW n \in Nat, NEW In, NEW J, NEW val, NEW u, NEW g, NEW h,
         Gathers(In, val, n, g), Gathers(J, u, n, h), SameValues(In, J, val, u, n)
  PROVE  \A i \in 0 .. n : g[i] = h[i]
<1> DEFINE S == {m \in Nat : m <= n => g[m] = h[m]}
<1>1. 0 \in S
  BY DEF Gathers
<1>2. ASSUME NEW m \in S
      PROVE  m + 1 \in S
  <2>1. PICK k : k = m + 1
    OBVIOUS
  <2>2. CASE k <= n
    <3>1. k \in 1 .. n /\ k - 1 = m
      BY <2>1, <2>2
    <3>2. g[m] = h[m]
      BY <3>1
    <3>3. g[k] = IF k \in In THEN Append(g[m], val[k]) ELSE g[m]
      BY <3>1 DEF Gathers
    <3>4. h[k] = IF k \in J THEN Append(h[m], u[k]) ELSE h[m]
      BY <3>1 DEF Gathers
    <3>5. (k \in In <=> k \in J) /\ (k \in In => val[k] = u[k])
      BY <3>1 DEF SameValues
    <3>6. g[k] = h[k]
      BY <3>2, <3>3, <3>4, <3>5
    <3> QED
      BY <2>1, <3>6
  <2> QED
    BY <2>1, <2>2
<1> HIDE DEF S
<1>3. \A m \in Nat : m \in S
  BY <1>1, <1>2, NatSetInduction
<1> QED
  BY <1>3 DEF S

(* Nothing is gathered where there is nothing of In.                       *)
LEMMA GathersNothing ==
  ASSUME NEW n \in Nat, NEW In, NEW val, NEW g, Gathers(In, val, n, g),
         NEW k \in 0 .. n, \A i \in 1 .. n : i > k => i \notin In
  PROVE  g[n] = g[k]
<1> DEFINE S == {m \in Nat : m >= k /\ m <= n => g[m] = g[k]}
<1>1. 0 \in S
  OBVIOUS
<1>2. ASSUME NEW m \in S
      PROVE  m + 1 \in S
  <2>1. PICK j : j = m + 1
    OBVIOUS
  <2>2. CASE j > k /\ j <= n
    <3>1. j \in 1 .. n /\ j - 1 = m /\ m >= k /\ m <= n
      BY <2>1, <2>2
    <3>2. g[m] = g[k]
      BY <3>1
    <3>3. g[j] = g[m]
      BY <2>2, <3>1 DEF Gathers
    <3> QED
      BY <2>1, <3>2, <3>3
  <2>3. CASE j <= k
    BY <2>1, <2>3
  <2>4. CASE j > n
    BY <2>1, <2>4
  <2> QED
    BY <2>1, <2>2, <2>3, <2>4
<1> HIDE DEF S
<1>3. n \in S
  BY <1>1, <1>2, NatSetInduction
<1> QED
  BY <1>3 DEF S

(* One more place, behind all others: its value is appended.               *)
LEMMA GathersLast ==
  ASSUME NEW n \in Nat, NEW In, NEW J, NEW val, NEW u, NEW g, NEW h, NEW p \in 1 .. n,
         Gathers(In, val, n, g), Gathers(J, u, n, h),
         \A i \in 1 .. n : i < p => (i \in In <=> i \in J) /\ (i \in In => val[i] = u[i]),
         \A i \in 1 .. n : i >= p => i \notin In,
         p \in J, \A i \in 1 .. n : i > p => i \notin J
  PROVE  h[n] = Append(g[n], u[p])
<1>1. PICK k : k = p - 1
  OBVIOUS
<1>2. k \in 0 .. n /\ k \in Nat /\ k \in 0 .. k
  BY <1>1
<1>3. Gathers(In, val, k, g) /\ Gathers(J, u, k, h)
  BY <1>2, GathersFewer
<1>4. SameValues(In, J, val, u, k)
  BY <1>1 DEF SameValues
<1>5. g[k] = h[k]
  BY <1>2, <1>3, <1>4, GathersSame
<1>6. g[n] = g[k]
  <2>1. \A i \in 1 .. n : i > k => i \notin In
    BY <1>1
  <2> QED
    BY <1>2, <2>1, GathersNothing
<1>7. h[n] = h[p]
  <2>1. p \in 0 .. n
    OBVIOUS
  <2> QED
    BY <2>1, GathersNothing
<1>8. h[p] = Append(h[k], u[p])
  BY <1>1 DEF Gathers
<1> QED
  BY <1>5, <1>6, <1>7, <1>8


(* Append, Tail and a change of the first element do not get in each       *)
(* other's way.                                                            *)
LEMMA AppendFirst ==
  ASSUME NEW V, NEW x \in V, NEW y
  PROVE  /\ Tail(Append(<<>>, x)) = <<>>
         /\ [Append(<<>>, x) EXCEPT ![1] = y] = Append(<<>>, y)
         /\ Append(<<>>, x) # <<>>
<1>1. Append(<<>>, x) = <<x>>
  OBVIOUS
<1>2. Tail(<<x>>) = <<>>
  OBVIOUS
<1>3. [<<x>> EXCEPT ![1] = y] = <<y>>
  OBVIOUS
<1> QED
  BY <1>1, <1>2, <1>3

LEMMA AppendLater ==
  ASSUME NEW V, NEW s \in Seq(V), s # <<>>, NEW x \in V, NEW y \in V
  PROVE  /\ Tail(Append(s, x)) = Append(Tail(s), x)
         /\ [Append(s, x) EXCEPT ![1] = y] = Append([s EXCEPT ![1] = y], x)
         /\ Append(s, x) # <<>>
<1>1. PICK n \in Nat \ {0} : n = Len(s)
  BY EmptySeq
<1> DEFINE t == Append(s, x)
<1>2. t \in Seq(V) /\ Len(t) = n + 1 /\ \A i \in 1 .. n + 1 : t[i] = IF i <= n THEN s[i] ELSE x
  BY <1>1, AppendProperties
<1> HIDE DEF t
<1>3. t # <<>>
  BY <1>1, <1>2, EmptySeq
<1>4. Tail(t) = Append(Tail(s), x)
  BY HeadTailAppend DEF t
<1>5. [t EXCEPT ![1] = y] = Append([s EXCEPT ![1] = y], x)
  <2> DEFINE a == [t EXCEPT ![1] = y]
             r == [s EXCEPT ![1] = y]
             b == Append(r, x)
  <2>1. a \in Seq(V) /\ Len(a) = n + 1 /\ \A i \in 1 .. n + 1 : a[i] = IF i = 1 THEN y ELSE t[i]
    <3>1. 1 \in 1 .. Len(t)
      BY <1>1, <1>2
    <3> QED
      BY <1>2, <3>1, ExceptSeq
  <2>2. r \in Seq(V) /\ Len(r) = n /\ \A i \in 1 .. n : r[i] = IF i = 1 THEN y ELSE s[i]
    <3>1. 1 \in 1 .. Len(s)
      BY <1>1
    <3> QED
      BY <1>1, <3>1, ExceptSeq
  <2> HIDE DEF a, r
  <2>3. b \in Seq(V) /\ Len(b) = n + 1 /\ \A i \in 1 .. n + 1 : b[i] = IF i <= n THEN r[i] ELSE x
    BY <2>2, AppendProperties
  <2> HIDE DEF b
  <2>4. \A i \in 1 .. n + 1 : a[i] = b[i]
    BY <1>1, <1>2, <2>1, <2>2, <2>3
  <2>5. a = b
    BY <2>1, <2>3, <2>4, SeqEqual
  <2> QED
    BY <2>5 DEF a, b, r
<1> QED
  BY <1>3, <1>4, <1>5 DEF t


(* Without the first place of In, what is gathered loses its head; with    *)
(* another value there, its head is another one.                           *)
FirstOf(In, p, n) == p \in In /\ \A i \in 1 .. n : i \in In => p <= i

HeadLost(In, J, val, u, p, n) ==
  /\ p \notin J
  /\ \A i \in 1 .. n : i # p => (i \in In <=> i \in J) /\ (i \in In => val[i] = u[i])

HeadChanged(In, J, val, u, p, n) ==
  /\ p \in J
  /\ \A i \in 1 .. n : (i \in In <=> i \in J) /\ (i \in In /\ i # p => val[i] = u[i])

LEMMA GathersFirst ==
  ASSUME NEW n \in Nat, NEW In, NEW val, NEW g, Gathers(In, val, n, g),
         NEW p \in 1 .. n, FirstOf(In, p, n)
  PROVE  g[p - 1] = <<>> /\ g[p] = Append(<<>>, val[p])
<1>1. PICK k : k = p - 1
  OBVIOUS
<1>2. k \in 0 .. n /\ k \in Nat /\ 0 \in 0 .. k
  BY <1>1
<1>3. Gathers(In, val, k, g)
  BY <1>2, GathersFewer
<1>4. \A i \in 1 .. k : i > 0 => i \notin In
  BY <1>1 DEF FirstOf
<1>5. g[k] = g[0]
  BY <1>2, <1>3, <1>4, GathersNothing
<1>6. g[0] = <<>> /\ g[p] = IF p \in In THEN Append(g[k], val[p]) ELSE g[k]
  BY <1>1 DEF Gathers
<1> QED
  BY <1>1, <1>5, <1>6 DEF FirstOf

LEMMA GathersTail ==
  ASSUME NEW n \in Nat, NEW In, NEW J, NEW val, NEW u, NEW g, NEW h,
         NEW V, ValuesAreIn(In, val, n, V),
         Gathers(In, val, n, g), Gathers(J, u, n, h),
         NEW p \in 1 .. n, FirstOf(In, p, n), HeadLost(In, J, val, u, p, n)
  PROVE  g[n] # <<>> /\ h[n] = Tail(g[n])
<1> DEFINE S == {m \in Nat : m >= p /\ m <= n => g[m] # <<>> /\ h[m] = Tail(g[m])}
<1>1. 0 \in S
  OBVIOUS
<1>2. ASSUME NEW m \in S
      PROVE  m + 1 \in S
  <2>1. PICK j : j = m + 1
    OBVIOUS
  <2>2. CASE j = p
    <3>1. j \in 1 .. n /\ j - 1 = m /\ m \in 0 .. n /\ m \in Nat /\ 0 \in 0 .. m
      BY <2>1, <2>2
    <3>2. g[m] = <<>> /\ g[j] = Append(<<>>, val[j])
      BY <2>2, <3>1, GathersFirst
    <3>3. h[j] = h[m]
      BY <2>2, <3>1 DEF Gathers, HeadLost
    <3>4. h[m] = h[0]
      <4>1. Gathers(J, u, m, h)
        BY <3>1, GathersFewer
      <4>2. \A i \in 1 .. m : i > 0 => i \notin J
        BY <2>1, <2>2, <3>1 DEF HeadLost, FirstOf
      <4> QED
        BY <3>1, <4>1, <4>2, GathersNothing
    <3>5. h[0] = <<>>
      BY DEF Gathers
    <3>6. val[j] \in V
      BY <2>2, <3>1 DEF FirstOf, ValuesAreIn
    <3>7. g[j] # <<>> /\ h[j] = Tail(g[j])
      BY <3>2, <3>3, <3>4, <3>5, <3>6, AppendFirst
    <3> QED
      BY <2>1, <3>7
  <2>3. CASE j > p /\ j <= n
    <3>1. j \in 1 .. n /\ j - 1 = m /\ m >= p /\ m <= n /\ m \in 0 .. n
      BY <2>1, <2>3
    <3>2. g[m] # <<>> /\ h[m] = Tail(g[m])
      BY <3>1
    <3>3. g[m] \in Seq(V)
      BY <3>1, GathersTyped
    <3>4. (j \in In <=> j \in J) /\ (j \in In => val[j] = u[j])
      BY <2>3, <3>1 DEF HeadLost
    <3>5. /\ g[j] = IF j \in In THEN Append(g[m], val[j]) ELSE g[m]
          /\ h[j] = IF j \in J THEN Append(h[m], u[j]) ELSE h[m]
      BY <3>1 DEF Gathers
    <3>6. CASE j \in In
      <4>1. val[j] \in V
        BY <3>1, <3>6 DEF ValuesAreIn
      <4>2. Tail(Append(g[m], val[j])) = Append(Tail(g[m]), val[j]) /\ Append(g[m], val[j]) # <<>>
        BY <3>2, <3>3, <4>1, AppendLater
      <4>3. g[j] # <<>> /\ h[j] = Tail(g[j])
        BY <3>2, <3>4, <3>5, <3>6, <4>2
      <4> QED
        BY <2>1, <4>3
    <3>7. CASE j \notin In
      BY <2>1, <3>2, <3>4, <3>5, <3>7
    <3> QED
      BY <3>6, <3>7
  <2>4. CASE j < p \/ j > n
    BY <2>1, <2>4
  <2>5. j \in Nat
    BY <2>1
  <2> QED
    BY <2>2, <2>3, <2>4, <2>5
<1> HIDE DEF S
<1>3. n \in S
  BY <1>1, <1>2, NatSetInduction
<1> QED
  BY <1>3 DEF S

LEMMA GathersChanged ==
  ASSUME NEW n \in Nat, NEW In, NEW J, NEW val, NEW u, NEW g, NEW h,
         NEW V, ValuesAreIn(In, val, n, V),
         Gathers(In, val, n, g), Gathers(J, u, n, h),
         NEW p \in 1 .. n, FirstOf(In, p, n), HeadChanged(In, J, val, u, p, n), u[p] \in V
  PROVE  g[n] # <<>> /\ h[n] = [g[n] EXCEPT ![1] = u[p]]
<1> DEFINE S == {m \in Nat : m >= p /\ m <= n =>
                   g[m] # <<>> /\ h[m] = [g[m] EXCEPT ![1] = u[p]]}
<1>1. 0 \in S
  OBVIOUS
<1>2. ASSUME NEW m \in S
      PROVE  m + 1 \in S
  <2>1. PICK j : j = m + 1
    OBVIOUS
  <2>2. CASE j = p
    <3>1. FirstOf(J, p, n)
      BY DEF FirstOf, HeadChanged
    <3>2. g[p] = Append(<<>>, val[p]) /\ h[p] = Append(<<>>, u[p])
      BY <3>1, GathersFirst
    <3>3. val[p] \in V
      BY DEF FirstOf, ValuesAreIn
    <3>4. g[p] # <<>> /\ h[p] = [g[p] EXCEPT ![1] = u[p]]
      BY <3>2, <3>3, AppendFirst
    <3> QED
      BY <2>1, <2>2, <3>4
  <2>3. CASE j > p /\ j <= n
    <3>1. j \in 1 .. n /\ j - 1 = m /\ m >= p /\ m <= n /\ m \in 0 .. n
      BY <2>1, <2>3
    <3>2. g[m] # <<>> /\ h[m] = [g[m] EXCEPT ![1] = u[p]]
      BY <3>1
    <3>3. g[m] \in Seq(V)
      BY <3>1, GathersTyped
    <3>4. (j \in In <=> j \in J) /\ (j \in In => val[j] = u[j])
      BY <2>3, <3>1 DEF HeadChanged
    <3>5. /\ g[j] = IF j \in In THEN Append(g[m], val[j]) ELSE g[m]
          /\ h[j] = IF j \in J THEN Append(h[m], u[j]) ELSE h[m]
      BY <3>1 DEF Gathers
    <3>6. CASE j \in In
      <4>1. val[j] \in V
        BY <3>1, <3>6 DEF ValuesAreIn
      <4>2. /\ [Append(g[m], val[j]) EXCEPT ![1] = u[p]]
                 = Append([g[m] EXCEPT ![1] = u[p]], val[j])
            /\ Append(g[m], val[j]) # <<>>
        BY <3>2, <3>3, <4>1, AppendLater
      <4>3. g[j] # <<>> /\ h[j] = [g[j] EXCEPT ![1] = u[p]]
        BY <3>2, <3>4, <3>5, <3>6, <4>2
      <4> QED
        BY <2>1, <4>3
    <3>7. CASE j \notin In
      BY <2>1, <3>2, <3>4, <3>5, <3>7
    <3> QED
      BY <3>6, <3>7
  <2>4. CASE j < p \/ j > n
    BY <2>1, <2>4
  <2>5. j \in Nat
    BY <2>1
  <2> QED
    BY <2>2, <2>3, <2>4, <2>5
<1> HIDE DEF S
<1>3. n \in S
  BY <1>1, <1>2, NatSetInduction
<1> QED
  BY <1>3 DEF S

(* A place that was not of In goes, and those behind it move up.           *)
MovedUp(In, J, val, u, p, n) ==
  /\ p \notin In
  /\ n \notin J
  /\ \A i \in 1 .. n - 1 : i < p => (i \in In <=> i \in J) /\ (i \in In => val[i] = u[i])
  /\ \A i \in 1 .. n - 1 : i >= p => (i + 1 \in In <=> i \in J) /\ (i \in J => val[i + 1] = u[i])

LEMMA GathersMoved ==
  ASSUME NEW n \in Nat, NEW In, NEW J, NEW val, NEW u, NEW g, NEW h,
         Gathers(In, val, n, g), Gathers(J, u, n, h),
         NEW p \in 1 .. n, MovedUp(In, J, val, u, p, n)
  PROVE  h[n] = g[n]
<1> DEFINE S == {m \in Nat : m <= n - 1 => h[m] = IF m < p THEN g[m] ELSE g[m + 1]}
<1>1. 0 \in S
  BY DEF Gathers
<1>2. ASSUME NEW m \in S
      PROVE  m + 1 \in S
  <2>1. PICK j : j = m + 1
    OBVIOUS
  <2>2. CASE j <= n - 1
    <3>1. j \in 1 .. n - 1 /\ j \in 1 .. n /\ j - 1 = m /\ m <= n - 1
      BY <2>1, <2>2
    <3>2. h[m] = IF m < p THEN g[m] ELSE g[m + 1]
      BY <3>1
    <3>3. h[j] = IF j \in J THEN Append(h[m], u[j]) ELSE h[m]
      BY <3>1 DEF Gathers
    <3>4. CASE j < p
      <4>1. h[m] = g[m]
        BY <2>1, <3>2, <3>4
      <4>2. (j \in In <=> j \in J) /\ (j \in In => val[j] = u[j])
        BY <3>1, <3>4 DEF MovedUp
      <4>3. g[j] = IF j \in In THEN Append(g[m], val[j]) ELSE g[m]
        BY <3>1 DEF Gathers
      <4>4. h[j] = g[j]
        BY <3>3, <4>1, <4>2, <4>3
      <4> QED
        BY <2>1, <3>4, <4>4
    <3>5. CASE j >= p
      <4>1. PICK k : k = j + 1
        OBVIOUS
      <4>2. k \in 1 .. n /\ k - 1 = j
        BY <3>1, <4>1
      <4>3. (k \in In <=> j \in J) /\ (j \in J => val[k] = u[j])
        BY <3>1, <3>5, <4>1 DEF MovedUp
      <4>4. g[k] = IF k \in In THEN Append(g[j], val[k]) ELSE g[j]
        BY <4>2 DEF Gathers
      <4>5. h[m] = g[j]
        <5>1. CASE j = p
          <6>1. g[j] = g[m]
            BY <3>1, <5>1 DEF Gathers, MovedUp
          <6> QED
            BY <2>1, <3>2, <5>1, <6>1
        <5>2. CASE j # p
          BY <2>1, <3>2, <3>5, <5>2
        <5> QED
          BY <5>1, <5>2
      <4>6. h[j] = g[k]
        BY <3>3, <4>3, <4>4, <4>5
      <4> QED
        BY <2>1, <3>5, <4>1, <4>6
    <3> QED
      BY <3>1, <3>4, <3>5
  <2>3. CASE j > n - 1
    BY <2>1, <2>3
  <2>4. j \in Nat
    BY <2>1
  <2> QED
    BY <2>2, <2>3, <2>4
<1> HIDE DEF S
<1>3. PICK k : k = n - 1
  OBVIOUS
<1>4. k \in Nat /\ n - 1 = k
  BY <1>3
<1>5. k \in S
  BY <1>1, <1>2, <1>4, NatSetInduction
<1>6. h[k] = IF k < p THEN g[k] ELSE g[k + 1]
  BY <1>3, <1>5 DEF S
<1>7. h[n] = h[k]
  BY <1>4 DEF Gathers, MovedUp
<1>8. k < p => g[n] = g[k]
  <2> SUFFICES ASSUME k < p PROVE g[n] = g[k]
    OBVIOUS
  <2>1. n = p
    BY <1>3
  <2> QED
    BY <1>4, <2>1 DEF Gathers, MovedUp
<1>9. k + 1 = n
  BY <1>3
<1> QED
  BY <1>6, <1>7, <1>8, <1>9

=============================================================================
