----------------------------- MODULE JsonProofs -----------------------------
(***************************************************************************)
(* Proofs about jsonParse and jsonStringify, for any tokens, any length of *)
(* the input and of its strings, and any initial size of the buffer: the   *)
(* structs form trees whose children have later names, a document that is  *)
(* parsed owns what was allocated and gives it back, and what is printed   *)
(* is no longer than its block.                                            *)
(***************************************************************************)
EXTENDS Json, DataProofs

-----------------------------------------------------------------------------
(* The inductive invariant.                                                *)

Building == mode \in {"value", "open", "key", "colon", "return"}
Complete == mode \in {"parsed", "stored", "print"}

(* The i-th call has an element that is not yet in its array or object.    *)
Pending(i) ==
  /\ i \in DOMAIN stack
  /\ i < Len(stack) \/ mode \in {"value", "colon", "return", "fail"}

(* A key in the hands of parseObject.                                      *)
HasKey(i) == Pending(i) /\ node[stack[i].node].type = "object"

ChildOf(c, n) == c \in ToSet(node[n].children)

(* Children come after their parent, which is one only.                    *)
Forest ==
  /\ \A n \in DOMAIN node : \A c \in ToSet(node[n].children) : n < c
  /\ \A m, n \in DOMAIN node : \A c \in Names : ChildOf(c, m) /\ ChildOf(c, n) => m = n

(* The waiting calls are nested, and nobody else has their elements.       *)
Calls ==
  /\ Building \/ mode \in {"fail", "undefined"} \/ stack = <<>>
  /\ mode \in {"open", "key", "colon"} => stack # <<>>
  /\ mode \in {"key", "colon"} => node[Top.node].type = "object"
  /\ \A i \in DOMAIN stack :
       /\ node[stack[i].node].type \in {"array", "object"}
       /\ Pending(i) =>
            /\ stack[i].element \in DOMAIN node
            /\ stack[i].node < stack[i].element
            /\ \A n \in DOMAIN node : ~ ChildOf(stack[i].element, n)
       /\ HasKey(i) => stack[i].key = stack[i].element
       /\ \A j \in DOMAIN stack : i < j => stack[i].element <= stack[j].node

(* What has been read.  In a name lies the order of creation.              *)
InputRead ==
  /\ Here \in 1 .. MaxTokens + 1
  /\ Here > MaxTokens => Current = "end"
  /\ Building => \A n \in DOMAIN node : n < Here \/ (mode = "value" /\ n = Here)
  /\ Building => \A t \in texts : t < Here

(* A struct gets its type from the value it stands for.  A member holds    *)
(* its key in the meantime.                                                *)
KeyInElement(n) == stack # <<>> /\ HasKey(Len(stack)) /\ n = Top.element

TypesSet ==
  \A n \in DOMAIN node :
    /\ node[n].type = "uninitialised" => mode = "value" /\ n = target
    /\ mode \in {"value", "colon"} /\ n = target =>
         /\ node[n].children = <<>>
         /\ IF KeyInElement(n)
            THEN node[n].type = "string" /\ node[n].text = Top.key
            ELSE node[n].type = "uninitialised"

(* Every struct is the root, in its parent, or an element to come.         *)
AllReachable ==
  \A n \in DOMAIN node :
    \/ n = Root
    \/ \E m \in DOMAIN node : ChildOf(n, m)
    \/ \E i \in DOMAIN stack : Pending(i) /\ n = stack[i].element

(* Every string that is allocated is in one struct or a key.               *)
IsString(n) == n \in DOMAIN node /\ node[n].type = "string"

TextsOwned ==
  /\ \A t \in texts : \/ \E n \in DOMAIN node : IsString(n) /\ t = node[n].text
                      \/ \E i \in DOMAIN stack : HasKey(i) /\ t = stack[i].key
  /\ \A n \in DOMAIN node : IsString(n) => node[n].text \in texts
  /\ \A i \in DOMAIN stack : HasKey(i) =>
       /\ stack[i].key \in texts
       /\ \A n \in DOMAIN node : IsString(n) /\ node[n].text = stack[i].key =>
            mode \in {"value", "colon"} /\ i = Len(stack) /\ n = Top.element

(* Keys and strings are where their names say.                             *)
IsText(t) == t \in DOMAIN input /\ input[t] \in Strings

TextsRead ==
  /\ \A n \in DOMAIN node :
       /\ node[n].type = "string" => IsText(node[n].text)
       /\ node[n].type = "object" => \A c \in ToSet(node[n].children) : IsText(c)
  /\ \A i \in DOMAIN stack : HasKey(i) => IsText(stack[i].key)

JsonInv ==
  /\ TypeOK /\ Forest /\ Calls /\ InputRead
  /\ Building \/ Complete \/ mode = "fail" => Root \in DOMAIN node
  /\ Building \/ Complete => TypesSet /\ AllReachable /\ TextsOwned /\ TextsRead
  /\ mode = "freed" => node = <<>> /\ texts = {}

-----------------------------------------------------------------------------
(* Sequences that lose their last element, or have it replaced.            *)
LEMMA FrontOf ==
  ASSUME NEW D, NEW s \in Seq(D), s # <<>>
  PROVE  /\ Front(s) \in Seq(D)
         /\ Len(s) \in Nat /\ Len(s) >= 1 /\ Len(Front(s)) = Len(s) - 1
         /\ \A i \in 1 .. Len(s) - 1 : Front(s)[i] = s[i]
         /\ Last(s) = s[Len(s)] /\ Last(s) \in D
<1>1. Len(s) \in Nat /\ Len(s) >= 1
  BY EmptySeq, LenProperties
<1>2. \A i \in 1 .. Len(s) : s[i] \in D
  BY ElementOfSeq
<1>3. PICK n : n = Len(s) - 1
  OBVIOUS
<1>4. n \in Nat /\ \A i \in 1 .. n : s[i] \in D
  BY <1>1, <1>2, <1>3
<1>5. /\ SubSeq(s, 1, n) \in Seq(D)
      /\ Len(SubSeq(s, 1, n)) = n
      /\ \A i \in 1 .. n : SubSeq(s, 1, n)[i] = s[i]
  <2>1. /\ SubSeq(s, 1, n) \in Seq(D)
        /\ Len(SubSeq(s, 1, n)) = IF 1 <= n THEN n - 1 + 1 ELSE 0
        /\ \A i \in 1 .. n - 1 + 1 : SubSeq(s, 1, n)[i] = s[1 + i - 1]
    BY <1>4, SubSeqProperties
  <2>2. n - 1 + 1 = n /\ \A i \in 1 .. n : 1 + i - 1 = i
    BY <1>4
  <2>3. (IF 1 <= n THEN n ELSE 0) = n
    BY <1>4
  <2> QED
    BY <2>1, <2>2, <2>3
<1> QED
  BY <1>1, <1>2, <1>3, <1>5 DEF Front, Last

LEMMA ReplaceLast ==
  ASSUME NEW D, NEW E, NEW s \in Seq(D), s # <<>>, D \subseteq E, NEW e \in E
  PROVE  /\ Append(Front(s), e) \in Seq(E)
         /\ Len(Append(Front(s), e)) = Len(s)
         /\ \A i \in 1 .. Len(s) - 1 : Append(Front(s), e)[i] = s[i]
         /\ Append(Front(s), e)[Len(s)] = e
<1>1. PICK f : f = Front(s)
  OBVIOUS
<1>2. f \in Seq(E) /\ Len(s) \in Nat /\ Len(s) >= 1 /\ Len(f) = Len(s) - 1
  BY <1>1, FrontOf, SeqMonotonic
<1>3. \A i \in 1 .. Len(s) - 1 : f[i] = s[i]
  BY <1>1, FrontOf
<1>4. Len(f) + 1 = Len(s)
  BY <1>2
<1>5. /\ Append(f, e) \in Seq(E)
      /\ Len(Append(f, e)) = Len(s)
      /\ \A i \in 1 .. Len(s) - 1 : Append(f, e)[i] = f[i]
      /\ Append(f, e)[Len(s)] = e
  BY <1>2, <1>4, AppendProperties
<1> QED
  BY <1>1, <1>3, <1>5

-----------------------------------------------------------------------------
(* What the parser's helpers do.                                           *)

LEMMA Numbers ==
  /\ MaxTokens \in Nat \ {0} /\ Names = 0 .. MaxTokens + 1 /\ Root \in Names /\ Root = 0
  /\ "end" \notin Tokens
<1>1. MaxTokens \in Nat \ {0}
  BY JsonAssumption, Zenon
<1>2. "end" \notin Tokens
  BY JsonAssumption, Zenon DEF Strings, Scalars
<1> QED
  BY <1>1, <1>2 DEF Names, Root

(* A token more is read.                                                   *)
LEMMA Advanced ==
  ASSUME TypeOK, InputRead, Current # "end", Advance
  PROVE  /\ input' \in Seq(Tokens \cup {"end"})
         /\ Here \in Nat /\ Here' = Here + 1
         /\ DOMAIN input = 1 .. Here /\ DOMAIN input' = 1 .. Here + 1
         /\ \A i \in 1 .. Here : input'[i] = input[i]
         /\ Here' \in 1 .. MaxTokens + 1
         /\ Here' > MaxTokens => Current' = "end"
<1>1. PICK t \in {"end"} \cup (IF Here < MaxTokens THEN Tokens ELSE {}) :
        input' = Append(input, t)
  BY DEF Advance
<1>2. /\ input \in Seq(Tokens \cup {"end"}) /\ t \in Tokens \cup {"end"}
      /\ ~ (Here < MaxTokens) => t = "end"
  BY <1>1 DEF TypeOK
<1>3. Here \in 1 .. MaxTokens
  BY Numbers DEF InputRead
<1>4. /\ input' \in Seq(Tokens \cup {"end"})
      /\ Len(input') = Here + 1
      /\ \A i \in 1 .. Here : input'[i] = input[i]
      /\ input'[Here + 1] = t
  BY <1>1, <1>2, AppendProperties DEF Here
<1>5. Here' = Here + 1 /\ Current' = t
  BY <1>4 DEF Here, Current, Last
<1>6. DOMAIN input = 1 .. Here /\ DOMAIN input' = 1 .. Here + 1
  BY <1>2, <1>4, LenProperties DEF Here
<1> QED
  BY <1>2, <1>3, <1>4, <1>5, <1>6, Numbers

Struct(names) ==
  [type : Scalars \cup {"uninitialised", "string", "array", "object"},
   text : Names, children : Seq(names)]

Frame(names) == [node : names, element : Names, key : Names]

(* Set gives a struct its type and text.                                   *)
LEMMA SetNode ==
  ASSUME TypeOK, NEW n \in DOMAIN node, NEW text \in Names,
         NEW type \in Scalars \cup {"uninitialised", "string", "array", "object"},
         Set(n, type, text)
  PROVE  /\ DOMAIN node' = DOMAIN node
         /\ node' \in [DOMAIN node -> Struct(DOMAIN node)]
         /\ \A m \in DOMAIN node : node'[m].children = node[m].children
         /\ \A m \in DOMAIN node : m # n => node'[m] = node[m]
         /\ node'[n].type = type /\ node'[n].text = text
BY DEF TypeOK, Set, Struct

(* Adopt makes the element the last child of the call's node.              *)
LEMMA Adopted ==
  ASSUME TypeOK, stack # <<>>, Top.element \in DOMAIN node, Adopt
  PROVE  /\ DOMAIN node' = DOMAIN node
         /\ node' \in [DOMAIN node -> Struct(DOMAIN node)]
         /\ \A m \in DOMAIN node : node'[m].type = node[m].type /\ node'[m].text = node[m].text
         /\ \A m \in DOMAIN node : m # Top.node => node'[m] = node[m]
         /\ ToSet(node'[Top.node].children) = ToSet(node[Top.node].children) \cup {Top.element}
         /\ Top.node \in DOMAIN node
<1>1. Top \in Frame(DOMAIN node)
  BY FrontOf DEF TypeOK, Top, Frame
<1>2. PICK e : e = Top.element
  OBVIOUS
<1>3. PICK p : p = Top.node
  OBVIOUS
<1>4. p \in DOMAIN node /\ e \in DOMAIN node
  BY <1>1, <1>2, <1>3 DEF Frame
<1>5. PICK c : c = node[p].children
  OBVIOUS
<1>6. c \in Seq(DOMAIN node) /\ node[p] \in Struct(DOMAIN node)
  BY <1>4, <1>5 DEF TypeOK, Struct
<1>7. PICK d : d = Append(c, e)
  OBVIOUS
<1>8. d \in Seq(DOMAIN node) /\ ToSet(d) = ToSet(c) \cup {e}
  BY <1>4, <1>6, <1>7, AppendProperties, AppendRange DEF ToSet
<1>9. node' = [node EXCEPT ![p].children = d]
  BY <1>2, <1>3, <1>5, <1>7 DEF Adopt
<1> QED
  BY <1>2, <1>3, <1>4, <1>5, <1>6, <1>8, <1>9 DEF TypeOK, Struct

(* What the type invariant says of one call.                               *)
LEMMA CallsTyped ==
  ASSUME TypeOK
  PROVE  /\ Len(stack) \in Nat /\ DOMAIN stack = 1 .. Len(stack)
         /\ stack # <<>> <=> Len(stack) >= 1
         /\ stack # <<>> => Top = stack[Len(stack)] /\ Len(stack) \in DOMAIN stack
         /\ \A i \in DOMAIN stack :
              /\ stack[i] \in Frame(DOMAIN node)
              /\ stack[i].node \in DOMAIN node /\ stack[i].node \in Nat
              /\ stack[i].element \in Nat /\ stack[i].key \in Nat
<1>1. stack \in Seq(Frame(DOMAIN node))
  BY DEF TypeOK, Frame
<1>2. /\ Len(stack) \in Nat /\ DOMAIN stack = 1 .. Len(stack)
      /\ stack # <<>> => Len(stack) \in Nat \ {0}
      /\ Len(<<>>) = 0
  BY <1>1, LenProperties, EmptySeq
<1>3. \A i \in DOMAIN stack : stack[i] \in Frame(DOMAIN node)
  BY <1>1, <1>2, ElementOfSeq
<1>4. DOMAIN node \subseteq Names /\ Names \subseteq Nat
  BY Numbers DEF TypeOK
<1>5. stack # <<>> <=> Len(stack) >= 1
  BY <1>2
<1>6. stack # <<>> => Len(stack) \in DOMAIN stack
  BY <1>2
<1>7. \A i \in DOMAIN stack :
        /\ stack[i].node \in DOMAIN node /\ stack[i].node \in Nat
        /\ stack[i].element \in Nat /\ stack[i].key \in Nat
  BY <1>3, <1>4 DEF Frame
<1>8. Top = stack[Len(stack)]
  BY DEF Top, Last
<1> QED
  BY <1>2, <1>3, <1>5, <1>6, <1>7, <1>8

(* Nodes and elements of the calls become later towards the top.           *)
LEMMA CallsNest ==
  ASSUME TypeOK, Calls, stack # <<>>, mode \in {"value", "colon", "return", "fail"}
  PROVE  /\ Pending(Len(stack))
         /\ Top.element \in DOMAIN node /\ Top.element # Root
         /\ \A i \in DOMAIN stack : stack[i].node < Top.element
         /\ \A i \in DOMAIN stack : i # Len(stack) => stack[i].element < Top.element
<1>1. PICK n : n = Len(stack)
  OBVIOUS
<1>2. /\ n \in DOMAIN stack /\ Top = stack[n] /\ DOMAIN stack = 1 .. n /\ n \in Nat
      /\ \A i \in DOMAIN stack :
           stack[i].node \in Nat /\ stack[i].element \in Nat
  BY <1>1, CallsTyped
<1>3. \A i \in DOMAIN stack : Pending(i)
  BY DEF Pending
<1>4. \A i \in DOMAIN stack : stack[i].element \in DOMAIN node /\ stack[i].node < stack[i].element
  BY <1>3 DEF Calls
<1>5. \A i \in DOMAIN stack : i # n => stack[i].element <= stack[n].node
  <2>1. \A i \in DOMAIN stack : i # n => i < n
    BY <1>2
  <2> QED
    BY <1>2, <2>1 DEF Calls
<1>6. ASSUME NEW i \in DOMAIN stack
      PROVE  /\ stack[i].node < stack[n].element
             /\ i # n => stack[i].element < stack[n].element
  <2>1. stack[i].node < stack[i].element /\ stack[n].node < stack[n].element
    BY <1>2, <1>4
  <2>2. i # n => stack[i].element <= stack[n].node
    BY <1>5
  <2> QED
    BY <1>2, <2>1, <2>2
<1> QED
  BY <1>1, <1>2, <1>3, <1>4, <1>6, Numbers

(* The struct that parseNext fills in is there.                            *)
LEMMA TargetIsThere ==
  ASSUME JsonInv, mode = "value"
  PROVE  /\ target \in DOMAIN node
         /\ \A i \in DOMAIN stack : stack[i].node < target
         /\ \A i \in DOMAIN stack : i # Len(stack) => stack[i].element < target
         /\ \A i \in DOMAIN stack : i = Len(stack) => stack[i].element = target
<1>1. CASE stack = <<>>
  <2>1. DOMAIN stack = {}
    BY <1>1, CallsTyped DEF JsonInv
  <2> QED
    BY <1>1, <2>1 DEF JsonInv, Building, target
<1>2. CASE stack # <<>>
  BY <1>2, CallsNest, CallsTyped DEF JsonInv, target
<1> QED
  BY <1>1, <1>2

LEMMA ChildrenAreNodes ==
  ASSUME TypeOK, NEW n \in DOMAIN node
  PROVE  ToSet(node[n].children) \subseteq DOMAIN node
<1>1. node[n].children \in Seq(DOMAIN node)
  BY DEF TypeOK
<1> QED
  BY <1>1, LenProperties, ElementOfSeq DEF ToSet

-----------------------------------------------------------------------------
(* A value is read: the target gets its type, and either the call returns  *)
(* or an array or object is open.                                          *)
ValueRead(type, text) ==
  /\ mode = "value" /\ Current # "end"
  /\ type \in Scalars \cup {"string", "array", "object"} /\ text \in Names
  /\ Set(target, type, text)
  /\ Advance
  /\ IF type = "string" THEN text = Here /\ Current \in Strings /\ texts' = texts \cup {Here}
     ELSE text = 0 /\ texts' = texts
  /\ \/ /\ type \in Scalars \cup {"string"}
        /\ mode' = "return" /\ stack' = stack
     \/ /\ type \in {"array", "object"}
        /\ mode' = "open"
        /\ stack' = Append(stack, [node |-> target, element |-> 0, key |-> 0])
  /\ UNCHANGED <<err, answer>>

LEMMA ValueKeepsInv ==
  ASSUME JsonInv, NEW type, NEW text, ValueRead(type, text)
  PROVE  JsonInv'
<1> USE DEF ValueRead
<1>0. /\ TypeOK /\ Forest /\ Calls /\ InputRead /\ Root \in DOMAIN node
      /\ TypesSet /\ AllReachable /\ TextsOwned /\ TextsRead
  BY DEF JsonInv, Building
<1>a. mode' \in {"return", "open"}
  OBVIOUS
<1>1. /\ input' \in Seq(Tokens \cup {"end"})
      /\ Here \in Nat /\ Here' = Here + 1
      /\ DOMAIN input = 1 .. Here /\ DOMAIN input' = 1 .. Here + 1
      /\ \A i \in 1 .. Here : input'[i] = input[i]
      /\ Here' \in 1 .. MaxTokens + 1
      /\ Here' > MaxTokens => Current' = "end"
  BY <1>0, Advanced
<1>2. PICK t : t = target
  OBVIOUS
<1>3. /\ t \in DOMAIN node
      /\ \A i \in DOMAIN stack : stack[i].node < t
      /\ \A i \in DOMAIN stack : i # Len(stack) => stack[i].element < t
      /\ \A i \in DOMAIN stack : i = Len(stack) => stack[i].element = t
  BY <1>2, TargetIsThere
<1>4. PICK nd : nd = node'
  OBVIOUS
<1>5. /\ DOMAIN nd = DOMAIN node
      /\ nd \in [DOMAIN node -> Struct(DOMAIN node)]
      /\ \A m \in DOMAIN node : nd[m].children = node[m].children
      /\ \A m \in DOMAIN node : m # t => nd[m] = node[m]
      /\ nd[t].type = type /\ nd[t].text = text
  BY <1>0, <1>2, <1>3, <1>4, SetNode
<1>6. PICK st : st = stack'
  OBVIOUS
<1>7. /\ Len(stack) \in Nat /\ DOMAIN stack = 1 .. Len(stack)
      /\ stack \in Seq(Frame(DOMAIN node))
      /\ \A i \in DOMAIN stack :
           /\ stack[i].node \in DOMAIN node /\ stack[i].node \in Nat
           /\ stack[i].element \in Nat /\ stack[i].key \in Nat
  BY <1>0, CallsTyped DEF TypeOK, Frame
<1>8. /\ st \in Seq(Frame(DOMAIN node))
      /\ Len(st) \in Nat /\ DOMAIN st = 1 .. Len(st)
      /\ \A i \in DOMAIN stack : i \in DOMAIN st /\ st[i] = stack[i]
      /\ \A i \in DOMAIN st : i \notin DOMAIN stack =>
           /\ mode' = "open" /\ type \in {"array", "object"}
           /\ i = Len(stack) + 1 /\ st[i].node = t
      /\ mode' = "open" => st # <<>> /\ Len(st) = Len(stack) + 1
      /\ mode' = "return" => st = stack
  <2>1. CASE mode' = "return"
    <3>1. st = stack
      BY <1>6, <2>1
    <3> QED
      BY <1>7, <2>1, <3>1
  <2>2. CASE mode' = "open"
    <3>1. PICK f : f = [node |-> t, element |-> 0, key |-> 0]
      OBVIOUS
    <3>2. f \in Frame(DOMAIN node) /\ f.node = t
      BY <1>3, <3>1, Numbers DEF Frame
    <3>3. st = Append(stack, f) /\ type \in {"array", "object"}
      BY <1>2, <1>6, <2>2, <3>1
    <3>4. /\ st \in Seq(Frame(DOMAIN node)) /\ st # <<>> /\ Len(st) = Len(stack) + 1
          /\ \A i \in 1 .. Len(stack) : st[i] = stack[i]
          /\ st[Len(stack) + 1] = f
      BY <1>7, <3>2, <3>3, AppendProperties
    <3>5. DOMAIN st = 1 .. Len(stack) + 1
      BY <3>4, LenProperties
    <3> QED
      BY <1>7, <2>2, <3>2, <3>3, <3>4, <3>5
  <2> QED
    BY <1>a, <2>1, <2>2
<1>9. \A i : (Pending(i) <=> i \in DOMAIN stack) /\ (Pending(i)' <=> i \in DOMAIN stack)
  <2>1. \A i : Pending(i) <=> i \in DOMAIN stack
    BY DEF Pending
  <2>2. \A i : Pending(i)' <=> i \in DOMAIN st /\ (i < Len(st) \/ mode' = "return")
    BY <1>a, <1>6 DEF Pending
  <2>3. CASE mode' = "return"
    BY <1>8, <2>1, <2>2, <2>3
  <2>4. CASE mode' = "open"
    <3>1. \A i : i \in DOMAIN st /\ i < Len(st) <=> i \in DOMAIN stack
      BY <1>7, <1>8, <2>4
    <3> QED
      BY <2>1, <2>2, <2>4, <3>1
  <2> QED
    BY <1>a, <2>3, <2>4
<1>10. \A i \in DOMAIN stack : nd[stack[i].node] = node[stack[i].node]
  BY <1>3, <1>5, <1>7, Numbers DEF TypeOK
<1>11. \A i : HasKey(i)' <=> HasKey(i)
  BY <1>4, <1>6, <1>8, <1>9, <1>10, Zenon DEF HasKey
<1>12. \A n \in DOMAIN node : ToSet(nd[n].children) = ToSet(node[n].children)
  BY <1>5
<1>13. \A n \in DOMAIN node : \A c : ChildOf(c, n)' <=> ChildOf(c, n)
  BY <1>4, <1>12 DEF ChildOf
<1>14. DOMAIN node \subseteq Names /\ Names \subseteq Nat
  BY <1>0, Numbers DEF TypeOK
<1>15. TypeOK'
  <2>1. texts' \subseteq Names
    BY <1>0 DEF TypeOK
  <2>2. err' \in 0 .. Len(input')
    BY <1>0, <1>1 DEF TypeOK, Here
  <2> QED
    BY <1>0, <1>1, <1>4, <1>5, <1>6, <1>8, <2>1, <2>2, Zenon DEF TypeOK, Struct, Frame
<1>16. Forest'
  BY <1>0, <1>4, <1>5, <1>12, <1>13 DEF Forest
<1>17. Calls'
  <2>1. \A i \in DOMAIN st : nd[st[i].node].type \in {"array", "object"}
    <3> SUFFICES ASSUME NEW i \in DOMAIN st PROVE nd[st[i].node].type \in {"array", "object"}
      OBVIOUS
    <3>1. CASE i \in DOMAIN stack
      BY <1>0, <1>8, <1>10, <3>1, Zenon DEF Calls
    <3>2. CASE i \notin DOMAIN stack
      BY <1>5, <1>8, <3>2, Zenon
    <3> QED
      BY <3>1, <3>2
  <2>2. \A i \in DOMAIN stack :
          /\ st[i].element \in DOMAIN nd
          /\ st[i].node < st[i].element
          /\ \A n \in DOMAIN nd : ~ ChildOf(st[i].element, n)'
    BY <1>0, <1>5, <1>8, <1>9, <1>13, Zenon DEF Calls
  <2>3. \A i \in DOMAIN stack : HasKey(i) => st[i].key = st[i].element
    BY <1>0, <1>8, Zenon DEF Calls
  <2>4. \A i, j \in DOMAIN st : i < j => st[i].element <= st[j].node
    <3> SUFFICES ASSUME NEW i \in DOMAIN st, NEW j \in DOMAIN st, i < j
                 PROVE  st[i].element <= st[j].node
      OBVIOUS
    <3>1. i \in DOMAIN stack
      <4>1. i \in 1 .. Len(st) /\ j \in 1 .. Len(st)
        BY <1>8, Zenon
      <4>2. Len(st) <= Len(stack) + 1
        <5>1. CASE mode' = "open"
          BY <1>7, <1>8, <5>1
        <5>2. CASE mode' = "return"
          BY <1>7, <1>8, <5>2
        <5> QED
          BY <1>a, <5>1, <5>2
      <4>3. PICK k, l : k = Len(stack) /\ l = Len(st)
        BY Zenon
      <4>4. k \in Nat /\ l \in Nat /\ i \in 1 .. l /\ j \in 1 .. l /\ l <= k + 1
        BY <1>7, <1>8, <4>1, <4>2, <4>3, Zenon
      <4>5. i \in 1 .. k
        BY <4>4
      <4> QED
        BY <1>7, <4>3, <4>5
    <3>2. CASE j \in DOMAIN stack
      BY <1>0, <1>8, <3>1, <3>2, Zenon DEF Calls
    <3>3. CASE j \notin DOMAIN stack
      <4>1. st[j].node = t
        BY <1>8, <3>3, Zenon
      <4>2. stack[i].element < t \/ stack[i].element = t
        BY <1>3, <3>1
      <4> QED
        <5>1. st[i].element = stack[i].element /\ stack[i].element \in Nat /\ t \in Nat
          BY <1>3, <1>7, <1>8, <1>14, <3>1, Zenon
        <5> QED
          BY <4>1, <4>2, <5>1
    <3> QED
      BY <3>2, <3>3
  <2>5. \A i : HasKey(i) => i \in DOMAIN stack
    BY <1>9 DEF HasKey
  <2>6. mode' = "open" => st # <<>>
    BY <1>8
  <2>7. \A i \in DOMAIN st :
          /\ Pending(i)' => /\ st[i].element \in DOMAIN nd
                            /\ st[i].node < st[i].element
                            /\ \A n \in DOMAIN nd : ~ ChildOf(st[i].element, n)'
          /\ HasKey(i)' => st[i].key = st[i].element
    BY <1>9, <1>11, <2>2, <2>3, <2>5
  <2> HIDE DEF ValueRead
  <2> QED
    BY <1>a, <1>4, <1>6, <2>1, <2>4, <2>6, <2>7 DEF Calls, Building
<1>18. InputRead'
  <2>1. \A n \in DOMAIN node : n < Here + 1
    <3>1. \A n \in DOMAIN node : n < Here \/ n = Here
      BY <1>0 DEF InputRead, Building
    <3>2. PICK h \in Nat : h = Here
      BY <1>1
    <3>3. \A n \in DOMAIN node : n \in Nat /\ (n < h \/ n = h)
      BY <1>14, <3>1, <3>2, Zenon
    <3>4. \A n \in Nat : n < h \/ n = h => n < h + 1
      OBVIOUS
    <3> HIDE DEF ValueRead
    <3> QED
      BY <3>2, <3>3, <3>4, Zenon
  <2>2. \A s \in texts' : s < Here + 1
    <3>1. \A s \in texts : s < Here /\ s \in Nat
      BY <1>0, <1>14 DEF InputRead, Building, TypeOK
    <3> QED
      BY <1>1, <3>1
  <2> QED
    BY <1>a, <1>1, <1>4, <1>5, <2>1, <2>2 DEF InputRead, Building
<1>19. TypesSet'
  <2>1. \A n \in DOMAIN nd : nd[n].type # "uninitialised"
    BY <1>0, <1>2, <1>5 DEF TypesSet, Scalars
  <2> QED
    BY <1>a, <1>4, <2>1 DEF TypesSet
<1>20. AllReachable'
  BY <1>0, <1>4, <1>5, <1>6, <1>8, <1>9, <1>13, Zenon DEF AllReachable
<1>21. KeyInElement(t) => node[t].type = "string" /\ node[t].text = Top.key
  BY <1>0, <1>2, <1>3 DEF TypesSet
<1>22. ~ KeyInElement(t) => node[t].type # "string"
  BY <1>0, <1>2, <1>3 DEF TypesSet
<1>23. \A i \in DOMAIN stack : HasKey(i) =>
         stack[i].key \in texts /\ stack[i].key # text /\ stack[i].key = stack[i].element
  <2> SUFFICES ASSUME NEW i \in DOMAIN stack, HasKey(i)
               PROVE  stack[i].key \in texts /\ stack[i].key # text /\ stack[i].key = stack[i].element
    OBVIOUS
  <2>1. stack[i].key \in texts /\ stack[i].key = stack[i].element
    BY <1>0 DEF TextsOwned, Calls
  <2>2. stack[i].key < Here
    BY <1>0, <2>1 DEF InputRead, Building
  <2>3. stack[i].node < stack[i].element
    BY <1>0, <1>9 DEF Calls
  <2> QED
    BY <1>1, <1>7, <2>1, <2>2, <2>3
<1>24. TextsOwned'
  <2>1. ASSUME NEW s \in texts'
        PROVE  \/ \E n \in DOMAIN nd : nd[n].type = "string" /\ s = nd[n].text
               \/ \E i \in DOMAIN st : HasKey(i)' /\ s = st[i].key
    <3>1. CASE type = "string" /\ s = Here
      BY <1>3, <1>5, <3>1
    <3>2. CASE s \in texts
      <4>1. CASE \E i \in DOMAIN stack : HasKey(i) /\ s = stack[i].key
        BY <1>8, <1>11, <4>1, Zenon
      <4>2. CASE \E n \in DOMAIN node : n # t /\ node[n].type = "string" /\ s = node[n].text
        BY <1>5, <4>2
      <4>3. CASE node[t].type = "string" /\ s = node[t].text
        <5>1. KeyInElement(t) /\ s = Top.key
          BY <1>21, <1>22, <4>3
        <5>2. stack # <<>> /\ HasKey(Len(stack))
          BY <5>1 DEF KeyInElement
        <5>3. Len(stack) \in DOMAIN stack /\ Top = stack[Len(stack)]
          BY <1>0, <5>2, CallsTyped
        <5> QED
          BY <1>8, <1>11, <5>1, <5>2, <5>3, Zenon
      <4> QED
        BY <1>0, <3>2, <4>1, <4>2, <4>3 DEF TextsOwned, IsString
    <3> QED
      BY <3>1, <3>2
  <2>2. ASSUME NEW n \in DOMAIN nd, nd[n].type = "string"
        PROVE  nd[n].text \in texts'
    BY <1>0, <1>5, <2>2 DEF TextsOwned, IsString
  <2>3. ASSUME NEW i \in DOMAIN stack, HasKey(i)
        PROVE  /\ stack[i].key \in texts'
               /\ \A n \in DOMAIN nd : ~ (nd[n].type = "string" /\ nd[n].text = stack[i].key)
    <3>1. stack[i].key \in texts'
      BY <1>23, <2>3
    <3>2. ASSUME NEW n \in DOMAIN nd, nd[n].type = "string", nd[n].text = stack[i].key
          PROVE  FALSE
      <4>1. n # t
        BY <1>5, <1>23, <2>3, <3>2
      <4>2. node[n].type = "string" /\ node[n].text = stack[i].key
        BY <1>5, <3>2, <4>1
      <4>3. i = Len(stack) /\ n = Top.element
        BY <1>0, <1>5, <2>3, <4>2 DEF TextsOwned, IsString
      <4>4. Top.element = t
        BY <1>0, <1>3, <1>7, <4>3, CallsTyped
      <4> QED
        BY <4>1, <4>3, <4>4
    <3> QED
      BY <3>1, <3>2
  <2>4. \A i : HasKey(i) => i \in DOMAIN stack
    BY <1>9 DEF HasKey
  <2>5. \A i \in DOMAIN st : HasKey(i)' =>
          /\ st[i].key \in texts'
          /\ \A n \in DOMAIN nd : ~ (nd[n].type = "string" /\ nd[n].text = st[i].key)
    BY <1>8, <1>11, <2>3, <2>4, Zenon
  <2>6. \A n : IsString(n)' <=> n \in DOMAIN nd /\ nd[n].type = "string"
    BY <1>4 DEF IsString
  <2> QED
    BY <1>4, <1>6, <2>1, <2>2, <2>5, <2>6 DEF TextsOwned
<1>25. TextsRead'
  <2>1. \A s : IsText(s) => IsText(s)'
    BY <1>1 DEF IsText
  <2>2. type = "string" => IsText(text)'
    <3>1. Current = input[Here] /\ Here \in 1 .. Here
      BY <1>0, <1>1 DEF InputRead, Current, Last, Here
    <3> QED
      BY <1>1, <3>1 DEF IsText
  <2>3. ToSet(node[t].children) = {}
    <3>1. node[t].children = <<>>
      BY <1>0, <1>2, <1>3 DEF TypesSet
    <3> QED
      BY <3>1, EmptySeq, LenProperties DEF ToSet
  <2>4. \A n \in DOMAIN nd :
          /\ nd[n].type = "string" => IsText(nd[n].text)'
          /\ nd[n].type = "object" => \A c \in ToSet(nd[n].children) : IsText(c)'
    BY <1>0, <1>5, <1>12, <2>1, <2>2, <2>3 DEF TextsRead
  <2>5. \A i \in DOMAIN stack : HasKey(i) => IsText(st[i].key)'
    BY <1>0, <1>8, <2>1, Zenon DEF TextsRead
  <2>6. \A i : HasKey(i) => i \in DOMAIN stack
    BY <1>9 DEF HasKey
  <2> QED
    BY <1>4, <1>6, <1>11, <2>4, <2>5, <2>6 DEF TextsRead
<1>26. Root \in DOMAIN node'
  BY <1>0, <1>4, <1>5
<1> QED
  BY <1>a, <1>15, <1>16, <1>17, <1>18, <1>19, <1>20, <1>24, <1>25, <1>26 DEF JsonInv

-----------------------------------------------------------------------------
(* An element is created, of an array without and of an object with key.   *)
ElementCreated(new, call, isMember) ==
  /\ mode \in {"open", "key"} /\ stack # <<>>
  /\ node' = [m \in DOMAIN node \cup {Here} |-> IF m = Here THEN new ELSE node[m]]
  /\ stack' = Append(Front(stack), call)
  /\ call = [Top EXCEPT !.element = Here, !.key = IF isMember THEN Here ELSE @]
  /\ IF isMember
     THEN /\ Inside("object")
          /\ new = [Fresh EXCEPT !.type = "string", !.text = Here]
          /\ Current \in Strings
          /\ Advance
          /\ texts' = texts \cup {Here}
          /\ mode' = "colon"
     ELSE /\ Inside("array")
          /\ new = Fresh
          /\ mode' = "value"
          /\ UNCHANGED <<input, texts>>
  /\ UNCHANGED <<err, answer>>

LEMMA ElementKeepsInv ==
  ASSUME JsonInv, NEW new, NEW call, NEW isMember \in BOOLEAN,
         ElementCreated(new, call, isMember)
  PROVE  JsonInv'
<1> USE DEF ElementCreated
<1>0. /\ TypeOK /\ Forest /\ Calls /\ InputRead /\ Root \in DOMAIN node
      /\ TypesSet /\ AllReachable /\ TextsOwned /\ TextsRead
  BY DEF JsonInv, Building
<1>a. mode' \in {"value", "colon"} /\ (isMember <=> mode' = "colon")
  OBVIOUS
<1>b. PICK here : here = Here
  OBVIOUS
<1>c. DOMAIN node \subseteq Names /\ Names \subseteq Nat
  <2>1. Names \subseteq Nat
    BY Numbers
  <2> QED
    BY <1>0, <2>1 DEF TypeOK
<1>d. /\ here \in Nat /\ here >= 1 /\ here \in Names
      /\ \A n \in DOMAIN node : n < here
      /\ \A t \in texts : t < here /\ t \in Nat
  <2>1. here \in 1 .. MaxTokens + 1
    BY <1>0, <1>b DEF InputRead
  <2>2. here \in Nat /\ here >= 1 /\ here \in Names
    BY <2>1, Numbers
  <2>3. \A n \in DOMAIN node : n < here
    BY <1>0, <1>b DEF InputRead, Building
  <2>4. \A t \in texts : t < here
    BY <1>0, <1>b DEF InputRead, Building
  <2>5. \A t \in texts : t \in Nat
    BY <1>0, <1>c DEF TypeOK
  <2> QED
    BY <2>2, <2>3, <2>4, <2>5
<1>1. /\ input' \in Seq(Tokens \cup {"end"})
      /\ DOMAIN input = 1 .. here
      /\ \A i \in DOMAIN input : i \in DOMAIN input' /\ input'[i] = input[i]
      /\ Here' = IF isMember THEN here + 1 ELSE here
      /\ Here' \in 1 .. MaxTokens + 1
      /\ Here' > MaxTokens => Current' = "end"
  <2>1. CASE isMember
    <3>1. Current # "end"
      BY <2>1 DEF Strings
    <3>2. /\ input' \in Seq(Tokens \cup {"end"})
          /\ Here \in Nat /\ Here' = Here + 1
          /\ DOMAIN input = 1 .. Here /\ DOMAIN input' = 1 .. Here + 1
          /\ \A i \in 1 .. Here : input'[i] = input[i]
          /\ Here' \in 1 .. MaxTokens + 1
          /\ Here' > MaxTokens => Current' = "end"
      BY <1>0, <2>1, <3>1, Advanced
    <3> QED
      BY <1>b, <2>1, <3>2
  <2>2. CASE ~ isMember
    <3>1. input' = input
      BY <2>2
    <3>2. Here' = Here /\ Current' = Current
      BY <3>1 DEF Here, Current
    <3>3. DOMAIN input = 1 .. here
      BY <1>0, <1>b, LenProperties DEF TypeOK, Here
    <3> QED
      BY <1>0, <1>b, <2>2, <3>1, <3>2, <3>3 DEF TypeOK, InputRead
  <2> QED
    BY <2>1, <2>2
<1>2. PICK nd : nd = node'
  OBVIOUS
<1>3. /\ new \in Struct({}) /\ new.children = <<>> /\ new.text \in Names
      /\ IF isMember THEN new.type = "string" /\ new.text = here
         ELSE new.type = "uninitialised"
  <2>1. <<>> \in Seq({}) /\ 0 \in Names
    BY EmptySeq, Numbers
  <2>2. CASE isMember
    <3>1. new = [type |-> "string", text |-> here, children |-> <<>>]
      BY <1>b, <2>2 DEF Fresh
    <3>2. new \in Struct({}) /\ new.children = <<>> /\ new.text = here /\ new.type = "string"
      BY <1>d, <2>1, <3>1 DEF Struct
    <3> HIDE DEF ElementCreated
    <3> QED
      BY <1>d, <2>2, <3>2
  <2>3. CASE ~ isMember
    <3>1. new = [type |-> "uninitialised", text |-> 0, children |-> <<>>]
      BY <2>3 DEF Fresh
    <3>2. new \in Struct({}) /\ new.children = <<>> /\ new.text \in Names
          /\ new.type = "uninitialised"
      BY <2>1, <3>1 DEF Struct
    <3> HIDE DEF ElementCreated
    <3> QED
      BY <2>3, <3>2
  <2>4. isMember \/ ~ isMember
    OBVIOUS
  <2> HIDE DEF ElementCreated
  <2> QED
    BY <2>2, <2>3, <2>4
<1>4. /\ DOMAIN nd = DOMAIN node \cup {here}
      /\ \A m \in DOMAIN node : m # here /\ nd[m] = node[m]
      /\ nd[here] = new
  BY <1>b, <1>2, <1>d
<1>5. nd \in [DOMAIN nd -> Struct(DOMAIN nd)]
  <2>1. \A m \in DOMAIN node : node[m] \in Struct(DOMAIN nd)
    <3>1. \A m \in DOMAIN node : node[m] \in Struct(DOMAIN node)
      BY <1>0 DEF TypeOK, Struct
    <3>2. \A s \in Seq(DOMAIN node) : s \in Seq(DOMAIN nd)
      BY <1>4, SeqMonotonic
    <3> QED
      BY <3>1, <3>2 DEF Struct
  <2>2. new \in Struct(DOMAIN nd)
    <3>1. \A s \in Seq({}) : s \in Seq(DOMAIN nd)
      BY SeqMonotonic
    <3> QED
      BY <1>3, <3>1 DEF Struct
  <2>3. \A m \in DOMAIN nd : nd[m] \in Struct(DOMAIN nd)
    BY <1>4, <2>1, <2>2
  <2>4. nd = [m \in DOMAIN nd |-> nd[m]]
    BY <1>2
  <2> QED
    BY <2>3, <2>4
<1>6. PICK st : st = stack'
  OBVIOUS
<1>7. PICK k : k = Len(stack)
  OBVIOUS
<1>8. /\ k \in Nat /\ k >= 1 /\ DOMAIN stack = 1 .. k /\ Top = stack[k] /\ k \in DOMAIN stack
      /\ stack \in Seq(Frame(DOMAIN node))
      /\ \A i \in DOMAIN stack :
           /\ stack[i] \in Frame(DOMAIN node)
           /\ stack[i].node \in DOMAIN node /\ stack[i].node \in Nat
           /\ stack[i].element \in Nat /\ stack[i].key \in Nat
  BY <1>0, <1>7, CallsTyped DEF TypeOK, Frame
<1>9. /\ call \in Frame(DOMAIN nd) /\ call.node = Top.node /\ call.element = here
      /\ isMember => call.key = here
  BY <1>b, <1>d, <1>4, <1>8 DEF Frame
<1>10. /\ st \in Seq(Frame(DOMAIN nd)) /\ Len(st) = k /\ DOMAIN st = 1 .. k /\ st # <<>>
       /\ \A i \in DOMAIN stack : i # k => st[i] = stack[i]
       /\ st[k] = call
  <2>1. Frame(DOMAIN node) \subseteq Frame(DOMAIN nd)
    BY <1>4 DEF Frame
  <2>2. /\ st \in Seq(Frame(DOMAIN nd)) /\ Len(st) = k
        /\ \A i \in 1 .. k - 1 : st[i] = stack[i]
        /\ st[k] = call
    <3>1. stack \in Seq(Frame(DOMAIN node)) /\ stack # <<>> /\ st = Append(Front(stack), call)
      BY <1>6, <1>8
    <3>2. /\ Append(Front(stack), call) \in Seq(Frame(DOMAIN nd))
          /\ Len(Append(Front(stack), call)) = Len(stack)
          /\ \A i \in 1 .. Len(stack) - 1 : Append(Front(stack), call)[i] = stack[i]
          /\ Append(Front(stack), call)[Len(stack)] = call
      BY <1>9, <2>1, <3>1, ReplaceLast, SMTT(30)
    <3> QED
      BY <1>7, <3>1, <3>2
  <2>3. DOMAIN st = 1 .. k
    BY <2>2, LenProperties
  <2>4. \A i \in DOMAIN stack : i # k => i \in 1 .. k - 1
    BY <1>8
  <2> QED
    BY <1>8, <2>2, <2>3, <2>4, EmptySeq
<1>11. \A i : /\ Pending(i) <=> i \in DOMAIN stack /\ i # k
              /\ Pending(i)' <=> i \in DOMAIN stack
  <2>1. \A i : Pending(i) <=> i \in DOMAIN stack /\ i < k
    BY <1>7 DEF Pending
  <2>2. \A i : Pending(i)' <=> i \in DOMAIN stack
    BY <1>a, <1>6, <1>8, <1>10 DEF Pending
  <2>3. \A i \in DOMAIN stack : i < k <=> i # k
    BY <1>8
  <2> QED
    BY <2>1, <2>2, <2>3
<1>13. node[Top.node].type = IF isMember THEN "object" ELSE "array"
  BY DEF Inside
<1>e. /\ texts' = IF isMember THEN texts \cup {here} ELSE texts
      /\ err' = err /\ answer' = answer
      /\ isMember => Current \in Strings
      /\ mode \in {"open", "key"}
  BY <1>b
<1> HIDE DEF ElementCreated
<1>12. \A i \in DOMAIN stack : st[i].node = stack[i].node /\ nd[st[i].node] = node[stack[i].node]
  BY <1>4, <1>8, <1>9, <1>10
<1>14. \A i : HasKey(i)' <=> HasKey(i) \/ (i = k /\ isMember)
  <2>1. \A i : HasKey(i)' <=> i \in DOMAIN stack /\ node[stack[i].node].type = "object"
    BY <1>2, <1>6, <1>11, <1>12 DEF HasKey
  <2>2. \A i : HasKey(i) <=> i \in DOMAIN stack /\ i # k /\ node[stack[i].node].type = "object"
    BY <1>11 DEF HasKey
  <2> QED
    BY <1>8, <1>13, <2>1, <2>2
<1>15. /\ \A n \in DOMAIN node : ToSet(nd[n].children) = ToSet(node[n].children)
       /\ ToSet(nd[here].children) = {}
  BY <1>3, <1>4, EmptySeq, LenProperties DEF ToSet
<1>16. \A n \in DOMAIN nd : \A c : ChildOf(c, n)' <=> n \in DOMAIN node /\ ChildOf(c, n)
  BY <1>2, <1>4, <1>15 DEF ChildOf
<1>17. TypeOK'
  <2>1. texts' \subseteq Names
    BY <1>0, <1>b, <1>d, <1>e DEF TypeOK
  <2>2. err' \in 0 .. Len(input')
    BY <1>0, <1>1, <1>b, <1>d, <1>e DEF TypeOK, Here
  <2>3. DOMAIN nd \subseteq Names
    BY <1>4, <1>c, <1>d
  <2>4. nd \in [DOMAIN nd ->
          [type : Scalars \cup {"uninitialised", "string", "array", "object"},
           text : Names, children : Seq(DOMAIN nd)]]
    BY <1>5 DEF Struct
  <2>5. st \in Seq([node : DOMAIN nd, element : Names, key : Names])
    BY <1>10 DEF Frame
  <2>6. answer' \in [text : Seq(Printed), size : Nat, pieces : Seq(Seq(Printed))]
    BY <1>0, <1>e DEF TypeOK
  <2> QED
    BY <1>a, <1>1, <1>2, <1>6, <2>1, <2>2, <2>3, <2>4, <2>5, <2>6 DEF TypeOK
<1>18. Forest'
  <2>1. \A n \in DOMAIN nd : \A c \in ToSet(nd[n].children) : n < c
    BY <1>0, <1>4, <1>15 DEF Forest
  <2>2. \A m, n \in DOMAIN nd : \A c \in Names : ChildOf(c, m)' /\ ChildOf(c, n)' => m = n
    BY <1>0, <1>16 DEF Forest
  <2> QED
    BY <1>2, <2>1, <2>2 DEF Forest
<1>19. Calls'
  <2>1. \A i \in DOMAIN st : nd[st[i].node].type \in {"array", "object"}
    BY <1>0, <1>8, <1>10, <1>12 DEF Calls
  <2>2. \A i \in DOMAIN stack : i # k =>
          /\ st[i].element \in DOMAIN nd
          /\ st[i].node < st[i].element
          /\ \A n \in DOMAIN nd : ~ ChildOf(st[i].element, n)'
          /\ HasKey(i) => st[i].key = st[i].element
    BY <1>0, <1>4, <1>10, <1>11, <1>16 DEF Calls
  <2>3. /\ st[k].element \in DOMAIN nd
        /\ st[k].node < st[k].element
        /\ \A n \in DOMAIN nd : ~ ChildOf(st[k].element, n)'
        /\ isMember => st[k].key = st[k].element
    <3>1. \A n \in DOMAIN node : here \notin ToSet(node[n].children)
      BY <1>0, <1>4, ChildrenAreNodes
    <3>2. st[k].element = here /\ st[k].node = stack[k].node /\ (isMember => st[k].key = here)
      BY <1>8, <1>9, <1>10
    <3>3. stack[k].node < here
      BY <1>8, <1>d
    <3>4. \A n \in DOMAIN nd : ~ ChildOf(here, n)'
      BY <1>16, <3>1 DEF ChildOf
    <3> QED
      BY <1>4, <3>2, <3>3, <3>4
  <2>4. \A i, j \in DOMAIN st : i < j => st[i].element <= st[j].node
    <3> SUFFICES ASSUME NEW i \in DOMAIN st, NEW j \in DOMAIN st, i < j
                 PROVE  st[i].element <= st[j].node
      OBVIOUS
    <3>1. i \in DOMAIN stack /\ j \in DOMAIN stack /\ i # k
      BY <1>8, <1>10
    <3>2. stack[i].element <= stack[j].node
      BY <1>0, <3>1 DEF Calls
    <3> QED
      BY <1>10, <1>12, <3>1, <3>2
  <2>5. mode' = "colon" => nd[Last(st).node].type = "object"
    BY <1>a, <1>8, <1>10, <1>12, <1>13 DEF Last
  <2>6. \A i : HasKey(i) => i \in DOMAIN stack /\ i # k
    BY <1>11 DEF HasKey
  <2>7. \A i \in DOMAIN st :
          /\ Pending(i)' => /\ st[i].element \in DOMAIN nd
                            /\ st[i].node < st[i].element
                            /\ \A n \in DOMAIN nd : ~ ChildOf(st[i].element, n)'
          /\ HasKey(i)' => st[i].key = st[i].element
    BY <1>8, <1>10, <1>14, <2>2, <2>3, <2>6
  <2>8. mode' = "colon" => node'[Top'.node].type = "object"
    BY <1>2, <1>6, <2>5 DEF Top
  <2> QED
    BY <1>a, <1>2, <1>6, <1>10, <2>1, <2>4, <2>7, <2>8 DEF Calls, Building
<1>20. InputRead'
  <2>1. \A n \in DOMAIN nd : n < Here' \/ (mode' = "value" /\ n = Here')
    <3> SUFFICES ASSUME NEW n \in DOMAIN nd
                 PROVE  n < Here' \/ (mode' = "value" /\ n = Here')
      OBVIOUS
    <3>1. CASE isMember
      <4>1. Here' = here + 1 /\ n \in Nat /\ (n < here \/ n = here)
        BY <1>1, <1>4, <1>c, <1>d, <3>1
      <4> QED
        BY <1>d, <4>1
    <3>2. CASE ~ isMember
      <4>1. Here' = here /\ mode' = "value" /\ (n < here \/ n = here)
        BY <1>a, <1>1, <1>4, <1>d, <3>2
      <4> QED
        BY <4>1
    <3> QED
      BY <3>1, <3>2
  <2>2. \A t \in texts' : t < Here'
    BY <1>a, <1>1, <1>b, <1>d, <1>e
  <2> QED
    BY <1>a, <1>1, <1>2, <2>1, <2>2 DEF InputRead, Building
<1>21. target' = here
  BY <1>6, <1>7, <1>9, <1>10 DEF target, Top, Last
<1>22. TypesSet'
  <2>1. \A n \in DOMAIN node : nd[n].type # "uninitialised" /\ n # here
    BY <1>0, <1>4, <1>e DEF TypesSet
  <2>2. CASE isMember
    <3>1. new.type = "string" /\ new.text = here
      BY <1>3, <2>2
    <3>2. HasKey(k)'
      BY <1>14, <2>2
    <3>3. Top'.element = here /\ Top'.key = here /\ stack' # <<>> /\ Len(stack') = k
      BY <1>6, <1>9, <1>10, <2>2 DEF Top, Last
    <3>4. KeyInElement(here)'
      BY <3>2, <3>3 DEF KeyInElement
    <3>5. \A n \in DOMAIN nd : /\ nd[n].type # "uninitialised"
                               /\ n = here => /\ nd[n].children = <<>> /\ KeyInElement(n)'
                                              /\ nd[n].type = "string" /\ nd[n].text = Top'.key
      BY <1>3, <1>4, <2>1, <3>1, <3>3, <3>4
    <3> QED
      BY <1>2, <1>21, <3>5 DEF TypesSet
  <2>3. CASE ~ isMember
    <3>1. new.type = "uninitialised"
      BY <1>3, <2>3
    <3>2. ~ KeyInElement(here)'
      <4>1. Len(stack') = k
        BY <1>6, <1>10
      <4>2. ~ HasKey(k)'
        BY <1>11, <1>14, <2>3 DEF HasKey
      <4> QED
        BY <4>1, <4>2 DEF KeyInElement
    <3>3. \A n \in DOMAIN nd : /\ nd[n].type = "uninitialised" => n = here
                               /\ n = here => /\ nd[n].children = <<>> /\ ~ KeyInElement(n)'
                                              /\ nd[n].type = "uninitialised"
      BY <1>3, <1>4, <2>1, <3>1, <3>2
    <3>4. mode' = "value"
      BY <1>a, <2>3
    <3> QED
      BY <1>2, <1>21, <3>3, <3>4 DEF TypesSet
  <2> QED
    BY <2>2, <2>3
<1>23. AllReachable'
  <2>1. \A n \in DOMAIN node :
          \/ n = Root
          \/ \E m \in DOMAIN nd : ChildOf(n, m)'
          \/ \E i \in DOMAIN st : Pending(i)' /\ n = st[i].element
    <3> SUFFICES ASSUME NEW n \in DOMAIN node, n # Root
                 PROVE  \/ \E m \in DOMAIN nd : ChildOf(n, m)'
                        \/ \E i \in DOMAIN st : Pending(i)' /\ n = st[i].element
      OBVIOUS
    <3>1. CASE \E m \in DOMAIN node : ChildOf(n, m)
      BY <1>4, <1>16, <3>1
    <3>2. CASE \E i \in DOMAIN stack : Pending(i) /\ n = stack[i].element
      BY <1>8, <1>10, <1>11, <3>2
    <3> QED
      BY <1>0, <3>1, <3>2 DEF AllReachable
  <2>2. k \in DOMAIN st /\ Pending(k)' /\ here = st[k].element
    BY <1>8, <1>9, <1>10, <1>11
  <2>3. \A n \in DOMAIN nd :
          \/ n = Root
          \/ \E m \in DOMAIN nd : ChildOf(n, m)'
          \/ \E i \in DOMAIN st : Pending(i)' /\ n = st[i].element
    BY <1>4, <2>1, <2>2
  <2>4. Root' = Root
    BY DEF Root
  <2> QED
    BY <1>2, <1>6, <2>3, <2>4 DEF AllReachable
<1>24. TextsOwned'
  <2>0. \A i : HasKey(i) => i \in DOMAIN stack /\ i # k
    BY <1>11 DEF HasKey
  <2>1. ASSUME NEW t \in texts'
        PROVE  \/ \E n \in DOMAIN nd : nd[n].type = "string" /\ t = nd[n].text
               \/ \E i \in DOMAIN st : HasKey(i)' /\ t = st[i].key
    <3>1. CASE isMember /\ t = here
      BY <1>8, <1>9, <1>10, <1>14, <3>1
    <3>2. CASE t \in texts
      <4>1. CASE \E n \in DOMAIN node : IsString(n) /\ t = node[n].text
        BY <1>4, <4>1 DEF IsString
      <4>2. CASE \E i \in DOMAIN stack : HasKey(i) /\ t = stack[i].key
        BY <1>8, <1>10, <1>14, <2>0, <4>2
      <4> QED
        BY <1>0, <3>2, <4>1, <4>2 DEF TextsOwned
    <3> QED
      BY <1>b, <1>e, <3>1, <3>2
  <2>2. ASSUME NEW n \in DOMAIN nd, nd[n].type = "string"
        PROVE  nd[n].text \in texts'
    <3>1. CASE n = here
      BY <1>b, <1>e, <1>3, <1>4, <2>2, <3>1
    <3>2. CASE n \in DOMAIN node
      BY <1>0, <1>4, <1>e, <2>2, <3>2 DEF TextsOwned, IsString
    <3> QED
      BY <1>4, <3>1, <3>2
  <2>3. ASSUME NEW i \in DOMAIN st, HasKey(i)'
        PROVE  /\ st[i].key \in texts'
               /\ \A n \in DOMAIN nd : nd[n].type = "string" /\ nd[n].text = st[i].key =>
                    isMember /\ i = k /\ n = here
    <3>1. CASE i = k
      <4>1. isMember /\ st[i].key = here
        BY <1>9, <1>10, <1>14, <2>0, <2>3, <3>1
      <4>2. \A n \in DOMAIN node : node[n].type = "string" => node[n].text # here
        BY <1>0, <1>d DEF TextsOwned, IsString
      <4> QED
        BY <1>b, <1>4, <1>e, <3>1, <4>1, <4>2
    <3>2. CASE i # k
      <4>1. i \in DOMAIN stack /\ HasKey(i) /\ st[i].key = stack[i].key
        BY <1>8, <1>10, <1>14, <2>3, <3>2
      <4>2. \A n \in DOMAIN node : ~ (node[n].type = "string" /\ node[n].text = stack[i].key)
        BY <1>0, <1>7, <1>e, <3>2, <4>1 DEF TextsOwned, IsString
      <4>3. stack[i].key \in texts
        BY <1>0, <4>1 DEF TextsOwned
      <4>4. new.type = "string" => new.text = here
        BY <1>3
      <4>5. stack[i].key # here
        BY <1>d, <4>3
      <4> QED
        BY <1>4, <1>e, <4>1, <4>2, <4>3, <4>4, <4>5
    <3> QED
      BY <3>1, <3>2
  <2>4. \A n : IsString(n)' <=> n \in DOMAIN nd /\ nd[n].type = "string"
    BY <1>2 DEF IsString
  <2>5. Top'.element = here /\ Len(stack') = k
    BY <1>6, <1>9, <1>10 DEF Top, Last
  <2>6. \A t \in texts' : \/ \E n \in DOMAIN nd : IsString(n)' /\ t = nd[n].text
                          \/ \E i \in DOMAIN st : HasKey(i)' /\ t = st[i].key
    BY <2>1, <2>4
  <2>7. \A n \in DOMAIN nd : IsString(n)' => nd[n].text \in texts'
    BY <2>2, <2>4
  <2>8. \A i \in DOMAIN st : HasKey(i)' =>
          /\ st[i].key \in texts'
          /\ \A n \in DOMAIN nd : IsString(n)' /\ nd[n].text = st[i].key =>
               mode' \in {"value", "colon"} /\ i = Len(stack') /\ n = Top'.element
    BY <1>a, <2>3, <2>4, <2>5
  <2> QED
    BY <1>2, <1>6, <2>6, <2>7, <2>8 DEF TextsOwned
<1>25. TextsRead'
  <2>1. \A t : IsText(t) => IsText(t)'
    BY <1>1 DEF IsText
  <2>2. isMember => IsText(here)'
    <3>1. Current = input[here] /\ here \in DOMAIN input
      BY <1>b, <1>d, <1>1 DEF Current, Last, Here
    <3> QED
      BY <1>1, <1>e, <3>1 DEF IsText
  <2>3. \A n \in DOMAIN nd :
          /\ nd[n].type = "string" => IsText(nd[n].text)'
          /\ nd[n].type = "object" => \A c \in ToSet(nd[n].children) : IsText(c)'
    <3>1. /\ new.type = "string" => isMember /\ new.text = here
          /\ new.type # "object"
      BY <1>3
    <3> QED
      BY <1>0, <1>4, <1>15, <2>1, <2>2, <3>1 DEF TextsRead
  <2>4. \A i \in DOMAIN st : HasKey(i)' => IsText(st[i].key)'
    <3> SUFFICES ASSUME NEW i \in DOMAIN st, HasKey(i)' PROVE IsText(st[i].key)'
      OBVIOUS
    <3>1. \A j : HasKey(j) => j \in DOMAIN stack /\ j # k
      BY <1>11 DEF HasKey
    <3>2. CASE i = k
      BY <1>9, <1>10, <1>14, <2>2, <3>1, <3>2
    <3>3. CASE i # k
      <4>1. i \in DOMAIN stack /\ HasKey(i) /\ st[i].key = stack[i].key
        BY <1>8, <1>10, <1>14, <3>3
      <4> QED
        BY <1>0, <2>1, <4>1 DEF TextsRead
    <3> QED
      BY <3>2, <3>3
  <2> QED
    BY <1>2, <1>6, <2>3, <2>4 DEF TextsRead
<1>26. Root \in DOMAIN node'
  BY <1>0, <1>2, <1>4
<1> QED
  BY <1>a, <1>17, <1>18, <1>19, <1>20, <1>22, <1>23, <1>24, <1>25, <1>26 DEF JsonInv

-----------------------------------------------------------------------------
(* A value that was an element becomes the last of its array or object,    *)
(* and the call goes on, returns, or fails.                                *)
ElementAdopted ==
  /\ mode = "return" /\ stack # <<>>
  /\ Adopt
  /\ texts' = IF Inside("object") THEN texts \ {Top.key} ELSE texts
  /\ \/ /\ Current # "end" /\ Advance
        /\ mode' \in {"open", "key"} /\ (mode' = "key" => Inside("object"))
        /\ UNCHANGED <<stack, err>>
     \/ /\ Current # "end" /\ Advance
        /\ mode' = "return"
        /\ Pop
        /\ UNCHANGED err
     \/ Fail /\ Pop
  /\ UNCHANGED answer

LEMMA AdoptionKeepsInv ==
  ASSUME JsonInv, ElementAdopted
  PROVE  JsonInv'
<1> USE DEF ElementAdopted
<1>0. /\ TypeOK /\ Forest /\ Calls /\ InputRead /\ Root \in DOMAIN node
      /\ TypesSet /\ AllReachable /\ TextsOwned /\ TextsRead
  BY DEF JsonInv, Building
<1>a. mode' \in {"open", "key", "return", "fail"}
  BY DEF Fail
<1>b. PICK k, e, p, key : k = Len(stack) /\ e = Top.element /\ p = Top.node /\ key = Top.key
  OBVIOUS
<1>1. /\ input' \in Seq(Tokens \cup {"end"})
      /\ \A i \in DOMAIN input : i \in DOMAIN input' /\ input'[i] = input[i]
      /\ Here \in Nat /\ Here' \in Nat /\ Here <= Here' /\ err' \in 0 .. Here'
      /\ Here' \in 1 .. MaxTokens + 1
      /\ Here' > MaxTokens => Current' = "end"
      /\ mode' # "fail" => Here' = Here + 1
  <2>1. CASE Current # "end" /\ Advance /\ mode' \in {"open", "key", "return"} /\ UNCHANGED err
    <3>1. /\ input' \in Seq(Tokens \cup {"end"})
          /\ Here \in Nat /\ Here' = Here + 1
          /\ DOMAIN input = 1 .. Here /\ DOMAIN input' = 1 .. Here + 1
          /\ \A i \in 1 .. Here : input'[i] = input[i]
          /\ Here' \in 1 .. MaxTokens + 1
          /\ Here' > MaxTokens => Current' = "end"
      BY <1>0, <2>1, Advanced
    <3>2. err' \in 0 .. Here
      BY <1>0, <2>1 DEF TypeOK, Here
    <3> QED
      BY <2>1, <3>1, <3>2
  <2>2. CASE Fail
    <3>1. input' = input /\ err' = Here /\ mode' = "fail"
      BY <2>2 DEF Fail
    <3>2. Here' = Here /\ Current' = Current
      BY <3>1 DEF Here, Current
    <3>3. Here \in 1 .. MaxTokens + 1 /\ (Here > MaxTokens => Current = "end")
      BY <1>0 DEF InputRead
    <3>4. input \in Seq(Tokens \cup {"end"})
      BY <1>0 DEF TypeOK
    <3>5. Here \in Nat
      BY <3>3, Numbers
    <3> QED
      BY <3>1, <3>2, <3>3, <3>4, <3>5
  <2> QED
    BY <2>1, <2>2
<1>2. /\ k \in Nat /\ k >= 1 /\ DOMAIN stack = 1 .. k /\ Top = stack[k] /\ k \in DOMAIN stack
      /\ stack \in Seq(Frame(DOMAIN node))
      /\ \A i \in DOMAIN stack :
           /\ stack[i].node \in DOMAIN node /\ stack[i].node \in Nat
           /\ stack[i].element \in Nat /\ stack[i].key \in Nat
  BY <1>0, <1>b, CallsTyped DEF TypeOK, Frame
<1>3. /\ Pending(k) /\ e \in DOMAIN node /\ e # Root
      /\ \A i \in DOMAIN stack : stack[i].node < e
      /\ \A i \in DOMAIN stack : i # k => stack[i].element < e
  BY <1>0, <1>b, CallsNest
<1>4. PICK nd : nd = node'
  OBVIOUS
<1>5. /\ DOMAIN nd = DOMAIN node
      /\ nd \in [DOMAIN node -> Struct(DOMAIN node)]
      /\ \A m \in DOMAIN node : nd[m].type = node[m].type /\ nd[m].text = node[m].text
      /\ \A m \in DOMAIN node : m # p => nd[m] = node[m]
      /\ ToSet(nd[p].children) = ToSet(node[p].children) \cup {e}
      /\ p \in DOMAIN node
  BY <1>0, <1>3, <1>b, <1>4, Adopted
<1>6. PICK st : st = stack'
  OBVIOUS
<1>7. /\ st \in Seq(Frame(DOMAIN node)) /\ DOMAIN st = 1 .. Len(st)
      /\ \A i \in DOMAIN st : i \in DOMAIN stack /\ st[i] = stack[i]
      /\ \A i \in DOMAIN stack : i # k => i \in DOMAIN st
      /\ mode' \in {"open", "key"} => st = stack /\ Len(st) = k
      /\ mode' \in {"return", "fail"} => Len(st) = k - 1
  <2>1. CASE mode' \in {"open", "key"}
    <3>1. st = stack
      BY <1>6, <2>1 DEF Fail
    <3> QED
      BY <1>2, <1>b, <2>1, <3>1, Zenon
  <2>2. CASE mode' \in {"return", "fail"}
    <3>1. st = Front(stack)
      BY <1>6, <2>2 DEF Fail, Pop
    <3>2. /\ st \in Seq(Frame(DOMAIN node)) /\ Len(st) = k - 1
          /\ \A i \in 1 .. k - 1 : st[i] = stack[i]
      BY <1>2, <1>b, <3>1, FrontOf, Zenon
    <3>3. DOMAIN st = 1 .. k - 1
      BY <3>2, LenProperties
    <3>4. \A i \in 1 .. k : i # k <=> i \in 1 .. k - 1
      BY <1>2
    <3>5. \A i \in 1 .. k - 1 : i \in 1 .. k
      BY <1>2
    <3> QED
      BY <1>2, <2>2, <3>2, <3>3, <3>4, <3>5
  <2> QED
    BY <1>a, <2>1, <2>2
<1>8. \A i : /\ Pending(i) <=> i \in DOMAIN stack
             /\ Pending(i)' <=> i \in DOMAIN stack /\ i # k
  <2>1. \A i : Pending(i) <=> i \in DOMAIN stack
    BY DEF Pending
  <2>2. CASE mode' \in {"open", "key"}
    <3>1. \A i : Pending(i)' <=> i \in DOMAIN stack /\ i < k
      BY <1>6, <1>7, <2>2 DEF Pending
    <3>2. \A i \in DOMAIN stack : i < k <=> i # k
      BY <1>2
    <3> QED
      BY <2>1, <3>1, <3>2
  <2>3. CASE mode' \in {"return", "fail"}
    <3>1. \A i : Pending(i)' <=> i \in DOMAIN st
      BY <1>6, <2>3 DEF Pending
    <3>2. DOMAIN st = 1 .. k - 1
      BY <1>7, <2>3
    <3>3. \A i : i \in 1 .. k - 1 <=> i \in 1 .. k /\ i # k
      BY <1>2
    <3> QED
      BY <1>2, <2>1, <3>1, <3>2, <3>3
  <2> QED
    BY <1>a, <2>2, <2>3
<1>9. /\ \A i : HasKey(i)' <=> HasKey(i) /\ i # k
      /\ \A i : HasKey(i) => i \in DOMAIN stack
      /\ HasKey(k) <=> Inside("object")
  <2>1. \A i : HasKey(i)' <=> i \in DOMAIN stack /\ i # k /\ nd[st[i].node].type = "object"
    BY <1>4, <1>6, <1>8 DEF HasKey
  <2>2. \A i : HasKey(i) <=> i \in DOMAIN stack /\ node[stack[i].node].type = "object"
    BY <1>8 DEF HasKey
  <2>3. \A i \in DOMAIN stack : i # k => nd[st[i].node].type = node[stack[i].node].type
    BY <1>2, <1>5, <1>7, Zenon
  <2> QED
    BY <1>2, <2>1, <2>2, <2>3 DEF Inside
<1>10. \A n \in DOMAIN node : \A c : ChildOf(c, n)' <=> ChildOf(c, n) \/ (n = p /\ c = e)
  BY <1>4, <1>5 DEF ChildOf
<1>11. \A n \in DOMAIN node : ~ ChildOf(e, n)
  BY <1>0, <1>2, <1>3, <1>b DEF Calls
<1>12. DOMAIN node \subseteq Names /\ Names \subseteq Nat
  <2>1. Names \subseteq Nat
    BY Numbers
  <2> QED
    BY <1>0, <2>1 DEF TypeOK
<1>13. p < e /\ p \in Nat /\ e \in Nat
  BY <1>2, <1>3, <1>5, <1>12, <1>b
<1>14. TypeOK'
  <2>1. texts' \subseteq Names
    BY <1>0 DEF TypeOK
  <2>2. nd \in [DOMAIN nd ->
          [type : Scalars \cup {"uninitialised", "string", "array", "object"},
           text : Names, children : Seq(DOMAIN nd)]]
    BY <1>5 DEF Struct
  <2>3. st \in Seq([node : DOMAIN nd, element : Names, key : Names])
    BY <1>5, <1>7 DEF Frame
  <2>4. err' \in 0 .. Len(input')
    BY <1>1 DEF Here
  <2>5. answer' \in [text : Seq(Printed), size : Nat, pieces : Seq(Seq(Printed))]
    BY <1>0 DEF TypeOK
  <2> QED
    BY <1>a, <1>1, <1>4, <1>5, <1>6, <1>12, <2>1, <2>2, <2>3, <2>4, <2>5 DEF TypeOK
<1>15. Forest'
  <2>1. ASSUME NEW n \in DOMAIN nd, NEW c \in ToSet(nd[n].children)
        PROVE  n < c
    <3>1. CASE c \in ToSet(node[n].children)
      BY <1>0, <1>5, <3>1 DEF Forest
    <3>2. CASE n = p /\ c = e
      BY <1>13, <3>2
    <3> QED
      BY <1>5, <3>1, <3>2
  <2>2. \A m, n \in DOMAIN nd : \A c \in Names : ChildOf(c, m)' /\ ChildOf(c, n)' => m = n
    BY <1>0, <1>5, <1>10, <1>11 DEF Forest
  <2> QED
    BY <1>4, <2>1, <2>2 DEF Forest
<1>16. Calls'
  <2>1. \A i \in DOMAIN st : nd[st[i].node].type \in {"array", "object"}
    <3> SUFFICES ASSUME NEW i \in DOMAIN st PROVE nd[st[i].node].type \in {"array", "object"}
      OBVIOUS
    <3>1. i \in DOMAIN stack /\ st[i] = stack[i] /\ stack[i].node \in DOMAIN node
      BY <1>2, <1>7
    <3>2. node[stack[i].node].type \in {"array", "object"}
      BY <1>0, <3>1 DEF Calls
    <3> QED
      BY <1>5, <3>1, <3>2
  <2>2. \A i \in DOMAIN st : i # k =>
          /\ st[i].element \in DOMAIN nd
          /\ st[i].node < st[i].element
          /\ \A n \in DOMAIN nd : ~ ChildOf(st[i].element, n)'
    <3> SUFFICES ASSUME NEW i \in DOMAIN st, i # k
                 PROVE  /\ st[i].element \in DOMAIN nd
                        /\ st[i].node < st[i].element
                        /\ \A n \in DOMAIN nd : ~ ChildOf(st[i].element, n)'
      OBVIOUS
    <3>1. i \in DOMAIN stack /\ st[i] = stack[i] /\ Pending(i)
      BY <1>7, <1>8
    <3>2. /\ stack[i].element \in DOMAIN node
          /\ stack[i].node < stack[i].element
          /\ \A n \in DOMAIN node : ~ ChildOf(stack[i].element, n)
      BY <1>0, <3>1 DEF Calls
    <3>3. stack[i].element # e
      BY <1>2, <1>3, <1>13, <3>1
    <3> QED
      BY <1>5, <1>10, <3>1, <3>2, <3>3
  <2>3. \A i \in DOMAIN st : HasKey(i)' => st[i].key = st[i].element
    BY <1>0, <1>7, <1>9 DEF Calls
  <2>4. \A i, j \in DOMAIN st : i < j => st[i].element <= st[j].node
    BY <1>0, <1>7 DEF Calls
  <2>5. mode' \in {"open", "key"} => st # <<>>
    BY <1>7
  <2>6. mode' = "key" => nd[Last(st).node].type = "object"
    <3> SUFFICES ASSUME mode' = "key" PROVE nd[Last(st).node].type = "object"
      OBVIOUS
    <3>1. Last(st) = Top /\ Inside("object")
      BY <1>7 DEF Fail, Last, Top
    <3> QED
      BY <1>5, <1>b, <3>1 DEF Inside
  <2>7. mode' = "key" => node'[Top'.node].type = "object"
    BY <1>4, <1>6, <2>6 DEF Top
  <2>8. \A i : Pending(i)' => i # k
    BY <1>8
  <2> QED
    BY <1>a, <1>4, <1>6, <2>1, <2>2, <2>3, <2>4, <2>5, <2>7, <2>8 DEF Calls, Building
<1>17. InputRead'
  <2>1. \A n \in DOMAIN node : n < Here
    BY <1>0 DEF InputRead, Building
  <2>2. \A t \in texts : t < Here /\ t \in Nat
    BY <1>0, <1>12 DEF InputRead, Building, TypeOK
  <2>3. \A n \in DOMAIN nd : n < Here'
    <3>1. PICK h, g : h = Here /\ g = Here'
      BY Zenon
    <3>2. h \in Nat /\ g \in Nat /\ h <= g
      BY <1>1, <3>1, Zenon
    <3>3. \A n \in DOMAIN nd : n \in Nat /\ n < h
      BY <1>5, <1>12, <2>1, <3>1, Zenon
    <3>4. \A n \in Nat : n < h => n < g
      BY <3>2
    <3> QED
      BY <3>1, <3>3, <3>4, Zenon
  <2>4. \A t \in texts' : t < Here'
    BY <1>1, <2>2
  <2> QED
    BY <1>1, <1>4, <2>3, <2>4 DEF InputRead
<1>18. TypesSet'
  <2>1. \A n \in DOMAIN nd : nd[n].type # "uninitialised"
    BY <1>0, <1>5 DEF TypesSet
  <2> QED
    BY <1>a, <1>4, <2>1 DEF TypesSet
<1>19. AllReachable'
  <2>1. ASSUME NEW n \in DOMAIN nd, n # Root
        PROVE  \/ \E m \in DOMAIN nd : ChildOf(n, m)'
               \/ \E i \in DOMAIN st : Pending(i)' /\ n = st[i].element
    <3>1. CASE n = e
      BY <1>5, <1>10, <3>1
    <3>2. CASE \E m \in DOMAIN node : ChildOf(n, m)
      BY <1>5, <1>10, <3>2
    <3>3. CASE \E i \in DOMAIN stack : i # k /\ n = stack[i].element
      BY <1>7, <1>8, <3>3
    <3>4. n \in DOMAIN node /\ stack[k].element = e
      BY <1>2, <1>5, <1>b
    <3> QED
      BY <1>0, <2>1, <3>1, <3>2, <3>3, <3>4 DEF AllReachable
  <2>2. Root' = Root
    BY DEF Root
  <2> QED
    BY <1>4, <1>6, <2>1, <2>2 DEF AllReachable
<1>20. HasKey(k) => key = e
  BY <1>0, <1>2, <1>b DEF Calls
<1>21. \A n : IsString(n)' <=> IsString(n)
  BY <1>4, <1>5 DEF IsString
<1>22. TextsOwned'
  <2>1. ASSUME NEW t \in texts'
        PROVE  \/ \E n \in DOMAIN nd : IsString(n)' /\ t = nd[n].text
               \/ \E i \in DOMAIN st : HasKey(i)' /\ t = st[i].key
    <3>1. t \in texts /\ (HasKey(k) => t # key)
      BY <1>9, <1>b
    <3>2. CASE \E n \in DOMAIN node : IsString(n) /\ t = node[n].text
      BY <1>5, <1>21, <3>2
    <3>3. CASE \E i \in DOMAIN stack : HasKey(i) /\ t = stack[i].key
      <4>1. PICK i \in DOMAIN stack : HasKey(i) /\ t = stack[i].key
        BY <3>3
      <4>2. i # k
        BY <1>2, <1>b, <3>1, <4>1
      <4> QED
        BY <1>7, <1>9, <4>1, <4>2
    <3> QED
      BY <1>0, <3>1, <3>2, <3>3 DEF TextsOwned
  <2>2. ASSUME NEW n \in DOMAIN nd, IsString(n)'
        PROVE  nd[n].text \in texts'
    <3>1. IsString(n) /\ node[n].text \in texts
      BY <1>0, <1>5, <1>21, <2>2 DEF TextsOwned
    <3>2. HasKey(k) => node[n].text # key
      BY <1>0, <1>2, <1>5, <1>b, <3>1 DEF TextsOwned
    <3> QED
      BY <1>5, <1>9, <1>b, <3>1, <3>2
  <2>3. ASSUME NEW i \in DOMAIN st, HasKey(i)'
        PROVE  /\ st[i].key \in texts'
               /\ \A n \in DOMAIN nd : ~ (IsString(n)' /\ nd[n].text = st[i].key)
    <3>1. HasKey(i) /\ i # k /\ i \in DOMAIN stack /\ st[i] = stack[i]
      BY <1>7, <1>9, <2>3
    <3>2. /\ stack[i].key \in texts
          /\ \A n \in DOMAIN node : ~ (IsString(n) /\ node[n].text = stack[i].key)
      BY <1>0, <3>1 DEF TextsOwned
    <3>3. stack[i].key = stack[i].element /\ stack[i].element < e
      BY <1>0, <1>3, <3>1 DEF Calls
    <3>4. HasKey(k) => stack[i].key # key
      BY <1>2, <1>13, <1>20, <3>1, <3>3
    <3> QED
      BY <1>5, <1>9, <1>21, <1>b, <3>1, <3>2, <3>4
  <2> QED
    BY <1>4, <1>6, <2>1, <2>2, <2>3 DEF TextsOwned
<1>23. TextsRead'
  <2>1. \A t : IsText(t) => IsText(t)'
    BY <1>1 DEF IsText
  <2>2. node[p].type = "object" => IsText(e)
    <3>1. node[p].type = "object" => HasKey(k)
      BY <1>9, <1>b DEF Inside
    <3>2. HasKey(k) => IsText(key)
      BY <1>0, <1>2, <1>b DEF TextsRead
    <3> QED
      BY <1>20, <3>1, <3>2
  <2>3. ASSUME NEW n \in DOMAIN nd
        PROVE  /\ nd[n].type = "string" => IsText(nd[n].text)'
               /\ nd[n].type = "object" => \A c \in ToSet(nd[n].children) : IsText(c)'
    <3>1. CASE n # p
      BY <1>0, <1>5, <2>1, <3>1 DEF TextsRead
    <3>2. CASE n = p
      BY <1>0, <1>5, <2>1, <2>2, <3>2 DEF TextsRead
    <3> QED
      BY <3>1, <3>2
  <2>4. \A i \in DOMAIN st : HasKey(i)' => IsText(st[i].key)'
    BY <1>0, <1>7, <1>9, <2>1 DEF TextsRead
  <2> QED
    BY <1>4, <1>6, <2>3, <2>4 DEF TextsRead
<1>24. Root \in DOMAIN node'
  BY <1>0, <1>4, <1>5
<1> QED
  BY <1>a, <1>14, <1>15, <1>16, <1>17, <1>18, <1>19, <1>22, <1>23, <1>24 DEF JsonInv

-----------------------------------------------------------------------------
(* A step that leaves the structs alone and reads on: the end of an array  *)
(* or object without a last element, and the colon behind a key.           *)
ReadOn ==
  /\ Current # "end" /\ Advance
  /\ \/ /\ mode = "open" /\ mode' = "return"
        /\ Pop
     \/ /\ mode = "colon" /\ mode' = "value"
        /\ UNCHANGED stack
  /\ UNCHANGED <<node, texts, err, answer>>

LEMMA ReadingKeepsInv ==
  ASSUME JsonInv, ReadOn
  PROVE  JsonInv'
<1> USE DEF ReadOn
<1>0. /\ TypeOK /\ Forest /\ Calls /\ InputRead /\ Root \in DOMAIN node
      /\ TypesSet /\ AllReachable /\ TextsOwned /\ TextsRead
  BY DEF JsonInv, Building
<1>a. mode' \in {"return", "value"} /\ node' = node /\ texts' = texts /\ Root' = Root
  BY DEF Root
<1>b. PICK k : k = Len(stack)
  OBVIOUS
<1>1. /\ input' \in Seq(Tokens \cup {"end"})
      /\ Here \in Nat /\ Here' = Here + 1
      /\ DOMAIN input = 1 .. Here /\ DOMAIN input' = 1 .. Here + 1
      /\ \A i \in 1 .. Here : input'[i] = input[i]
      /\ Here' \in 1 .. MaxTokens + 1
      /\ Here' > MaxTokens => Current' = "end"
  BY <1>0, Advanced
<1>2. /\ k \in Nat /\ k >= 1 /\ DOMAIN stack = 1 .. k /\ Top = stack[k] /\ k \in DOMAIN stack
      /\ stack \in Seq(Frame(DOMAIN node)) /\ stack # <<>>
      /\ \A i \in DOMAIN stack :
           /\ stack[i].node \in DOMAIN node /\ stack[i].node \in Nat
           /\ stack[i].element \in Nat /\ stack[i].key \in Nat
  <2>1. stack # <<>>
    BY <1>0 DEF Calls
  <2> QED
    BY <1>0, <1>b, <2>1, CallsTyped DEF TypeOK, Frame
<1>3. PICK st : st = stack'
  OBVIOUS
<1>4. /\ st \in Seq(Frame(DOMAIN node)) /\ DOMAIN st = 1 .. Len(st)
      /\ \A i \in DOMAIN st : i \in DOMAIN stack /\ st[i] = stack[i]
      /\ mode = "colon" => st = stack
      /\ mode = "open" => Len(st) = k - 1 /\ DOMAIN st = 1 .. k - 1
  <2>1. CASE mode = "colon"
    BY <1>2, <1>3, <1>b, <2>1
  <2>2. CASE mode = "open"
    <3>1. st = Front(stack)
      BY <1>3, <2>2 DEF Pop
    <3>2. /\ st \in Seq(Frame(DOMAIN node)) /\ Len(st) = k - 1
          /\ \A i \in 1 .. k - 1 : st[i] = stack[i]
      BY <1>2, <1>b, <3>1, FrontOf, Zenon
    <3>3. DOMAIN st = 1 .. k - 1
      BY <3>2, LenProperties
    <3>4. \A i \in 1 .. k - 1 : i \in 1 .. k
      BY <1>2
    <3> QED
      BY <1>2, <2>2, <3>2, <3>3, <3>4
  <2> QED
    BY <2>1, <2>2
<1>5. \A i : /\ Pending(i)' <=> Pending(i)
             /\ Pending(i) <=> i \in DOMAIN st
  <2>1. \A i : Pending(i)' <=> i \in DOMAIN st
    BY <1>3 DEF Pending
  <2>2. CASE mode = "colon"
    BY <1>4, <2>1, <2>2 DEF Pending
  <2>3. CASE mode = "open"
    <3>1. \A i : Pending(i) <=> i \in 1 .. k /\ i < k
      BY <1>2, <1>b, <2>3 DEF Pending
    <3>2. \A i : i \in 1 .. k /\ i < k <=> i \in 1 .. k - 1
      BY <1>2
    <3> QED
      BY <1>4, <2>1, <2>3, <3>1, <3>2
  <2> QED
    BY <2>2, <2>3
<1>6. \A i : HasKey(i)' <=> HasKey(i)
  BY <1>a, <1>3, <1>4, <1>5 DEF HasKey
<1>7. \A i : HasKey(i) => i \in DOMAIN st
  BY <1>5 DEF HasKey
<1>8. \A n : \A c : ChildOf(c, n)' <=> ChildOf(c, n)
  BY <1>a DEF ChildOf
<1>9. \A n : IsString(n)' <=> IsString(n)
  BY <1>a DEF IsString
<1>10. DOMAIN node \subseteq Names /\ Names \subseteq Nat
  <2>1. Names \subseteq Nat
    BY Numbers
  <2> QED
    BY <1>0, <2>1 DEF TypeOK
<1>11. TypeOK'
  <2>1. err' \in 0 .. Len(input')
    BY <1>0, <1>1 DEF TypeOK, Here
  <2>2. st \in Seq([node : DOMAIN node, element : Names, key : Names])
    BY <1>4 DEF Frame
  <2> QED
    BY <1>0, <1>a, <1>1, <1>3, <2>1, <2>2 DEF TypeOK
<1>12. Forest'
  BY <1>0, <1>a, <1>8 DEF Forest
<1>13. Calls'
  <2>1. \A i \in DOMAIN st :
          /\ node[st[i].node].type \in {"array", "object"}
          /\ st[i].element \in DOMAIN node
          /\ st[i].node < st[i].element
          /\ \A n \in DOMAIN node : ~ ChildOf(st[i].element, n)
          /\ HasKey(i) => st[i].key = st[i].element
          /\ \A j \in DOMAIN st : i < j => st[i].element <= st[j].node
    BY <1>0, <1>4, <1>5 DEF Calls
  <2> QED
    BY <1>a, <1>3, <1>6, <1>8, <2>1 DEF Calls, Building
<1>14. InputRead'
  <2>1. \A n \in DOMAIN node : n < Here + 1
    <3>1. \A n \in DOMAIN node : n < Here
      BY <1>0 DEF InputRead, Building
    <3>2. \A n \in Nat : n < Here => n < Here + 1
      BY <1>1
    <3> QED
      BY <1>10, <3>1, <3>2
  <2>2. \A t \in texts : t < Here + 1
    <3>1. \A t \in texts : t < Here /\ t \in Nat
      BY <1>0, <1>10 DEF InputRead, Building, TypeOK
    <3> QED
      BY <1>1, <3>1
  <2> QED
    BY <1>a, <1>1, <2>1, <2>2 DEF InputRead, Building
<1>15. TypesSet'
  <2>1. CASE mode = "open"
    BY <1>0, <1>a, <2>1 DEF TypesSet
  <2>2. CASE mode = "colon"
    <3>1. st = stack
      BY <1>4, <2>2
    <3>2. target' = target /\ Top' = Top /\ Len(stack') = Len(stack)
      BY <1>3, <3>1 DEF target, Top
    <3>3. \A n : KeyInElement(n)' <=> KeyInElement(n)
      BY <1>3, <1>6, <3>1, <3>2 DEF KeyInElement
    <3> QED
      BY <1>0, <1>a, <2>2, <3>2, <3>3 DEF TypesSet
  <2> QED
    BY <2>1, <2>2
<1>16. AllReachable'
  <2>1. \A n \in DOMAIN node :
          \/ n = Root
          \/ \E m \in DOMAIN node : ChildOf(n, m)
          \/ \E i \in DOMAIN st : Pending(i) /\ n = st[i].element
    BY <1>0, <1>4, <1>5 DEF AllReachable
  <2> QED
    BY <1>a, <1>3, <1>5, <1>8, <2>1 DEF AllReachable
<1>17. TextsOwned'
  <2>1. \A t \in texts : \/ \E n \in DOMAIN node : IsString(n) /\ t = node[n].text
                         \/ \E i \in DOMAIN st : HasKey(i) /\ t = st[i].key
    BY <1>0, <1>4, <1>7 DEF TextsOwned
  <2>2. \A n \in DOMAIN node : IsString(n) => node[n].text \in texts
    BY <1>0 DEF TextsOwned
  <2>3. ASSUME NEW i \in DOMAIN st, HasKey(i)
        PROVE  /\ st[i].key \in texts
               /\ \A n \in DOMAIN node : IsString(n) /\ node[n].text = st[i].key =>
                    mode' \in {"value", "colon"} /\ i = Len(stack') /\ n = Top'.element
    <3>1. /\ stack[i].key \in texts /\ st[i] = stack[i]
          /\ \A n \in DOMAIN node : IsString(n) /\ node[n].text = stack[i].key =>
               mode \in {"value", "colon"} /\ i = Len(stack) /\ n = Top.element
      BY <1>0, <1>4, <2>3 DEF TextsOwned
    <3>2. mode = "colon" => stack' = stack /\ Top' = Top /\ mode' = "value"
      BY DEF Top
    <3> QED
      BY <3>1, <3>2
  <2> QED
    BY <1>a, <1>3, <1>6, <1>9, <2>1, <2>2, <2>3 DEF TextsOwned
<1>18. TextsRead'
  <2>1. \A t : IsText(t) => IsText(t)'
    BY <1>1 DEF IsText
  <2>2. \A i \in DOMAIN st : HasKey(i) => IsText(st[i].key)'
    BY <1>0, <1>4, <2>1 DEF TextsRead
  <2> QED
    BY <1>0, <1>a, <1>3, <1>6, <2>1, <2>2 DEF TextsRead
<1> QED
  BY <1>0, <1>a, <1>11, <1>12, <1>13, <1>14, <1>15, <1>16, <1>17, <1>18 DEF JsonInv

-----------------------------------------------------------------------------
(* An error is found: the innermost call returns, and what it had created  *)
(* for an element is not given back; or parseNext fails for its target.    *)
ErrorFound ==
  /\ Fail
  /\ \/ mode = "value" /\ UNCHANGED stack
     \/ mode \in {"open", "key", "colon"} /\ Pop
  /\ texts' \subseteq texts
  /\ UNCHANGED <<node, answer>>

LEMMA ErrorKeepsInv ==
  ASSUME JsonInv, ErrorFound
  PROVE  JsonInv'
<1> USE DEF ErrorFound, Fail
<1>0. TypeOK /\ Forest /\ Calls /\ InputRead
  BY DEF JsonInv
<1>a. mode' = "fail" /\ node' = node /\ input' = input
  OBVIOUS
<1>b. PICK k : k = Len(stack)
  OBVIOUS
<1>2. /\ k \in Nat /\ DOMAIN stack = 1 .. k
      /\ stack \in Seq(Frame(DOMAIN node))
  BY <1>0, <1>b, CallsTyped DEF TypeOK, Frame
<1>3. PICK st : st = stack'
  OBVIOUS
<1>4. /\ st \in Seq(Frame(DOMAIN node))
      /\ \A i \in DOMAIN st : i \in DOMAIN stack /\ st[i] = stack[i] /\ Pending(i)
  <2>1. CASE mode = "value"
    <3>1. st = stack
      BY <1>3, <2>1
    <3> QED
      BY <1>2, <2>1, <3>1 DEF Pending
  <2>2. CASE mode \in {"open", "key", "colon"}
    <3>1. st = Front(stack) /\ stack # <<>>
      BY <1>0, <1>3, <2>2 DEF Pop, Calls
    <3>2. /\ st \in Seq(Frame(DOMAIN node)) /\ Len(st) = k - 1
          /\ \A i \in 1 .. k - 1 : st[i] = stack[i]
      BY <1>2, <1>b, <3>1, FrontOf, Zenon
    <3>3. DOMAIN st = 1 .. k - 1
      BY <3>2, LenProperties
    <3>4. \A i \in 1 .. k - 1 : i \in 1 .. k /\ i < k
      BY <1>2
    <3> QED
      BY <1>2, <1>b, <3>2, <3>3, <3>4 DEF Pending
  <2> QED
    BY <2>1, <2>2
<1>5. \A i \in DOMAIN st : HasKey(i)' => HasKey(i)
  BY <1>a, <1>3, <1>4 DEF HasKey
<1>6. \A n : \A c : ChildOf(c, n)' <=> ChildOf(c, n)
  BY <1>a DEF ChildOf
<1>7. TypeOK'
  <2>1. st \in Seq([node : DOMAIN node, element : Names, key : Names])
    BY <1>4 DEF Frame
  <2>2. err' \in 0 .. Len(input')
    <3>1. Here \in 1 .. MaxTokens + 1 /\ MaxTokens \in Nat
      BY <1>0, Numbers DEF InputRead
    <3>2. err' = Here /\ Len(input') = Here
      BY <1>a DEF Here
    <3> QED
      BY <3>1, <3>2
  <2>3. texts' \subseteq Names
    BY <1>0 DEF TypeOK
  <2> QED
    BY <1>0, <1>a, <1>3, <2>1, <2>2, <2>3 DEF TypeOK
<1>8. Forest'
  BY <1>0, <1>a, <1>6 DEF Forest
<1>9. Calls'
  <2>1. \A i \in DOMAIN st :
          /\ node[st[i].node].type \in {"array", "object"}
          /\ st[i].element \in DOMAIN node
          /\ st[i].node < st[i].element
          /\ \A n \in DOMAIN node : ~ ChildOf(st[i].element, n)
          /\ HasKey(i) => st[i].key = st[i].element
          /\ \A j \in DOMAIN st : i < j => st[i].element <= st[j].node
    BY <1>0, <1>4 DEF Calls
  <2> QED
    BY <1>a, <1>3, <1>5, <1>6, <2>1 DEF Calls, Building
<1>10. InputRead'
  <2>1. Here' = Here /\ Current' = Current
    BY <1>a DEF Here, Current
  <2> QED
    BY <1>0, <1>a, <2>1 DEF InputRead, Building
<1>11. Root \in DOMAIN node'
  BY <1>a DEF JsonInv, Building
<1> QED
  BY <1>a, <1>7, <1>8, <1>9, <1>10, <1>11 DEF JsonInv, Building, Complete

-----------------------------------------------------------------------------
(* What jsonFree visits: the least set that has n and, with every struct,  *)
(* its children.                                                           *)
Closed(S) == \A m \in S : ToSet(node[m].children) \subseteq S

Below(n) == {m \in DOMAIN node : \A S \in SUBSET DOMAIN node : n \in S /\ Closed(S) => m \in S}

LEMMA BelowParts ==
  ASSUME TypeOK, NEW n \in DOMAIN node
  PROVE  /\ n \in Below(n) /\ Closed(Below(n))
         /\ \A S \in SUBSET DOMAIN node : n \in S /\ Closed(S) => Below(n) \subseteq S
         /\ Below(n) = {n} \cup UNION {Below(c) : c \in ToSet(node[n].children)}
<1>1. \A m \in DOMAIN node : m \in Below(m)
  BY DEF Below
<1>2. ASSUME NEW p \in DOMAIN node PROVE Closed(Below(p))
  <2> SUFFICES ASSUME NEW m \in Below(p), NEW c \in ToSet(node[m].children)
               PROVE  c \in Below(p)
    BY DEF Closed
  <2>1. m \in DOMAIN node /\ c \in DOMAIN node
    BY ChildrenAreNodes DEF Below
  <2>2. ASSUME NEW S \in SUBSET DOMAIN node, p \in S, Closed(S)
        PROVE  c \in S
    BY <2>2 DEF Below, Closed
  <2> QED
    BY <2>1, <2>2 DEF Below
<1>3. \A p \in DOMAIN node : \A S \in SUBSET DOMAIN node :
        p \in S /\ Closed(S) => Below(p) \subseteq S
  BY DEF Below
<1> DEFINE kids  == ToSet(node[n].children)
           union == {n} \cup UNION {Below(c) : c \in kids}
<1>4. kids \subseteq DOMAIN node
  BY ChildrenAreNodes
<1>5. union \subseteq Below(n)
  <2>1. kids \subseteq Below(n)
    BY <1>1, <1>2 DEF Closed
  <2>2. ASSUME NEW c \in kids PROVE Below(c) \subseteq Below(n)
    <3>1. Below(n) \in SUBSET DOMAIN node
      BY DEF Below
    <3> QED
      BY <1>2, <1>3, <1>4, <2>1, <3>1
  <2> QED
    BY <1>1, <2>2
<1>6. Below(n) \subseteq union
  <2>1. union \in SUBSET DOMAIN node
    BY DEF Below
  <2>2. Closed(union)
    <3> SUFFICES ASSUME NEW m \in union PROVE ToSet(node[m].children) \subseteq union
      BY DEF Closed
    <3>1. CASE m = n
      BY <1>1, <1>4, <3>1
    <3>2. CASE m # n
      <4>1. PICK c \in kids : m \in Below(c)
        BY <3>2
      <4>2. ToSet(node[m].children) \subseteq Below(c)
        BY <1>2, <1>4, <4>1 DEF Closed
      <4> QED
        BY <4>1, <4>2
    <3> QED
      BY <3>1, <3>2
  <2>3. n \in union
    OBVIOUS
  <2> HIDE DEF union
  <2> QED
    BY <1>3, <2>1, <2>2, <2>3
<1> QED
  BY <1>1, <1>2, <1>3, <1>5, <1>6

LEMMA TreeIsBelow ==
  ASSUME TypeOK, Forest, NEW n \in DOMAIN node
  PROVE  Tree(n) = Below(n)
<1> DEFINE F(f) == [m \in DOMAIN node |-> {m} \cup UNION {f[c] : c \in ToSet(node[m].children)}]
           iter == CHOOSE f : f = F(f)
           b == [m \in DOMAIN node |-> Below(m)]
<1>1. Tree(n) = iter[n]
  BY DEF Tree
<1>2. b = F(b)
  <2>1. ASSUME NEW m \in DOMAIN node
        PROVE  Below(m) = {m} \cup UNION {b[c] : c \in ToSet(node[m].children)}
    <3>1. \A c \in ToSet(node[m].children) : b[c] = Below(c)
      BY ChildrenAreNodes
    <3>2. Below(m) = {m} \cup UNION {Below(c) : c \in ToSet(node[m].children)}
      BY BelowParts
    <3> HIDE DEF b
    <3> QED
      BY <3>1, <3>2
  <2>2. F(b) = [m \in DOMAIN node |-> {m} \cup UNION {b[c] : c \in ToSet(node[m].children)}]
    OBVIOUS
  <2> QED
    BY <2>1, <2>2
<1>3. iter = F(iter)
  <2> HIDE DEF F, b
  <2> QED
    BY <1>2
<1>4. \A m \in DOMAIN node : iter[m] = {m} \cup UNION {iter[c] : c \in ToSet(node[m].children)}
  <2>1. F(iter) = [m \in DOMAIN node |-> {m} \cup UNION {iter[c] : c \in ToSet(node[m].children)}]
    OBVIOUS
  <2> HIDE DEF iter, F
  <2> QED
    BY <1>3, <2>1
<1> HIDE DEF iter, F, b
<1> DEFINE Differ == {m \in DOMAIN node : iter[m] # Below(m)}
           Far == {MaxTokens + 1 - m : m \in Differ}
<1>5. DOMAIN node \subseteq 0 .. MaxTokens + 1 /\ MaxTokens \in Nat
  BY Numbers DEF TypeOK
<1>6. Differ = {}
  <2> SUFFICES ASSUME Differ # {} PROVE FALSE
    OBVIOUS
  <2>1. Far \subseteq Nat /\ Far # {}
    BY <1>5
  <2>2. PICK d \in Far : \A e \in Far : d <= e
    BY <2>1, LeastNatural
  <2>3. PICK m \in Differ : d = MaxTokens + 1 - m
    BY <2>2
  <2>4. ASSUME NEW c \in ToSet(node[m].children) PROVE iter[c] = Below(c)
    <3>1. c \in DOMAIN node /\ m < c
      BY ChildrenAreNodes DEF Forest
    <3>2. c \in Differ => MaxTokens + 1 - c >= d
      BY <2>2
    <3>3. c \notin Differ
      BY <1>5, <2>3, <3>1, <3>2
    <3> QED
      BY <3>1, <3>3
  <2>5. iter[m] = {m} \cup UNION {Below(c) : c \in ToSet(node[m].children)}
    BY <1>4, <2>3, <2>4
  <2>6. Below(m) = {m} \cup UNION {Below(c) : c \in ToSet(node[m].children)}
    BY <2>3, BelowParts
  <2> QED
    BY <2>3, <2>5, <2>6
<1> QED
  BY <1>1, <1>6

LEMMA TreeParts ==
  ASSUME TypeOK, Forest, NEW n \in DOMAIN node
  PROVE  /\ Tree(n) \subseteq DOMAIN node /\ n \in Tree(n) /\ Closed(Tree(n))
         /\ \A m \in Tree(n) : n <= m
         /\ \A m \in Tree(n) : m = n \/ \E p \in Tree(n) : ChildOf(m, p)
<1> DEFINE later == {m \in DOMAIN node : n <= m}
           born  == {m \in Below(n) : m = n \/ \E p \in Below(n) : ChildOf(m, p)}
<1>1. Tree(n) = Below(n) /\ Below(n) \subseteq DOMAIN node
  BY TreeIsBelow DEF Below
<1>2. DOMAIN node \subseteq Nat
  BY Numbers DEF TypeOK
<1>3. n \in Below(n) /\ Closed(Below(n))
  BY BelowParts
<1>4. Below(n) \subseteq later
  <2>1. Closed(later)
    <3> SUFFICES ASSUME NEW m \in later, NEW c \in ToSet(node[m].children)
                 PROVE  c \in later
      BY DEF Closed
    <3>1. c \in DOMAIN node /\ m < c
      BY ChildrenAreNodes DEF Forest
    <3> QED
      BY <1>2, <3>1
  <2>2. n \in later /\ later \in SUBSET DOMAIN node
    BY <1>2
  <2> HIDE DEF later
  <2> QED
    BY <2>1, <2>2, BelowParts
<1>5. Below(n) \subseteq born
  <2>1. Closed(born)
    <3> SUFFICES ASSUME NEW m \in born, NEW c \in ToSet(node[m].children)
                 PROVE  c \in born
      BY DEF Closed
    <3>1. c \in Below(n) /\ ChildOf(c, m)
      BY <1>3 DEF Closed, ChildOf
    <3> QED
      BY <3>1
  <2>2. n \in born /\ born \in SUBSET DOMAIN node
    BY <1>1, <1>3
  <2> HIDE DEF born
  <2> QED
    BY <2>1, <2>2, BelowParts
<1> QED
  BY <1>1, <1>3, <1>4, <1>5

(* When no call waits, every struct is below the root.                     *)
LEMMA TreeOfRoot ==
  ASSUME TypeOK, Forest, Root \in DOMAIN node, AllReachable, stack = <<>>
  PROVE  Tree(Root) = DOMAIN node
<1> DEFINE lost == DOMAIN node \ Tree(Root)
<1>1. /\ Tree(Root) \subseteq DOMAIN node /\ Root \in Tree(Root) /\ Closed(Tree(Root))
  BY TreeParts
<1>2. lost \subseteq Nat
  BY Numbers DEF TypeOK
<1>3. lost = {}
  <2> SUFFICES ASSUME lost # {} PROVE FALSE
    OBVIOUS
  <2>1. PICK n \in lost : \A m \in lost : n <= m
    BY <1>2, LeastNatural
  <2>2. DOMAIN stack = {}
    BY CallsTyped
  <2>3. PICK m \in DOMAIN node : ChildOf(n, m)
    BY <1>1, <2>1, <2>2 DEF AllReachable
  <2>4. m < n
    BY <2>3 DEF Forest, ChildOf
  <2>5. m \in DOMAIN node /\ m \in Nat /\ n \in Nat
    BY Numbers DEF TypeOK
  <2>6. m \in Tree(Root)
    BY <2>1, <2>4, <2>5
  <2> QED
    BY <1>1, <2>1, <2>3, <2>6 DEF Closed, ChildOf
<1> QED
  BY <1>1, <1>3

(* What jsonFree leaves are structs with their children.                   *)
LEMMA FreeKeepsTrees ==
  ASSUME TypeOK, Forest, NEW n \in DOMAIN node, NEW more, Free(n, more),
         \A m \in DOMAIN node : ~ ChildOf(n, m)
  PROVE  /\ DOMAIN node' = DOMAIN node \ Tree(n)
         /\ node' \in [DOMAIN node' -> Struct(DOMAIN node')]
         /\ \A m \in DOMAIN node' : m \in DOMAIN node /\ node'[m] = node[m]
         /\ texts' \subseteq Names
<1>1. PICK nd : nd = node'
  OBVIOUS
<1>2. /\ DOMAIN nd = DOMAIN node \ Tree(n)
      /\ nd = [m \in DOMAIN nd |-> nd[m]]
      /\ \A m \in DOMAIN nd : m \in DOMAIN node /\ nd[m] = node[m]
      /\ texts' \subseteq texts
  BY <1>1 DEF Free
<1>3. ASSUME NEW m \in DOMAIN nd PROVE node[m].children \in Seq(DOMAIN nd)
  <2>1. PICK s : s = node[m].children
    OBVIOUS
  <2>2. s \in Seq(DOMAIN node)
    BY <1>2, <2>1 DEF TypeOK
  <2>3. ToSet(s) \subseteq DOMAIN nd
    <3> SUFFICES ASSUME NEW c \in ToSet(s), c \in Tree(n) PROVE FALSE
      BY <1>2, <2>1, ChildrenAreNodes
    <3>1. ChildOf(c, m) /\ m \in DOMAIN node /\ m \notin Tree(n) /\ c \in Names
      BY <1>2, <2>1, ChildrenAreNodes DEF ChildOf, TypeOK
    <3>2. PICK p \in Tree(n) : ChildOf(c, p)
      BY <3>1, TreeParts
    <3>3. p \in DOMAIN node
      BY TreeParts
    <3> QED
      BY <3>1, <3>2, <3>3 DEF Forest
  <2>4. \A i \in 1 .. Len(s) : s[i] \in DOMAIN nd
    BY <2>2, <2>3, LenProperties DEF ToSet
  <2>5. Len(s) \in Nat /\ s \in [1 .. Len(s) -> DOMAIN node]
    BY <2>2, LenProperties
  <2> QED
    BY <2>1, <2>4, <2>5, SeqDef
<1>4. \A m \in DOMAIN nd : nd[m] \in Struct(DOMAIN nd)
  <2>1. \A m \in DOMAIN nd : node[m] \in Struct(DOMAIN node)
    BY <1>2 DEF TypeOK, Struct
  <2> QED
    BY <1>2, <1>3, <2>1 DEF Struct
<1>5. nd \in [DOMAIN nd -> Struct(DOMAIN nd)]
  BY <1>2, <1>4
<1>6. texts' \subseteq Names
  BY <1>2 DEF TypeOK
<1> QED
  BY <1>1, <1>2, <1>5, <1>6

-----------------------------------------------------------------------------
(* Nothing happens but that the mode changes.                              *)
Stopped(how) ==
  /\ Stop(how)
  /\ \/ how \in {"undefined", "nil", "aborted"} /\ (how # "undefined" => stack = <<>>)
     \/ how \in {"parsed", "stored"} /\ mode \in {"return", "parsed"} /\ stack = <<>>
  /\ UNCHANGED answer

LEMMA StopKeepsInv ==
  ASSUME JsonInv, NEW how, Stopped(how)
  PROVE  JsonInv'
<1> USE DEF Stopped, Stop
<1>0. TypeOK /\ Forest /\ Calls /\ InputRead
  BY DEF JsonInv
<1>a. /\ mode' \in {"undefined", "nil", "aborted", "parsed", "stored"}
      /\ mode' # "undefined" => stack = <<>>
      /\ mode' \in {"parsed", "stored"} => mode \in {"return", "parsed"}
  OBVIOUS
<1>b. /\ input' = input /\ stack' = stack /\ node' = node /\ texts' = texts /\ err' = err
      /\ answer' = answer
  OBVIOUS
<1> HIDE DEF Stopped, Stop
<1>1. DOMAIN stack = 1 .. Len(stack) /\ Len(stack) \in Nat
  BY <1>0, CallsTyped
<1>2. \A i : /\ Pending(i)' => Pending(i)
             /\ HasKey(i)' => HasKey(i)
             /\ mode' # "undefined" => ~ Pending(i)' /\ ~ HasKey(i)' /\ i \notin DOMAIN stack
  <2>1. \A i : Pending(i)' <=> i \in DOMAIN stack /\ i < Len(stack)
    BY <1>a, <1>b DEF Pending
  <2>2. stack = <<>> => DOMAIN stack = {}
    OBVIOUS
  <2>3. \A i : Pending(i)' => Pending(i)
    BY <2>1 DEF Pending
  <2> QED
    BY <1>a, <1>b, <2>1, <2>2, <2>3 DEF HasKey
<1>3. \A c, n : ChildOf(c, n)' <=> ChildOf(c, n)
  BY <1>b DEF ChildOf
<1>4. TypeOK'
  BY <1>0, <1>a, <1>b DEF TypeOK
<1>5. Forest'
  BY <1>0, <1>b, <1>3 DEF Forest
<1>6. Calls'
  BY <1>0, <1>a, <1>b, <1>2, <1>3 DEF Calls
<1>7. InputRead'
  <2>1. Here' = Here /\ Current' = Current
    BY <1>b DEF Here, Current
  <2> QED
    BY <1>0, <1>a, <2>1 DEF InputRead, Building
<1>8. ASSUME mode' \in {"parsed", "stored"}
      PROVE  Root \in DOMAIN node' /\ TypesSet' /\ AllReachable' /\ TextsOwned' /\ TextsRead'
  <2>0. Root \in DOMAIN node /\ TypesSet /\ AllReachable /\ TextsOwned /\ TextsRead
    BY <1>a, <1>8 DEF JsonInv, Building, Complete
  <2>1. stack = <<>> /\ mode \in {"return", "parsed"} /\ \A i : ~ Pending(i)' /\ ~ HasKey(i)'
    BY <1>a, <1>2, <1>8
  <2>2. \A i \in DOMAIN stack : FALSE
    BY <2>1
  <2>3. TypesSet'
    BY <1>8, <1>b, <2>0, <2>1 DEF TypesSet
  <2>4. AllReachable'
    BY <1>b, <1>3, <2>0, <2>2 DEF AllReachable
  <2>5. TextsOwned'
    BY <1>b, <2>0, <2>2 DEF TextsOwned, IsString
  <2>6. TextsRead'
    BY <1>b, <2>0, <2>2 DEF TextsRead, IsText
  <2> QED
    BY <1>b, <2>0, <2>3, <2>4, <2>5, <2>6
<1>9. ~ Building' /\ mode' \notin {"fail", "freed"}
  BY <1>a DEF Building
<1>10. Complete' => mode' \in {"parsed", "stored"}
  BY <1>a DEF Complete
<1> QED
  BY <1>4, <1>5, <1>6, <1>7, <1>8, <1>9, <1>10 DEF JsonInv

(* A call frees its element and returns.                                   *)
LEMMA UnwindingKeepsInv ==
  ASSUME JsonInv, mode = "fail", stack # <<>>, NEW more, Free(Top.element, more), Pop,
         UNCHANGED <<input, mode, err, answer>>
  PROVE  JsonInv'
<1>0. TypeOK /\ Forest /\ Calls /\ InputRead /\ Root \in DOMAIN node
  BY DEF JsonInv
<1>1. PICK k, e : k = Len(stack) /\ e = Top.element
  OBVIOUS
<1>2. /\ e \in DOMAIN node /\ e # Root
      /\ \A i \in DOMAIN stack : stack[i].node < e
      /\ \A i \in DOMAIN stack : i # k => stack[i].element < e
  BY <1>0, <1>1, CallsNest
<1>3. /\ k \in Nat /\ k >= 1 /\ DOMAIN stack = 1 .. k /\ k \in DOMAIN stack /\ stack[k].element = e
      /\ stack \in Seq(Frame(DOMAIN node))
      /\ \A i \in DOMAIN stack :
           /\ stack[i] \in Frame(DOMAIN node)
           /\ stack[i].node \in DOMAIN node /\ stack[i].node \in Nat
           /\ stack[i].element \in Nat /\ stack[i].key \in Nat
  BY <1>0, <1>1, CallsTyped DEF TypeOK, Frame
<1>4. \A i \in DOMAIN stack :
        /\ Pending(i)
        /\ stack[i].element \in DOMAIN node /\ stack[i].node < stack[i].element
        /\ \A n \in DOMAIN node : ~ ChildOf(stack[i].element, n)
        /\ HasKey(i) => stack[i].key = stack[i].element
  BY <1>0 DEF Calls, Pending
<1>5. /\ Tree(e) \subseteq DOMAIN node /\ e \in Tree(e)
      /\ \A m \in Tree(e) : e <= m
  BY <1>0, <1>2, TreeParts
<1>6. PICK nd : nd = node'
  OBVIOUS
<1>7. /\ DOMAIN nd = DOMAIN node \ Tree(e)
      /\ nd \in [DOMAIN nd -> Struct(DOMAIN nd)]
      /\ \A m \in DOMAIN nd : m \in DOMAIN node /\ nd[m] = node[m]
      /\ texts' \subseteq Names
  <2>1. \A m \in DOMAIN node : ~ ChildOf(e, m)
    BY <1>3, <1>4
  <2> QED
    BY <1>0, <1>1, <1>2, <1>6, <2>1, FreeKeepsTrees
<1>a. mode' = "fail" /\ input' = input /\ err' = err /\ answer' = answer
  OBVIOUS
<1>8. PICK st : st = stack'
  OBVIOUS
<1>9. DOMAIN node \subseteq Nat
  BY <1>0, Numbers DEF TypeOK
<1>10. \A m \in DOMAIN node : m < e => m \in DOMAIN nd
  <2>1. \A m \in Nat : ~ (m < e /\ e <= m)
    BY <1>2, <1>9
  <2> QED
    BY <1>5, <1>7, <1>9, <2>1
<1>11. /\ Len(st) = k - 1 /\ DOMAIN st = 1 .. k - 1
       /\ \A i \in DOMAIN st : i \in DOMAIN stack /\ i # k /\ st[i] = stack[i]
       /\ st \in Seq(Frame(DOMAIN nd))
  <2>1. st = Front(stack) /\ stack # <<>>
    BY <1>8 DEF Pop
  <2>2. /\ st \in Seq(Frame(DOMAIN node)) /\ Len(st) = k - 1
        /\ \A i \in 1 .. k - 1 : st[i] = stack[i]
    BY <1>1, <1>3, <2>1, FrontOf
  <2>3. DOMAIN st = 1 .. k - 1
    BY <2>2, LenProperties
  <2>4. \A i \in 1 .. k - 1 : i \in 1 .. k /\ i # k
    BY <1>3
  <2>5. \A i \in 1 .. k - 1 : i \in DOMAIN stack /\ i # k /\ st[i] = stack[i]
    BY <1>3, <2>2, <2>4
  <2>6. \A i \in 1 .. k - 1 : st[i] \in Frame(DOMAIN nd)
    <3> SUFFICES ASSUME NEW i \in 1 .. k - 1 PROVE st[i] \in Frame(DOMAIN nd)
      OBVIOUS
    <3>1. st[i] = stack[i] /\ i \in DOMAIN stack
      BY <2>5
    <3>2. stack[i].node \in DOMAIN nd
      BY <1>2, <1>3, <1>10, <3>1
    <3>3. stack[i] \in Frame(DOMAIN node)
      BY <1>3, <3>1
    <3> QED
      BY <3>1, <3>2, <3>3 DEF Frame
  <2>7. k - 1 \in Nat /\ st \in [1 .. k - 1 -> Frame(DOMAIN node)]
    BY <1>3, <2>2, LenProperties
  <2>8. st \in [1 .. k - 1 -> Frame(DOMAIN nd)]
    BY <2>6, <2>7
  <2> QED
    BY <2>2, <2>3, <2>5, <2>7, <2>8, SeqDef
<1>12. TypeOK'
  <2>1. DOMAIN nd \subseteq Names
    BY <1>0, <1>7 DEF TypeOK
  <2>2. nd \in [DOMAIN nd ->
          [type : Scalars \cup {"uninitialised", "string", "array", "object"},
           text : Names, children : Seq(DOMAIN nd)]]
    BY <1>7 DEF Struct
  <2>3. st \in Seq([node : DOMAIN nd, element : Names, key : Names])
    BY <1>11 DEF Frame
  <2> QED
    BY <1>0, <1>a, <1>6, <1>7, <1>8, <2>1, <2>2, <2>3 DEF TypeOK
<1>13. \A n \in DOMAIN nd : \A c : ChildOf(c, n)' <=> ChildOf(c, n)
  BY <1>6, <1>7 DEF ChildOf
<1>14. Forest'
  <2>1. \A n \in DOMAIN nd : \A c \in ToSet(nd[n].children) : n < c
    BY <1>0, <1>7 DEF Forest
  <2>2. \A m, n \in DOMAIN nd : \A c \in Names : ChildOf(c, m)' /\ ChildOf(c, n)' => m = n
    BY <1>0, <1>7, <1>13 DEF Forest
  <2> QED
    BY <1>6, <2>1, <2>2 DEF Forest
<1>15. Calls'
  <2>1. \A i \in DOMAIN st : nd[st[i].node] = node[stack[i].node]
    BY <1>2, <1>3, <1>7, <1>10, <1>11
  <2>2. \A i : HasKey(i)' => i \in DOMAIN st /\ HasKey(i)
    BY <1>4, <1>6, <1>8, <1>11, <2>1 DEF HasKey, Pending
  <2>3. \A i \in DOMAIN st :
          /\ nd[st[i].node].type \in {"array", "object"}
          /\ st[i].element \in DOMAIN nd
          /\ st[i].node < st[i].element
          /\ \A n \in DOMAIN nd : ~ ChildOf(st[i].element, n)'
    <3>1. \A i \in DOMAIN st : nd[st[i].node].type \in {"array", "object"}
      BY <1>0, <1>11, <2>1 DEF Calls
    <3>2. \A i \in DOMAIN st : st[i].element \in DOMAIN nd
      BY <1>2, <1>4, <1>10, <1>11
    <3>3. \A i \in DOMAIN st : \A n \in DOMAIN nd : ~ ChildOf(st[i].element, n)'
      BY <1>4, <1>7, <1>11, <1>13
    <3> QED
      BY <1>4, <1>11, <3>1, <3>2, <3>3
  <2>4. \A i \in DOMAIN st : HasKey(i)' => st[i].key = st[i].element
    BY <1>4, <1>11, <2>2
  <2>5. \A i, j \in DOMAIN st : i < j => st[i].element <= st[j].node
    BY <1>0, <1>11 DEF Calls
  <2> QED
    BY <1>a, <1>6, <1>8, <2>3, <2>4, <2>5 DEF Calls
<1>16. InputRead'
  <2>1. Here' = Here /\ Current' = Current
    BY <1>a DEF Here, Current
  <2> QED
    BY <1>0, <1>a, <2>1 DEF InputRead, Building
<1>17. Root \in DOMAIN node'
  <2>1. Root < e
    BY <1>2, <1>9, Numbers
  <2> QED
    BY <1>0, <1>6, <1>10, <2>1
<1> QED
  BY <1>a, <1>12, <1>14, <1>15, <1>16, <1>17 DEF JsonInv, Building, Complete

(* A complete document owns what was allocated.                            *)
LEMMA DocumentIsTree ==
  ASSUME JsonInv, Complete
  PROVE  /\ stack = <<>> /\ Root \in DOMAIN node
         /\ DOMAIN node = Tree(Root) /\ texts = TextsOf(Tree(Root))
<1>0. /\ TypeOK /\ Forest /\ Calls /\ Root \in DOMAIN node
      /\ AllReachable /\ TextsOwned
  BY DEF JsonInv
<1>1. stack = <<>>
  BY <1>0 DEF Calls, Complete, Building
<1>2. DOMAIN node = Tree(Root)
  BY <1>0, <1>1, TreeOfRoot
<1>3. \A i \in DOMAIN stack : FALSE
  BY <1>1
<1>4. texts \subseteq TextsOf(Tree(Root))
  BY <1>0, <1>2, <1>3 DEF TextsOwned, IsString, TextsOf
<1>5. TextsOf(Tree(Root)) \subseteq texts
  BY <1>0, <1>2 DEF TextsOwned, IsString, TextsOf
<1> QED
  BY <1>0, <1>1, <1>2, <1>4, <1>5

(* The root is freed: after an error, or with its document.                *)
LEMMA FreeingKeepsInv ==
  ASSUME JsonInv, stack = <<>>, Free(Root, {}),
         (mode = "fail" /\ mode' = "failed") \/ (Complete /\ mode' = "freed"),
         UNCHANGED <<input, stack, err, answer>>
  PROVE  JsonInv'
<1>0. TypeOK /\ Forest /\ Calls /\ InputRead /\ Root \in DOMAIN node
  BY DEF JsonInv
<1>1. PICK nd : nd = node'
  OBVIOUS
<1>2. \A m \in DOMAIN node : ~ ChildOf(Root, m)
  <2>1. \A m \in DOMAIN node : m \in Nat
    BY <1>0, Numbers DEF TypeOK
  <2> QED
    BY <1>0, <2>1, Numbers DEF Forest, ChildOf
<1>3. /\ DOMAIN nd = DOMAIN node \ Tree(Root)
      /\ nd \in [DOMAIN nd -> Struct(DOMAIN nd)]
      /\ \A m \in DOMAIN nd : m \in DOMAIN node /\ nd[m] = node[m]
      /\ texts' \subseteq Names
  BY <1>0, <1>1, <1>2, FreeKeepsTrees
<1>4. mode' \in {"failed", "freed"} /\ input' = input /\ stack' = <<>> /\ err' = err
      /\ answer' = answer
  OBVIOUS
<1>5. TypeOK'
  <2>1. nd \in [DOMAIN nd ->
          [type : Scalars \cup {"uninitialised", "string", "array", "object"},
           text : Names, children : Seq(DOMAIN nd)]]
    BY <1>3 DEF Struct
  <2>2. stack' \in Seq([node : DOMAIN nd, element : Names, key : Names])
    BY <1>4, EmptySeq
  <2>3. DOMAIN nd \subseteq Names
    BY <1>0, <1>3 DEF TypeOK
  <2> QED
    BY <1>0, <1>1, <1>3, <1>4, <2>1, <2>2, <2>3 DEF TypeOK
<1>6. Forest'
  <2>1. \A n \in DOMAIN nd : \A c : ChildOf(c, n)' <=> ChildOf(c, n)
    BY <1>1, <1>3 DEF ChildOf
  <2>2. \A n \in DOMAIN nd : \A c \in ToSet(nd[n].children) : n < c
    BY <1>0, <1>3 DEF Forest
  <2>3. \A m, n \in DOMAIN nd : \A c \in Names : ChildOf(c, m)' /\ ChildOf(c, n)' => m = n
    BY <1>0, <1>3, <2>1 DEF Forest
  <2> QED
    BY <1>1, <2>2, <2>3 DEF Forest
<1>7. Calls'
  <2>1. \A i \in DOMAIN stack' : FALSE
    BY <1>4
  <2> QED
    BY <1>4, <2>1 DEF Calls
<1>8. InputRead'
  <2>1. Here' = Here /\ Current' = Current
    BY <1>4 DEF Here, Current
  <2> QED
    BY <1>0, <1>4, <2>1 DEF InputRead, Building
<1>9. ASSUME mode' = "freed" PROVE node' = <<>> /\ texts' = {}
  <2>1. DOMAIN node = Tree(Root) /\ texts = TextsOf(Tree(Root))
    BY <1>9, DocumentIsTree
  <2>2. node' = [m \in {} |-> node[m]] /\ texts' = {}
    BY <2>1 DEF Free
  <2> QED
    BY <2>2
<1> QED
  BY <1>4, <1>5, <1>6, <1>7, <1>8, <1>9 DEF JsonInv, Building, Complete

-----------------------------------------------------------------------------
(* What jsonStringify prints are sequences of what values are made of.     *)

Pieces == Seq(Seq(Printed))

LEMMA FlattenIsSeq ==
  ASSUME NEW D, NEW n \in Nat, NEW s \in [1 .. n -> Seq(D)]
  PROVE  FlattenSeq(s) \in Seq(D)
<1>1. PICK f : Joins(s, n, f)
  BY JoinsExist
<1>2. FlattenSeq(s) = f[n]
  BY <1>1, FlattenJoins
<1>3. n \in 0 .. n
  OBVIOUS
<1>4. f[n] \in Seq(D)
  BY <1>1, <1>3, JoinsAreSeqs
<1> QED
  BY <1>2, <1>4

LEMMA CommasAreSeq ==
  ASSUME NEW n \in Nat, NEW items \in [1 .. n -> Pieces]
  PROVE  CommaBetween(items) \in Pieces
<1> DEFINE s == [i \in DOMAIN items |-> IF i = 1 THEN items[i] ELSE <<<<",">>>> \o items[i]]
<1>1. DOMAIN items = 1 .. n
  OBVIOUS
<1>2. \A i \in 1 .. n : s[i] \in Pieces
  <2> SUFFICES ASSUME NEW i \in 1 .. n PROVE s[i] \in Pieces
    BY Zenon
  <2>1. items[i] \in Pieces
    OBVIOUS
  <2>2. \A comma \in Printed : <<comma>> \in Seq(Printed)
    OBVIOUS
  <2>3. \A t \in Seq(Printed) : <<t>> \in Pieces
    BY DEF Pieces
  <2>4. <<<<",">>>> \in Pieces
    <3>1. "," \in Printed
      BY DEF Printed
    <3> QED
      BY <2>2, <2>3, <3>1, Zenon
  <2>5. <<<<",">>>> \o items[i] \in Pieces
    BY <2>1, <2>4, ConcatProperties, Zenon DEF Pieces
  <2> QED
    BY <1>1, <2>1, <2>5, Zenon
<1>3. s \in [1 .. n -> Pieces]
  BY <1>1, <1>2, Zenon
<1>4. FlattenSeq(s) \in Pieces
  <2> HIDE DEF s
  <2> QED
    BY <1>3, FlattenIsSeq DEF Pieces
<1> QED
  BY <1>4, Zenon DEF CommaBetween

(* The order of dictIter has nothing but members.                          *)
LEMMA IterationIsSeq ==
  ASSUME NEW D, NEW members \in Seq(D), NEW bucket
  PROVE  dictIter(members, bucket) \in Seq(ToSet(members))
<1> DEFINE M == ToSet(members)
           Place(b, i) == IF bucket[input[members[i]]] = b THEN <<members[i]>> ELSE <<>>
           Filled(b) == FlattenSeq([i \in DOMAIN members |-> Place(b, i)])
<1>1. PICK n \in Nat : DOMAIN members = 1 .. n
  BY LenProperties
<1>2. \A i \in 1 .. n : members[i] \in M
  BY <1>1 DEF ToSet
<1>3. ASSUME NEW b PROVE Filled(b) \in Seq(M)
  <2>1. \A i \in 1 .. n : <<members[i]>> \in Seq(M) /\ <<>> \in Seq(M)
    <3> HIDE DEF M
    <3> QED
      BY <1>2
  <2>2. \A i \in 1 .. n : Place(b, i) \in Seq(M)
    <3> HIDE DEF M
    <3> QED
      BY <2>1
  <2> HIDE DEF Place, M
  <2>3. [i \in 1 .. n |-> Place(b, i)] \in [1 .. n -> Seq(M)]
    BY <2>2
  <2>4. FlattenSeq([i \in 1 .. n |-> Place(b, i)]) \in Seq(M)
    BY <2>3, FlattenIsSeq
  <2> QED
    BY <1>1, <2>4
<1>4. dictIter(members, bucket) = Filled(1) \o Filled(2)
  BY DEF dictIter
<1> HIDE DEF Filled, M
<1>5. Filled(1) \o Filled(2) \in Seq(M)
  BY <1>3, ConcatProperties
<1> QED
  BY <1>4, <1>5 DEF M

(* dictGet finds a member.                                                 *)
LEMMA GetFindsMember ==
  ASSUME NEW D, NEW members \in Seq(D), NEW m \in ToSet(members)
  PROVE  dictGet(members, m) \in ToSet(members)
<1> DEFINE I == {i \in 1 .. Len(members) : input[members[i]] = input[m]}
<1>1. DOMAIN members = 1 .. Len(members) /\ Len(members) \in Nat
  BY LenProperties
<1>2. I # {} /\ I \subseteq Nat
  <2>1. PICK i \in DOMAIN members : m = members[i]
    BY DEF ToSet
  <2> QED
    BY <1>1, <2>1
<1>3. SelectInSeq(members, LAMBDA d : input[d] = input[m]) = Min(I)
  BY <1>2 DEF SelectInSeq
<1>4. Min(I) \in I
  <2> HIDE DEF I
  <2> QED
    BY <1>2, MinIsLeast
<1>5. dictGet(members, m) = members[Min(I)]
  BY <1>3 DEF dictGet
<1>6. Min(I) \in DOMAIN members
  BY <1>1, <1>4
<1> HIDE DEF I
<1> QED
  BY <1>5, <1>6 DEF ToSet

(* What is printed for a struct, if f is what is printed for its children. *)
ArrayPrinted(c, f) ==
  <<<<"[">>>> \o CommaBetween([i \in DOMAIN c |-> f[c[i]]]) \o <<<<"]">>>>

MemberPrinted(c, m, f) == <<<<AsPrinted(input[m]), ":">>>> \o f[dictGet(c, m)]

ObjectPrinted(c, keys, f) ==
  <<<<"{">>>> \o CommaBetween([i \in DOMAIN keys |-> MemberPrinted(c, keys[i], f)]) \o <<<<"}">>>>

PrintedFrom(n, f, bucket) ==
  CASE node[n].type = "array"  -> ArrayPrinted(node[n].children, f)
    [] node[n].type = "object" ->
         ObjectPrinted(node[n].children, dictIter(node[n].children, bucket), f)
    [] node[n].type = "string" -> <<<<AsPrinted(input[node[n].text])>>>>
    [] OTHER                   -> <<<<AsPrinted(node[n].type)>>>>

LEMMA PrintedFromChildren ==
  ASSUME TypeOK, NEW n \in DOMAIN node, NEW bucket, NEW f, NEW g,
         \A c \in ToSet(node[n].children) : f[c] = g[c]
  PROVE  PrintedFrom(n, f, bucket) = PrintedFrom(n, g, bucket)
<1>1. PICK c, keys : c = node[n].children /\ keys = dictIter(node[n].children, bucket)
  OBVIOUS
<1>2. c \in Seq(DOMAIN node)
  BY <1>1 DEF TypeOK
<1>3. ArrayPrinted(c, f) = ArrayPrinted(c, g)
  <2>1. \A i \in DOMAIN c : f[c[i]] = g[c[i]]
    BY <1>1 DEF ToSet
  <2>2. [i \in DOMAIN c |-> f[c[i]]] = [i \in DOMAIN c |-> g[c[i]]]
    BY <2>1
  <2> QED
    BY <2>2 DEF ArrayPrinted
<1>4. ObjectPrinted(c, keys, f) = ObjectPrinted(c, keys, g)
  <2>1. keys \in Seq(ToSet(c))
    BY <1>1, <1>2, IterationIsSeq
  <2>2. \A i \in DOMAIN keys : keys[i] \in ToSet(c)
    BY <2>1, LenProperties, ElementOfSeq
  <2>3. \A i \in DOMAIN keys : dictGet(c, keys[i]) \in ToSet(c)
    BY <1>2, <2>2, GetFindsMember
  <2>4. \A i \in DOMAIN keys : MemberPrinted(c, keys[i], f) = MemberPrinted(c, keys[i], g)
    BY <1>1, <2>3 DEF MemberPrinted
  <2>5. [i \in DOMAIN keys |-> MemberPrinted(c, keys[i], f)]
          = [i \in DOMAIN keys |-> MemberPrinted(c, keys[i], g)]
    BY <2>4
  <2> QED
    BY <2>5, Zenon DEF ObjectPrinted
<1> QED
  BY <1>1, <1>3, <1>4 DEF PrintedFrom

(* Whatever string or scalar is printed, texts are made of it.             *)
LEMMA PrintedTokens ==
  /\ \A t \in Strings \cup Scalars : AsPrinted(t) \in Printed
  /\ ":" \in Printed
BY DEF Strings, Scalars, AsPrinted, Printed

LEMMA PrintedFromIsSeq ==
  ASSUME TypeOK, TextsRead, NEW n \in DOMAIN node, node[n].type # "uninitialised",
         NEW bucket, NEW f, \A c \in ToSet(node[n].children) : f[c] \in Pieces
  PROVE  PrintedFrom(n, f, bucket) \in Pieces
<1>1. PICK c, keys : c = node[n].children /\ keys = dictIter(node[n].children, bucket)
  OBVIOUS
<1>2. c \in Seq(DOMAIN node)
  BY <1>1 DEF TypeOK
<1>a. ASSUME NEW a \in Printed, NEW b \in Printed, NEW p \in Pieces
      PROVE  <<<<a>>>> \o p \o <<<<b>>>> \in Pieces
  <2>1. <<a>> \in Seq(Printed) /\ <<b>> \in Seq(Printed)
    OBVIOUS
  <2>2. <<<<a>>>> \in Seq(Seq(Printed)) /\ <<<<b>>>> \in Seq(Seq(Printed))
    BY <2>1
  <2> QED
    BY <2>2, ConcatProperties DEF Pieces
<1>3. ArrayPrinted(c, f) \in Pieces
  <2>1. \A i \in DOMAIN c : f[c[i]] \in Pieces
    BY <1>1 DEF ToSet
  <2>2. Len(c) \in Nat /\ DOMAIN c = 1 .. Len(c)
    BY <1>2, LenProperties
  <2>3. [i \in DOMAIN c |-> f[c[i]]] \in [1 .. Len(c) -> Pieces]
    BY <2>1, <2>2
  <2>4. CommaBetween([i \in DOMAIN c |-> f[c[i]]]) \in Pieces
    BY <2>2, <2>3, CommasAreSeq
  <2>5. "[" \in Printed /\ "]" \in Printed
    BY DEF Printed
  <2> QED
    BY <1>a, <2>4, <2>5 DEF ArrayPrinted
<1>4. ASSUME node[n].type = "object" PROVE ObjectPrinted(c, keys, f) \in Pieces
  <2>1. keys \in Seq(ToSet(c))
    BY <1>1, <1>2, IterationIsSeq
  <2>2. Len(keys) \in Nat /\ DOMAIN keys = 1 .. Len(keys)
    BY <2>1, LenProperties
  <2>3. \A i \in DOMAIN keys : keys[i] \in ToSet(c)
    BY <2>1, <2>2, ElementOfSeq
  <2>4. ASSUME NEW i \in DOMAIN keys
        PROVE  MemberPrinted(c, keys[i], f) \in Pieces
    <3>1. f[dictGet(c, keys[i])] \in Pieces
      BY <1>1, <1>2, <2>3, GetFindsMember
    <3>2. input[keys[i]] \in Strings
      BY <1>1, <1>4, <2>3 DEF TextsRead, IsText
    <3>3. AsPrinted(input[keys[i]]) \in Printed /\ ":" \in Printed
      BY <3>2, PrintedTokens
    <3>4. PICK a : a = AsPrinted(input[keys[i]])
      OBVIOUS
    <3>5. <<a, ":">> \in Seq(Printed)
      BY <3>3, <3>4
    <3>6. <<<<a, ":">>>> \in Seq(Seq(Printed))
      BY <3>5
    <3>7. <<<<a, ":">>>> \o f[dictGet(c, keys[i])] \in Pieces
      BY <3>1, <3>6, ConcatProperties DEF Pieces
    <3> QED
      BY <3>4, <3>7 DEF MemberPrinted
  <2>5. [i \in DOMAIN keys |-> MemberPrinted(c, keys[i], f)] \in [1 .. Len(keys) -> Pieces]
    BY <2>2, <2>4
  <2>6. CommaBetween([i \in DOMAIN keys |-> MemberPrinted(c, keys[i], f)]) \in Pieces
    BY <2>2, <2>5, CommasAreSeq
  <2>7. "{" \in Printed /\ "}" \in Printed
    BY DEF Printed
  <2> QED
    BY <1>a, <2>6, <2>7, Zenon DEF ObjectPrinted
<1>5. ASSUME NEW a \in Printed PROVE <<<<a>>>> \in Pieces
  <2>1. <<a>> \in Seq(Printed)
    OBVIOUS
  <2> QED
    BY <2>1 DEF Pieces
<1>6. node[n].type = "string" => AsPrinted(input[node[n].text]) \in Printed
  BY PrintedTokens DEF TextsRead, IsText
<1>7. node[n].type \in Scalars \cup {"string", "array", "object"}
  BY Zenon DEF TypeOK
<1>8. CASE node[n].type = "array"
  BY <1>1, <1>3, <1>8 DEF PrintedFrom
<1>9. CASE node[n].type = "object"
  BY <1>1, <1>4, <1>9 DEF PrintedFrom
<1>10. CASE node[n].type = "string"
  BY <1>5, <1>6, <1>10 DEF PrintedFrom
<1>11. CASE node[n].type \in Scalars
  <2>1. node[n].type \notin {"array", "object", "string"}
    BY <1>11 DEF Scalars
  <2>2. AsPrinted(node[n].type) \in Printed
    BY <1>11, PrintedTokens
  <2> QED
    BY <1>5, <2>1, <2>2 DEF PrintedFrom
<1> QED
  BY <1>7, <1>8, <1>9, <1>10, <1>11

(* The recursion of stringifyNext comes to an end: children come later.    *)
LEMMA PrintingEnds ==
  ASSUME TypeOK, Forest, NEW bucket
  PROVE  \E f : f = [n \in DOMAIN node |-> PrintedFrom(n, f, bucket)]
<1> DEFINE last == MaxTokens + 1
           Late(d) == {n \in DOMAIN node : n + d > last}
           Prints(d, f) == \A n \in Late(d) : f[n] = PrintedFrom(n, f, bucket)
           S == {d \in Nat : \E f : Prints(d, f)}
<1>0. last \in Nat /\ DOMAIN node \subseteq 0 .. last
  BY Numbers DEF TypeOK
<1>a. ASSUME NEW n \in DOMAIN node, NEW c \in ToSet(node[n].children)
      PROVE  c \in DOMAIN node /\ n < c
  BY ChildrenAreNodes DEF Forest
<1> HIDE DEF last
<1>1. 0 \in S
  <2>1. Late(0) = {}
    BY <1>0
  <2> QED
    BY <2>1
<1>2. ASSUME NEW d \in Nat, d \in S
      PROVE  d + 1 \in S
  <2>1. PICK f : Prints(d, f)
    BY <1>2
  <2> DEFINE g == [n \in DOMAIN node |-> IF n \in Late(d) THEN f[n] ELSE PrintedFrom(n, f, bucket)]
  <2>2. ASSUME NEW n \in Late(d + 1)
        PROVE  g[n] = PrintedFrom(n, g, bucket)
    <3>1. n \in DOMAIN node
      OBVIOUS
    <3>2. \A c \in ToSet(node[n].children) : c \in Late(d)
      <4> SUFFICES ASSUME NEW c \in ToSet(node[n].children) PROVE c \in Late(d)
        OBVIOUS
      <4>1. c \in DOMAIN node /\ n < c
        BY <1>a, <3>1
      <4> QED
        BY <1>0, <4>1
    <3>3. \A c \in ToSet(node[n].children) : g[c] = f[c]
      BY <3>2
    <3>4. g[n] = PrintedFrom(n, f, bucket)
      BY <2>1
    <3> HIDE DEF g
    <3>5. PrintedFrom(n, f, bucket) = PrintedFrom(n, g, bucket)
      BY <3>1, <3>3, PrintedFromChildren
    <3> QED
      BY <3>4, <3>5
  <2> HIDE DEF g
  <2>3. Prints(d + 1, g)
    BY <2>2
  <2> QED
    BY <2>3
<1>3. last + 1 \in S
  <2> HIDE DEF S
  <2> QED
    BY <1>0, <1>1, <1>2, NatSetInduction
<1>4. PICK f : Prints(last + 1, f)
  BY <1>3
<1>5. \A n \in DOMAIN node : n \in Late(last + 1)
  BY <1>0
<1> DEFINE h == [n \in DOMAIN node |-> f[n]]
<1>6. ASSUME NEW n \in DOMAIN node PROVE f[n] = PrintedFrom(n, h, bucket)
  <2>1. \A c \in ToSet(node[n].children) : f[c] = h[c]
    BY <1>a
  <2> HIDE DEF h
  <2>2. PrintedFrom(n, f, bucket) = PrintedFrom(n, h, bucket)
    BY <2>1, PrintedFromChildren
  <2> QED
    BY <1>4, <1>5, <2>2
<1>7. h = [n \in DOMAIN node |-> PrintedFrom(n, h, bucket)]
  BY <1>6
<1> QED
  BY <1>7

LEMMA StringifiedIsSeq ==
  ASSUME JsonInv, mode = "stored", NEW bucket
  PROVE  stringifyNext(bucket) \in Pieces
<1>0. TypeOK /\ Forest /\ Root \in DOMAIN node /\ TypesSet /\ TextsRead
  BY DEF JsonInv, Complete
<1> DEFINE F(f) == [n \in DOMAIN node |-> PrintedFrom(n, f, bucket)]
           print == CHOOSE f : f = F(f)
<1>1. stringifyNext(bucket) = print[Root]
  BY DEF stringifyNext, PrintedFrom, ArrayPrinted, ObjectPrinted, MemberPrinted
<1>2. print = F(print)
  <2>1. \E f : f = F(f)
    BY <1>0, PrintingEnds
  <2> HIDE DEF F
  <2> QED
    BY <2>1
<1>3. \A n \in DOMAIN node : print[n] = PrintedFrom(n, print, bucket)
  <2>1. F(print) = [n \in DOMAIN node |-> PrintedFrom(n, print, bucket)]
    OBVIOUS
  <2> HIDE DEF print, F
  <2> QED
    BY <1>2, <2>1
<1> HIDE DEF print, F
<1>4. \A n \in DOMAIN node : node[n].type # "uninitialised"
  BY <1>0 DEF TypesSet
<1> DEFINE Bad == {n \in DOMAIN node : print[n] \notin Pieces}
           Far == {MaxTokens + 1 - n : n \in Bad}
<1>5. DOMAIN node \subseteq 0 .. MaxTokens + 1 /\ MaxTokens \in Nat
  BY <1>0, Numbers DEF TypeOK
<1>6. Bad = {}
  <2> SUFFICES ASSUME Bad # {} PROVE FALSE
    OBVIOUS
  <2>1. Far \subseteq Nat /\ Far # {}
    BY <1>5
  <2>2. PICK d \in Far : \A e \in Far : d <= e
    BY <2>1, LeastNatural
  <2>3. PICK n \in Bad : d = MaxTokens + 1 - n
    BY <2>2
  <2>4. ASSUME NEW c \in ToSet(node[n].children) PROVE print[c] \in Pieces
    <3>1. c \in DOMAIN node /\ n < c
      BY <1>0, ChildrenAreNodes DEF Forest
    <3>2. c \in Bad => MaxTokens + 1 - c >= d
      BY <2>2
    <3>3. c \notin Bad
      BY <1>5, <2>3, <3>1, <3>2
    <3> QED
      BY <3>1, <3>3
  <2>5. PrintedFrom(n, print, bucket) \in Pieces
    BY <1>0, <1>4, <2>3, <2>4, PrintedFromIsSeq
  <2> QED
    BY <1>3, <2>3, <2>5
<1> QED
  BY <1>0, <1>1, <1>6

-----------------------------------------------------------------------------
(* concat.                                                                 *)

LEMMA LengthIsNat ==
  ASSUME NEW text \in Seq(Printed)
  PROVE  strlen(text) \in Nat
<1> DEFINE long == {i \in DOMAIN text : text[i] \in Strings \cup {"raw"}}
<1>1. Len(text) \in Nat /\ DOMAIN text = 1 .. Len(text)
  BY LenProperties
<1>2. IsFiniteSet(1 .. Len(text)) /\ long \subseteq 1 .. Len(text)
  BY <1>1, FS_Interval
<1>3. Cardinality(long) \in Nat
  <2> HIDE DEF long
  <2> QED
    BY <1>2, FS_Subset, FS_CardinalityType
<1>4. StringLength - 1 \in Nat
  <2>1. StringLength \in Nat \ {0, 1}
    BY JsonAssumption, Zenon
  <2> QED
    BY <2>1
<1>5. \A x, y \in Nat : x * y \in Nat
  OBVIOUS
<1>6. strlen(text) = Len(text) + (StringLength - 1) * Cardinality(long)
  BY DEF strlen
<1> HIDE DEF long
<1>7. PICK l, p : l = Len(text) /\ p = (StringLength - 1) * Cardinality(long)
  OBVIOUS
<1>8. l \in Nat /\ p \in Nat
  BY <1>1, <1>3, <1>4, <1>5, <1>7
<1> QED
  BY <1>6, <1>7, <1>8

LEMMA NothingHasNoLength == strlen(<<>>) = 0
<1>1. {i \in DOMAIN <<>> : <<>>[i] \in Strings \cup {"raw"}} = {}
  OBVIOUS
<1>2. Cardinality({i \in DOMAIN <<>> : <<>>[i] \in Strings \cup {"raw"}}) = 0
  BY <1>1, FS_EmptySet
<1>3. StringLength - 1 \in Int
  <2>1. StringLength \in Nat \ {0, 1}
    BY JsonAssumption, Zenon
  <2> QED
    BY <2>1
<1>4. (StringLength - 1) * 0 = 0
  BY <1>3
<1>5. Len(<<>>) = 0
  OBVIOUS
<1> QED
  BY <1>2, <1>4, <1>5 DEF strlen

(* Doubling the size comes to an end.                                      *)
LEMMA GrowingEnds ==
  ASSUME NEW needed \in Nat
  PROVE  \E f : f = [n \in Nat |-> IF needed > n THEN f[n * 2 + 1] ELSE n]
<1> DEFINE Next1(n, f) == IF needed > n THEN f[n * 2 + 1] ELSE n
           Grows(d, f) == \A n \in Nat : n + d >= needed => f[n] = Next1(n, f)
           S == {d \in Nat : \E f : Grows(d, f)}
<1>1. 0 \in S
  <2>1. Grows(0, [n \in Nat |-> n])
    OBVIOUS
  <2> QED
    BY <2>1
<1>2. ASSUME NEW d \in Nat, d \in S
      PROVE  d + 1 \in S
  <2>1. PICK f : Grows(d, f)
    BY <1>2
  <2> DEFINE g == [n \in Nat |-> IF n + d >= needed THEN f[n] ELSE f[n * 2 + 1]]
  <2>2. ASSUME NEW n \in Nat, n + (d + 1) >= needed
        PROVE  g[n] = Next1(n, g)
    <3>1. PICK m \in Nat : m = n * 2 + 1
      OBVIOUS
    <3>2. m + d >= needed
      BY <2>2, <3>1
    <3>3. g[m] = f[m]
      BY <3>2
    <3>4. CASE n + d >= needed
      <4>1. g[n] = f[n]
        BY <3>4
      <4>2. f[n] = IF needed > n THEN f[m] ELSE n
        BY <2>1, <3>1, <3>4
      <4> HIDE DEF g
      <4> QED
        BY <3>1, <3>3, <4>1, <4>2
    <3>5. CASE ~ (n + d >= needed)
      <4>1. g[n] = f[m] /\ needed > n
        BY <3>1, <3>5
      <4> HIDE DEF g
      <4> QED
        BY <3>1, <3>3, <4>1
    <3> QED
      BY <3>4, <3>5
  <2> HIDE DEF g
  <2>3. Grows(d + 1, g)
    BY <2>2
  <2> QED
    BY <2>3
<1>3. needed \in S
  <2> HIDE DEF S
  <2> QED
    BY <1>1, <1>2, NatSetInduction
<1>4. PICK f : Grows(needed, f)
  BY <1>3
<1> DEFINE h == [n \in Nat |-> f[n]]
<1>5. ASSUME NEW n \in Nat PROVE h[n] = IF needed > n THEN h[n * 2 + 1] ELSE n
  <2>1. h[n] = f[n] /\ n * 2 + 1 \in Nat /\ h[n * 2 + 1] = f[n * 2 + 1]
    OBVIOUS
  <2>2. f[n] = IF needed > n THEN f[n * 2 + 1] ELSE n
    BY <1>4
  <2> HIDE DEF h
  <2> QED
    BY <2>1, <2>2
<1>6. h = [n \in Nat |-> h[n]]
  OBVIOUS
<1> HIDE DEF h
<1>7. h = [n \in Nat |-> IF needed > n THEN h[n * 2 + 1] ELSE n]
  BY <1>5, <1>6
<1> QED
  BY <1>7

LEMMA GrowIsEnough ==
  ASSUME NEW size \in Nat, NEW needed \in Nat
  PROVE  Grow(size, needed) \in Nat /\ Grow(size, needed) >= needed
<1> DEFINE F(f) == [n \in Nat |-> IF needed > n THEN f[n * 2 + 1] ELSE n]
           grow == CHOOSE f : f = F(f)
<1>1. Grow(size, needed) = grow[size]
  BY DEF Grow
<1>2. grow = F(grow)
  <2>1. \E f : f = F(f)
    BY GrowingEnds
  <2> HIDE DEF F
  <2> QED
    BY <2>1
<1>3. \A n \in Nat : grow[n] = IF needed > n THEN grow[n * 2 + 1] ELSE n
  <2>1. F(grow) = [n \in Nat |-> IF needed > n THEN grow[n * 2 + 1] ELSE n]
    OBVIOUS
  <2> HIDE DEF grow, F
  <2> QED
    BY <1>2, <2>1
<1> HIDE DEF grow, F
<1> DEFINE Good(n) == grow[n] \in Nat /\ grow[n] >= needed
           Bad == {n \in Nat : ~ Good(n)}
           Far == {needed - n : n \in Bad}
<1>4. \A n \in Nat : ~ (needed > n) => Good(n)
  BY <1>3
<1>5. Bad = {}
  <2> SUFFICES ASSUME Bad # {} PROVE FALSE
    OBVIOUS
  <2> HIDE DEF Good
  <2>1. Far \subseteq Nat /\ Far # {}
    BY <1>4
  <2>2. PICK d \in Far : \A e \in Far : d <= e
    BY <2>1, LeastNatural
  <2>3. PICK n \in Bad : d = needed - n
    BY <2>2
  <2>4. PICK m \in Nat : m = n * 2 + 1
    BY <2>3
  <2>5. m \in Bad => needed - m >= d
    BY <2>2
  <2>6. m \notin Bad
    BY <2>3, <2>4, <2>5
  <2>7. Good(m)
    BY <2>6
  <2>8. needed > n
    BY <1>4, <2>3
  <2>9. grow[n] = grow[m]
    BY <1>3, <2>3, <2>4, <2>8
  <2>10. Good(n)
    BY <2>7, <2>9 DEF Good
  <2> QED
    BY <2>3, <2>10
<1> QED
  BY <1>1, <1>5

(* What is printed changes the answer only.                                *)
LEMMA PrintingKeepsInv ==
  ASSUME JsonInv, mode \in {"stored", "print"}, mode' \in {"print", "undefined"},
         answer' \in [text : Seq(Printed), size : Nat, pieces : Seq(Seq(Printed))],
         UNCHANGED parser
  PROVE  JsonInv'
<1>0. /\ TypeOK /\ Forest /\ Calls /\ InputRead /\ Root \in DOMAIN node
      /\ TypesSet /\ AllReachable /\ TextsOwned /\ TextsRead
  BY DEF JsonInv, Complete
<1>1. /\ input' = input /\ stack' = stack /\ node' = node /\ texts' = texts /\ err' = err
      /\ Root' = Root
  BY DEF parser, Root
<1>2. stack = <<>> /\ DOMAIN stack = {}
  BY <1>0 DEF Calls, Building
<1>3. \A i : ~ Pending(i)' /\ ~ HasKey(i)'
  BY <1>1, <1>2 DEF Pending, HasKey
<1>4. \A c, n : ChildOf(c, n)' <=> ChildOf(c, n)
  BY <1>1 DEF ChildOf
<1>5. TypeOK'
  BY <1>0, <1>1 DEF TypeOK
<1>6. Forest'
  BY <1>0, <1>1, <1>4 DEF Forest
<1>7. Calls'
  BY <1>1, <1>2 DEF Calls
<1>8. InputRead'
  <2>1. Here' = Here /\ Current' = Current
    BY <1>1 DEF Here, Current
  <2> QED
    BY <1>0, <2>1 DEF InputRead, Building
<1>9. TypesSet'
  BY <1>0, <1>1 DEF TypesSet
<1>10. AllReachable'
  BY <1>0, <1>1, <1>2, <1>4 DEF AllReachable
<1>11. TextsOwned'
  BY <1>0, <1>1, <1>2 DEF TextsOwned, IsString
<1>12. TextsRead'
  BY <1>0, <1>1, <1>2 DEF TextsRead, IsText
<1> QED
  BY <1>0, <1>1, <1>5, <1>6, <1>7, <1>8, <1>9, <1>10, <1>11, <1>12 DEF JsonInv

LEMMA StringifyKeepsInv ==
  ASSUME JsonInv, jsonStringify
  PROVE  JsonInv' /\ answer'.text = <<>> /\ answer'.size = InitialSize
<1>1. mode = "stored" /\ mode' = "print" /\ UNCHANGED parser
  BY DEF jsonStringify
<1>2. PICK bucket : answer' = [text   |-> <<>>, size |-> InitialSize,
                               pieces |-> stringifyNext(bucket)]
  BY DEF jsonStringify
<1>3. PICK p : p = stringifyNext(bucket)
  OBVIOUS
<1>4. p \in Seq(Seq(Printed))
  BY <1>1, <1>3, StringifiedIsSeq DEF Pieces
<1>5. InitialSize \in Nat \ {0}
  BY JsonAssumption, Zenon
<1>6. <<>> \in Seq(Printed)
  BY EmptySeq
<1>7. answer' = [text |-> <<>>, size |-> InitialSize, pieces |-> p]
  BY <1>2, <1>3
<1>8. answer' \in [text : Seq(Printed), size : Nat, pieces : Seq(Seq(Printed))]
  BY <1>4, <1>5, <1>6, <1>7
<1>9. JsonInv'
  BY <1>1, <1>8, PrintingKeepsInv
<1> QED
  BY <1>7, <1>9

LEMMA ConcatKeepsInv ==
  ASSUME JsonInv, concat
  PROVE  JsonInv' /\ strlen(answer'.text) <= answer'.size
<1>1. mode = "print" /\ mode' \in {"print", "undefined"} /\ UNCHANGED parser
      /\ answer.pieces # <<>>
  BY DEF concat
<1>2. PICK text : text = answer.text \o Head(answer.pieces)
  OBVIOUS
<1>3. PICK size : size = Grow(answer.size, strlen(text))
  OBVIOUS
<1>4. PICK rest : rest = Tail(answer.pieces)
  OBVIOUS
<1>5. answer' = [text |-> text, size |-> size, pieces |-> rest]
  BY <1>2, <1>3, <1>4 DEF concat
<1>6. answer \in [text : Seq(Printed), size : Nat, pieces : Seq(Seq(Printed))]
  BY DEF JsonInv, TypeOK
<1>7. Head(answer.pieces) \in Seq(Printed) /\ rest \in Seq(Seq(Printed))
  BY <1>1, <1>4, <1>6, HeadTailProperties
<1>8. text \in Seq(Printed)
  BY <1>2, <1>6, <1>7, ConcatProperties
<1>9. strlen(text) \in Nat
  BY <1>8, LengthIsNat
<1>10. size \in Nat /\ size >= strlen(text)
  BY <1>3, <1>6, <1>9, GrowIsEnough
<1>11. answer' \in [text : Seq(Printed), size : Nat, pieces : Seq(Seq(Printed))]
  BY <1>5, <1>7, <1>8, <1>10
<1>12. JsonInv'
  BY <1>1, <1>11, PrintingKeepsInv
<1>13. answer'.text = text /\ answer'.size = size
  BY <1>5
<1>14. strlen(text) <= size
  BY <1>9, <1>10
<1> QED
  BY <1>12, <1>13, <1>14

-----------------------------------------------------------------------------
(* The invariant holds at first, and every step keeps it.                  *)

LEMMA InitJson == Init => JsonInv /\ TextFits
<1> SUFFICES ASSUME Init PROVE JsonInv /\ TextFits
  OBVIOUS
<1>1. PICK t \in Tokens \cup {"end"} : input = <<t>>
  BY DEF Init
<1>2. /\ mode = "value" /\ stack = <<>> /\ texts = {} /\ err = 0
      /\ node = [n \in {Root} |-> Fresh]
      /\ answer = [text |-> <<>>, size |-> InitialSize, pieces |-> <<>>]
  BY DEF Init
<1>3. InitialSize \in Nat \ {0}
  BY JsonAssumption, Zenon
<1>4. input \in Seq(Tokens \cup {"end"}) /\ Here = 1
  BY <1>1 DEF Here
<1>5. DOMAIN node = {Root} /\ node[Root] = [type |-> "uninitialised", text |-> 0, children |-> <<>>]
  BY <1>2 DEF Fresh
<1>6. \A n \in DOMAIN node : ToSet(node[n].children) = {}
  BY <1>5 DEF ToSet
<1>7. \A i \in DOMAIN stack : FALSE
  BY <1>2
<1>8. TypeOK
  <2>1. node \in [DOMAIN node ->
          [type : Scalars \cup {"uninitialised", "string", "array", "object"},
           text : Names, children : Seq(DOMAIN node)]]
    <3>1. <<>> \in Seq(DOMAIN node) /\ 0 \in Names
      BY EmptySeq, Numbers
    <3>2. node[Root] \in [type : Scalars \cup {"uninitialised", "string", "array", "object"},
                          text : Names, children : Seq(DOMAIN node)]
      BY <1>5, <3>1
    <3>3. node = [n \in DOMAIN node |-> node[n]]
      BY <1>2
    <3> QED
      BY <1>5, <3>2, <3>3
  <2>2. answer \in [text : Seq(Printed), size : Nat, pieces : Seq(Seq(Printed))]
    <3>1. <<>> \in Seq(Printed) /\ <<>> \in Seq(Seq(Printed))
      BY EmptySeq
    <3> QED
      BY <1>2, <1>3, <3>1
  <2>3. stack \in Seq([node : DOMAIN node, element : Names, key : Names])
    BY <1>2, EmptySeq
  <2>4. err \in 0 .. Len(input)
    BY <1>2, <1>4 DEF Here
  <2>5. DOMAIN node \subseteq Names /\ texts \subseteq Names
    BY <1>2, <1>5, Numbers
  <2> QED
    BY <1>2, <1>4, <2>1, <2>2, <2>3, <2>4, <2>5 DEF TypeOK
<1>9. Forest
  BY <1>5, <1>6 DEF Forest, ChildOf
<1>10. Calls
  BY <1>2, <1>7 DEF Calls, Building
<1>11. InputRead
  <2>1. Here > MaxTokens => FALSE
    BY <1>4, Numbers
  <2>2. Here \in 1 .. MaxTokens + 1
    BY <1>4, Numbers
  <2>3. Root < Here
    BY <1>4, Numbers
  <2> QED
    BY <1>2, <1>5, <2>1, <2>2, <2>3 DEF InputRead
<1>12. TypesSet
  <2>1. target = Root
    BY <1>2 DEF target
  <2> QED
    BY <1>2, <1>5, <2>1 DEF TypesSet, KeyInElement
<1>13. AllReachable
  BY <1>5 DEF AllReachable
<1>14. TextsOwned
  BY <1>2, <1>5, <1>7 DEF TextsOwned, IsString
<1>15. TextsRead
  BY <1>2, <1>5, <1>7 DEF TextsRead
<1>16. JsonInv
  BY <1>2, <1>5, <1>8, <1>9, <1>10, <1>11, <1>12, <1>13, <1>14, <1>15 DEF JsonInv
<1>17. TextFits
  BY <1>2, <1>3, NothingHasNoLength DEF TextFits
<1> QED
  BY <1>16, <1>17

(* Each action of parseNext reads a value, finds an error, or goes on for  *)
(* ever.                                                                   *)
LEMMA ValuesKeepInv ==
  ASSUME JsonInv, parseNext, UNCHANGED answer
  PROVE  JsonInv'
<1>1. Here \in Names /\ 0 \in Names
  BY Numbers DEF JsonInv, InputRead
<1>2. CASE parseScalar
  <2>1. /\ Current # "end" /\ Current # "string"
        /\ Current \in Scalars
    BY <1>2 DEF parseScalar, Scalars
  <2>2. ValueRead(Current, 0)
    BY <1>1, <1>2, <2>1 DEF parseScalar, ValueRead
  <2> QED
    BY <2>2, ValueKeepsInv
<1>3. CASE parseString
  <2>1. CASE Stop("undefined")
    <3>1. Stopped("undefined")
      BY <2>1 DEF Stopped
    <3> QED
      BY <3>1, StopKeepsInv
  <2>2. CASE ~ Stop("undefined")
    <3>1. Current \in Strings => Current # "end"
      BY DEF Strings
    <3>2. ValueRead("string", Here)
      BY <1>1, <1>3, <2>2, <3>1 DEF parseString, ValueRead
    <3> QED
      BY <3>2, ValueKeepsInv
  <2> QED
    BY <2>1, <2>2
<1>4. CASE parseInvalid
  <2>1. ErrorFound
    BY <1>4, Zenon DEF parseInvalid, ErrorFound
  <2> QED
    BY <2>1, ErrorKeepsInv
<1>5. CASE parseContainer("[", "array")
  <2>1. ValueRead("array", 0)
    BY <1>1, <1>5 DEF parseContainer, ValueRead
  <2> QED
    BY <2>1, ValueKeepsInv
<1>6. CASE parseContainer("{", "object")
  <2>1. ValueRead("object", 0)
    BY <1>1, <1>6, Zenon DEF parseContainer, ValueRead
  <2> QED
    BY <2>1, ValueKeepsInv
<1> QED
  BY <1>2, <1>3, <1>4, <1>5, <1>6, Zenon DEF parseNext

LEMMA TopIsFrame ==
  ASSUME TypeOK, stack # <<>>
  PROVE  /\ Top \in Frame(DOMAIN node)
         /\ [Top EXCEPT !.element = Here] = [Top EXCEPT !.element = Here, !.key = @]
<1>1. Top \in Frame(DOMAIN node)
  BY CallsTyped
<1> QED
  BY <1>1 DEF Frame

LEMMA ArraysKeepInv ==
  ASSUME JsonInv, parseArray, UNCHANGED answer
  PROVE  JsonInv'
<1>1. CASE arrayElement
  <2>1. PICK call : call = [Top EXCEPT !.element = Here]
    OBVIOUS
  <2>2. stack # <<>>
    BY <1>1 DEF arrayElement, Inside
  <2>3. call = [Top EXCEPT !.element = Here, !.key = IF FALSE THEN Here ELSE @]
    BY <2>1, <2>2, TopIsFrame DEF JsonInv
  <2>4. ElementCreated(Fresh, call, FALSE)
    BY <1>1, <2>1, <2>2, <2>3 DEF arrayElement, ElementCreated
  <2> QED
    BY <2>4, ElementKeepsInv
<1>2. CASE arrayAppend
  <2>1. mode = "return" /\ stack # <<>> /\ Adopt /\ ~ Inside("object") /\ texts' = texts
    BY <1>2 DEF arrayAppend, Inside
  <2>2. \/ Current = "," /\ Advance /\ mode' = "open" /\ UNCHANGED <<stack, err>>
        \/ Current = "]" /\ Advance /\ mode' = "return" /\ Pop /\ UNCHANGED err
        \/ Fail /\ Pop
    BY <1>2, Zenon DEF arrayAppend, Continue
  <2>3. ElementAdopted
    BY <2>1, <2>2, Zenon DEF ElementAdopted
  <2> QED
    BY <2>3, AdoptionKeepsInv
<1> QED
  BY <1>1, <1>2 DEF parseArray

LEMMA ObjectsKeepInv ==
  ASSUME JsonInv, parseObject, UNCHANGED answer
  PROVE  JsonInv'
<1>1. CASE objectComma
  <2>1. ErrorFound
    BY <1>1, Zenon DEF objectComma, ErrorFound
  <2> QED
    BY <2>1, ErrorKeepsInv
<1>2. CASE objectKey
  <2>0. stack # <<>> /\ Inside("object") /\ mode \in {"open", "key"}
    BY <1>2, Zenon DEF objectKey, Inside, JsonInv, Calls
  <2>1. CASE Current \in Strings
    <3>1. PICK call : call = [Top EXCEPT !.element = Here, !.key = Here]
      OBVIOUS
    <3>2. PICK new : new = [Fresh EXCEPT !.type = "string", !.text = Here]
      OBVIOUS
    <3>3. /\ node' = [m \in DOMAIN node \cup {Here} |-> IF m = Here THEN new ELSE node[m]]
          /\ texts' = texts \cup {Here}
          /\ stack' = Append(Front(stack), call)
          /\ Advance
          /\ mode' = "colon"
          /\ UNCHANGED err
      <4>1. /\ node' = [m \in DOMAIN node \cup {Here} |->
                          IF m = Here THEN [Fresh EXCEPT !.type = "string", !.text = Here]
                          ELSE node[m]]
            /\ texts' = texts \cup {Here}
            /\ stack' = Append(Front(stack), [Top EXCEPT !.element = Here, !.key = Here])
            /\ Advance
            /\ mode' = "colon"
            /\ UNCHANGED err
        <5>1. Current # "open"
          BY <2>1 DEF Strings
        <5> QED
          BY <1>2, <2>1, <5>1, Zenon DEF objectKey
      <4>2. node' = [m \in DOMAIN node \cup {Here} |-> IF m = Here THEN new ELSE node[m]]
        BY <3>2, <4>1, Zenon
      <4> QED
        BY <3>1, <4>1, <4>2
    <3>4. call = [Top EXCEPT !.element = Here, !.key = IF TRUE THEN Here ELSE @]
      BY <3>1
    <3>5. ElementCreated(new, call, TRUE)
      BY <2>0, <2>1, <3>2, <3>3, <3>4 DEF ElementCreated
    <3> QED
      BY <3>5, ElementKeepsInv
  <2>2. CASE Stop("undefined")
    <3>1. Stopped("undefined")
      BY <2>2 DEF Stopped
    <3> QED
      BY <3>1, StopKeepsInv
  <2>3. CASE Current \notin Strings /\ ~ Stop("undefined")
    <3>1. Fail /\ Pop /\ UNCHANGED <<node, texts>>
      <4>1. \/ Current = "open" /\ Stop("undefined")
            \/ Fail /\ Pop /\ UNCHANGED <<node, texts>>
            \/ Stop("undefined")
        BY <1>2, <2>3, Zenon DEF objectKey
      <4> QED
        BY <2>3, <4>1
    <3>2. ErrorFound
      BY <2>0, <3>1 DEF ErrorFound
    <3> QED
      BY <3>2, ErrorKeepsInv
  <2> QED
    BY <2>1, <2>2, <2>3
<1>3. CASE objectColon
  <2>1. CASE Current = ":"
    <3>1. ReadOn
      BY <1>3, <2>1 DEF objectColon, ReadOn
    <3> QED
      BY <3>1, ReadingKeepsInv
  <2>2. CASE Current # ":"
    <3>1. ErrorFound
      BY <1>3, <2>2 DEF objectColon, ErrorFound
    <3> QED
      BY <3>1, ErrorKeepsInv
  <2> QED
    BY <2>1, <2>2
<1>4. CASE objectSet
  <2>1. mode = "return" /\ stack # <<>> /\ Adopt /\ Inside("object") /\ texts' = texts \ {Top.key}
    BY <1>4, Zenon DEF objectSet, Inside
  <2>2. \/ Current = "," /\ Advance /\ mode' = "key" /\ UNCHANGED <<stack, err>>
        \/ Current = "}" /\ Advance /\ mode' = "return" /\ Pop /\ UNCHANGED err
        \/ Fail /\ Pop
    BY <1>4, Zenon DEF objectSet, Continue
  <2>3. ElementAdopted
    BY <2>1, <2>2, Zenon DEF ElementAdopted
  <2> QED
    BY <2>3, AdoptionKeepsInv
<1> QED
  BY <1>1, <1>2, <1>3, <1>4 DEF parseObject

LEMMA EndsKeepInv ==
  ASSUME JsonInv, UNCHANGED answer,
         closeContainer \/ unwind \/ finish \/ serverAddDocument \/ documentFree
  PROVE  JsonInv'
<1>0. ASSUME Stop("undefined") PROVE JsonInv'
  <2>1. Stopped("undefined")
    BY <1>0 DEF Stopped
  <2> QED
    BY <2>1, StopKeepsInv
<1>1. CASE closeContainer
  <2>1. Current # "end"
    BY <1>1, Zenon DEF closeContainer
  <2>2. ReadOn
    BY <1>1, <2>1, Zenon DEF closeContainer, ReadOn
  <2> QED
    BY <2>2, ReadingKeepsInv
<1>2. CASE unwind
  <2>1. PICK more : \/ Stop("undefined")
                    \/ /\ mode = "fail" /\ stack # <<>>
                       /\ Free(Top.element, more) /\ Pop /\ UNCHANGED <<input, mode, err>>
    BY <1>2 DEF unwind
  <2> QED
    BY <1>0, <2>1, UnwindingKeepsInv
<1>3. CASE finish
  <2>1. CASE mode = "return"
    <3>1. Stopped("parsed")
      BY <1>3, <2>1 DEF finish, Stopped, Stop
    <3> QED
      BY <3>1, StopKeepsInv
  <2>2. CASE mode = "fail"
    <3>1. \/ Stop("undefined")
          \/ stack = <<>> /\ Free(Root, {}) /\ mode' = "failed" /\ UNCHANGED <<input, stack, err>>
      BY <1>3, <2>2 DEF finish
    <3> QED
      BY <1>0, <2>2, <3>1, FreeingKeepsInv
  <2> QED
    BY <1>3, <2>1, <2>2 DEF finish
<1>4. CASE serverAddDocument
  <2>1. stack = <<>>
    BY <1>4 DEF serverAddDocument, JsonInv, Calls, Building
  <2>2. PICK how \in {"nil", "aborted", "stored"} :
          Stop(how) /\ (how = "stored" => mode = "parsed")
    BY <1>4 DEF serverAddDocument
  <2>3. Stopped(how)
    BY <2>1, <2>2 DEF Stopped
  <2> QED
    BY <2>3, StopKeepsInv
<1>5. CASE documentFree
  <2>1. Complete
    BY <1>5 DEF documentFree, Complete
  <2>2. stack = <<>>
    BY <2>1, DocumentIsTree
  <2>3. \/ Stop("undefined")
        \/ Free(Root, {}) /\ mode' = "freed" /\ UNCHANGED <<input, stack, err>>
    BY <1>5 DEF documentFree
  <2> QED
    BY <1>0, <2>1, <2>2, <2>3, FreeingKeepsInv
<1> QED
  BY <1>1, <1>2, <1>3, <1>4, <1>5

LEMMA StutterKeepsInv ==
  ASSUME JsonInv, UNCHANGED vars
  PROVE  JsonInv'
<1>1. /\ input' = input /\ stack' = stack /\ node' = node /\ texts' = texts /\ err' = err
      /\ mode' = mode /\ answer' = answer
  BY DEF vars, parser
<1>2. TypeOK' <=> TypeOK
  BY <1>1 DEF TypeOK
<1>3. \A c, n : ChildOf(c, n)' <=> ChildOf(c, n)
  BY <1>1 DEF ChildOf
<1>4. \A i : (Pending(i)' <=> Pending(i)) /\ (HasKey(i)' <=> HasKey(i))
  BY <1>1 DEF Pending, HasKey
<1>5. Forest' <=> Forest
  BY <1>1, <1>3 DEF Forest
<1>6. Here' = Here /\ Current' = Current /\ Top' = Top /\ target' = target
      /\ (Building' <=> Building) /\ (Complete' <=> Complete)
  BY <1>1 DEF Here, Current, Top, target, Building, Complete
<1>7. Calls' <=> Calls
  BY <1>1, <1>3, <1>4, <1>6 DEF Calls
<1>8. InputRead' <=> InputRead
  BY <1>1, <1>6 DEF InputRead
<1>9. \A n : KeyInElement(n)' <=> KeyInElement(n)
  BY <1>1, <1>4, <1>6 DEF KeyInElement
<1>10. TypesSet' <=> TypesSet
  BY <1>1, <1>6, <1>9 DEF TypesSet
<1>11. AllReachable' <=> AllReachable
  BY <1>1, <1>3, <1>4 DEF AllReachable
<1>12. TextsOwned' <=> TextsOwned
  BY <1>1, <1>4, <1>6 DEF TextsOwned, IsString
<1>13. TextsRead' <=> TextsRead
  BY <1>1, <1>4 DEF TextsRead, IsText
<1> QED
  BY <1>1, <1>2, <1>5, <1>6, <1>7, <1>8, <1>10, <1>11, <1>12, <1>13 DEF JsonInv

LEMMA NextKeepsInv ==
  ASSUME JsonInv, TextFits, [Next]_vars
  PROVE  JsonInv' /\ TextFits'
<1>1. ASSUME UNCHANGED answer PROVE TextFits'
  BY <1>1 DEF TextFits, strlen
<1>2. CASE jsonParse /\ UNCHANGED answer
  BY <1>1, <1>2, ValuesKeepInv, ArraysKeepInv, ObjectsKeepInv, EndsKeepInv DEF jsonParse
<1>3. CASE (serverAddDocument \/ documentFree) /\ UNCHANGED answer
  BY <1>1, <1>3, EndsKeepInv
<1>4. CASE jsonStringify
  <2>1. JsonInv' /\ answer'.text = <<>> /\ answer'.size = InitialSize
    BY <1>4, StringifyKeepsInv
  <2>2. InitialSize \in Nat \ {0}
    BY JsonAssumption, Zenon
  <2>3. strlen(answer'.text) <= answer'.size
    BY <2>1, <2>2, NothingHasNoLength
  <2>4. strlen(answer'.text) = strlen(answer.text)'
    BY DEF strlen
  <2> QED
    BY <2>1, <2>3, <2>4 DEF TextFits
<1>5. CASE concat
  <2>1. JsonInv' /\ strlen(answer'.text) <= answer'.size
    BY <1>5, ConcatKeepsInv
  <2>2. strlen(answer'.text) = strlen(answer.text)'
    BY DEF strlen
  <2> QED
    BY <2>1, <2>2 DEF TextFits
<1>6. CASE UNCHANGED vars
  <2>1. UNCHANGED answer
    BY <1>6 DEF vars
  <2> QED
    BY <1>1, <1>6, <2>1, StutterKeepsInv
<1> QED
  BY <1>2, <1>3, <1>4, <1>5, <1>6 DEF Next

LEMMA JsonInvariance == Spec => [](JsonInv /\ TextFits)
<1>1. (JsonInv /\ TextFits) /\ [Next]_vars => (JsonInv /\ TextFits)'
  BY NextKeepsInv
<1> QED
  BY InitJson, <1>1, PTL DEF Spec

-----------------------------------------------------------------------------
(* The input, the calls, the structs and what is printed have their types  *)
(* in every state: children are structs that are allocated, and jsonParse  *)
(* never uses a struct that was freed.                                     *)
THEOREM JsonTypeCorrect == Spec => []TypeOK
<1>1. JsonInv /\ TextFits => TypeOK
  BY DEF JsonInv
<1> QED
  BY <1>1, JsonInvariance, PTL

(* A parsed document, stored or printed, has every struct and every string *)
(* that is allocated in the tree of its root; once it is freed, nothing is *)
(* left of it.                                                             *)
THEOREM DocumentsOwnTheirTrees == Spec => []OwnsItsTree
<1>1. JsonInv /\ TextFits => OwnsItsTree
  BY DocumentIsTree DEF OwnsItsTree, Complete, JsonInv
<1> QED
  BY <1>1, JsonInvariance, PTL

(* However large the pieces that concat appends, the text it has printed   *)
(* is no longer than the block it has enlarged.                            *)
THEOREM PrintedTextFits == Spec => []TextFits
BY JsonInvariance, PTL

=============================================================================
