-------------------------------- MODULE Json --------------------------------
(***************************************************************************)
(* jsonParse and jsonStringify of src/json.c, with what serverAddDocument  *)
(* does in between.  The recursive descent is a machine with an explicit   *)
(* stack: a frame is a call of parseArray or parseObject that waits for a  *)
(* value.                                                                  *)
(*                                                                         *)
(* The input is a sequence of tokens, with the white space that is skipped *)
(* between them left out, and is chosen as it is read.  A scalar is a      *)
(* literal or a number; an inexact one is a number of which %g prints      *)
(* another, and a huge one is no finite double.  An escaped string has a   *)
(* quote or a backslash in it; there are two others, so that keys may be   *)
(* the same or differ.  Junk is a character that begins no value; an open  *)
(* string has no closing quote; end is the NUL behind the input.           *)
(***************************************************************************)
EXTENDS Integers, Sequences, SequencesExt, FiniteSets

CONSTANTS
  Tokens,           (* the tokens that inputs are made of                  *)
  MaxTokens,        (* a bound on the length of the input                  *)
  StringLength,     (* the characters of a string, with its quotes         *)
  InitialSize       (* JSON_STRING_INITIAL_SIZE                            *)

Strings == {"string", "another", "escaped"}
Scalars == {"scalar", "inexact", "huge"}

(* What is printed for a string or scalar.  parseString takes the escape   *)
(* characters away, and nothing puts them back; %g prints six digits, and  *)
(* inf or nan, which are no values.                                        *)
AsPrinted(t) ==
  CASE t = "escaped" -> "raw"
    [] t = "inexact" -> "scalar"
    [] t = "huge"    -> "inf"
    [] OTHER         -> t

(* What printed texts are made of.                                         *)
Printed == {"[", "]", "{", "}", ",", ":", "string", "another", "raw", "scalar", "inf"}

ASSUME JsonAssumption ==
  /\ Tokens \subseteq
       Strings \cup Scalars \cup {"[", "]", "{", "}", ",", ":", "junk", "open"}
  /\ MaxTokens \in Nat \ {0}
  /\ StringLength \in Nat \ {0, 1}
  /\ InitialSize \in Nat \ {0}

VARIABLES
  input,            (* what has been read; its last token is the current   *)
  mode,             (* what the parser is about to do                      *)
  stack,            (* the calls that wait for a value                     *)
  node,             (* the Json structs that are allocated                 *)
  texts,            (* the strings that are allocated                      *)
  err,              (* where err points to in the input, 0 if it is empty  *)
  answer            (* the text of the document as far as it is printed,   *)
                    (* the size of its block, and the pieces to come       *)

parser == <<input, stack, node, texts, err>>
vars   == <<mode, parser, answer>>

(* A struct is named by the place of its first token, a string by its own  *)
(* place; the struct that jsonParse creates is the root.                   *)
Root  == 0
Names == 0 .. MaxTokens + 1

(* The type of a new struct is not initialised.                            *)
Fresh == [type |-> "uninitialised", text |-> 0, children |-> <<>>]

TypeOK ==
  /\ input \in Seq(Tokens \cup {"end"})
  /\ mode \in {"value", "open", "key", "colon", "return", "fail", "parsed", "failed",
               "stored", "print", "nil", "freed", "aborted", "undefined"}
  /\ stack \in Seq([node : DOMAIN node, element : Names, key : Names])
  /\ DOMAIN node \subseteq Names
  /\ node \in [DOMAIN node ->
       [type : Scalars \cup {"uninitialised", "string", "array", "object"},
        text : Names, children : Seq(DOMAIN node)]]
  /\ texts \subseteq Names
  /\ err \in 0 .. Len(input)
  /\ answer \in [text : Seq(Printed), size : Nat, pieces : Seq(Seq(Printed))]

Current == Last(input)
Here    == Len(input)
Top     == Last(stack)

(* inc and skip: the next token is read.                                   *)
Advance ==
  \E t \in {"end"} \cup (IF Here < MaxTokens THEN Tokens ELSE {}) :
    input' = Append(input, t)

Init ==
  /\ input \in {<<t>> : t \in Tokens \cup {"end"}}
  /\ mode = "value"
  /\ stack = <<>>
  /\ node = [n \in {Root} |-> Fresh]
  /\ texts = {}
  /\ err = 0
  /\ answer = [text |-> <<>>, size |-> InitialSize, pieces |-> <<>>]

Stop(how) ==
  /\ mode' = how
  /\ UNCHANGED <<input, stack, node, texts, err>>

-----------------------------------------------------------------------------
(* Memory.                                                                 *)

(* The structs that jsonFree(n) visits.                                    *)
Tree(n) ==
  LET below[m \in DOMAIN node] ==
        {m} \cup UNION {below[c] : c \in ToSet(node[m].children)}
  IN  below[n]

TextsOf(names) == {node[m].text : m \in {x \in names : node[x].type = "string"}}

(* jsonFree(n), and mfree of the strings in more, are safe if each string  *)
(* is freed once and the type has been set.                                *)
CanFree(n, more) ==
  /\ TextsOf(Tree(n)) \cup more \subseteq texts
  /\ TextsOf(Tree(n)) \cap more = {}

Free(n, more) ==
  /\ node' = [m \in DOMAIN node \ Tree(n) |-> node[m]]
  /\ texts' = texts \ (TextsOf(Tree(n)) \cup more)

(* strlen(err) is 0 as well if the error is at the end of the input.       *)
ErrIsEmpty == err = 0 \/ input[err] = "end"

(* With the type uninitialised, jsonFree may take it for any type and free *)
(* what happens to be in the value.  And err has 128 bytes: the rest of    *)
(* the input that fail copied may have overwritten the heap behind them.   *)
MayCrash(n, more) ==
  node[n].type = "uninitialised" \/ ~ CanFree(n, more) \/ ~ ErrIsEmpty

-----------------------------------------------------------------------------
(* parseNext, into the struct target.                                      *)

target == IF stack = <<>> THEN Root ELSE Top.element

Set(n, type, text) ==
  node' = [node EXCEPT ![n].type = type, ![n].text = text]

(* Mutant: err is not set.                                                 *)
FailSilently ==
  /\ mode' = "fail"
  /\ UNCHANGED <<input, err>>

(* fail: err gets the rest of the input, however long it is; MayCrash says *)
(* what becomes of a rest that is too long.                                *)
Fail ==
  /\ err' = Here
  /\ mode' = "fail"
  /\ UNCHANGED input

parseScalar ==
  /\ mode = "value" /\ Current \in Scalars
  /\ Set(target, Current, 0)
  /\ Advance
  /\ mode' = "return"
  /\ UNCHANGED <<stack, texts, err>>

(* The search for the closing quote does not stop at the end of the input. *)
parseString ==
  /\ mode = "value"
  /\ \/ /\ Current = "open"
        /\ Stop("undefined")
     \/ /\ Current \in Strings
        /\ Set(target, "string", Here)
        /\ texts' = texts \cup {Here}
        /\ Advance
        /\ mode' = "return"
        /\ UNCHANGED <<stack, err>>

parseContainer(begin, type) ==
  /\ mode = "value" /\ Current = begin
  /\ Set(target, type, 0)
  /\ stack' = Append(stack, [node |-> target, element |-> 0, key |-> 0])
  /\ Advance
  /\ mode' = "open"
  /\ UNCHANGED <<texts, err>>

parseInvalid ==
  /\ mode = "value"
  /\ Current \in {"]", "}", ",", ":", "junk", "end"}
  /\ Fail
  /\ UNCHANGED <<stack, node, texts>>

-----------------------------------------------------------------------------
(* parseArray.                                                             *)

Inside(type) == stack # <<>> /\ node[Top.node].type = type

Pop == stack' = Front(stack)

(* Mutant: the element is appended before it is parsed.                    *)
AppendUnparsed ==
  /\ mode = "open" /\ Inside("array")
  /\ Current # "]"
  /\ node' = [m \in DOMAIN node \cup {Here} |->
               CASE m = Here     -> Fresh
                 [] m = Top.node -> [node[m] EXCEPT !.children = Append(@, Here)]
                 [] OTHER        -> node[m]]
  /\ stack' = Append(Front(stack), [Top EXCEPT !.element = Here])
  /\ mode' = "value"
  /\ UNCHANGED <<input, texts, err>>

(* Before each element, and so also behind a comma, the array may end.     *)
arrayElement ==
  /\ mode = "open" /\ Inside("array")
  /\ Current # "]"
  /\ node' = [m \in DOMAIN node \cup {Here} |-> IF m = Here THEN Fresh ELSE node[m]]
  /\ stack' = Append(Front(stack), [Top EXCEPT !.element = Here])
  /\ mode' = "value"
  /\ UNCHANGED <<input, texts, err>>

(* Mutant: the element becomes the first.                                  *)
AdoptInFront == node' = [node EXCEPT ![Top.node].children = <<Top.element>> \o @]

(* The element becomes the last of its array or object.                    *)
Adopt == node' = [node EXCEPT ![Top.node].children = Append(@, Top.element)]

(* What follows a value in a container that ends with the token close.     *)
Continue(close, next) ==
  CASE Current = ","   -> Advance /\ mode' = next /\ UNCHANGED <<stack, err>>
    [] Current = close -> Advance /\ mode' = "return" /\ Pop /\ UNCHANGED err
    [] OTHER           -> Fail /\ Pop

(* Mutant: no value is needed between commas.                              *)
SkipCommas ==
  /\ mode = "return" /\ Inside("array")
  /\ Adopt
  /\ IF Current = "," THEN Advance /\ mode' = "return" /\ UNCHANGED <<stack, err>>
     ELSE Continue("]", "open")
  /\ UNCHANGED texts

arrayAppend ==
  /\ mode = "return" /\ Inside("array")
  /\ Adopt
  /\ Continue("]", "open")
  /\ UNCHANGED texts

-----------------------------------------------------------------------------
(* parseObject.                                                            *)

objectComma ==
  /\ mode = "open" /\ Inside("object")
  /\ Current = ","
  /\ Fail /\ Pop
  /\ UNCHANGED <<node, texts>>

(* An empty array or object ends, or an array behind a comma.              *)
closeContainer ==
  /\ mode = "open"
  /\ Current = (IF Inside("array") THEN "]" ELSE "}")
  /\ Advance
  /\ Pop
  /\ mode' = "return"
  /\ UNCHANGED <<node, texts, err>>

(* The element is created for its key first.  If there is no string it is  *)
(* freed before its type was set.                                          *)
objectKey ==
  /\ \/ mode = "open" /\ Inside("object") /\ Current \notin {"}", ","}
     \/ mode = "key"
  /\ CASE Current \in Strings ->
            /\ node' = [m \in DOMAIN node \cup {Here} |->
                          IF m = Here THEN [Fresh EXCEPT !.type = "string", !.text = Here]
                          ELSE node[m]]
            /\ texts' = texts \cup {Here}
            /\ stack' = Append(Front(stack), [Top EXCEPT !.element = Here, !.key = Here])
            /\ Advance
            /\ mode' = "colon"
            /\ UNCHANGED err
       [] Current = "open" -> Stop("undefined")
       [] OTHER ->
            \/ Fail /\ Pop /\ UNCHANGED <<node, texts>>
            \/ Stop("undefined")

(* Without a colon the key is freed; the element is not.                   *)
objectColon ==
  /\ mode = "colon"
  /\ IF Current = ":"
       THEN Advance /\ mode' = "value" /\ UNCHANGED <<stack, texts, err>>
       ELSE Fail /\ Pop /\ texts' = texts \ {Top.key}
  /\ UNCHANGED node

(* Mutant: the key is not freed.                                           *)
SetKeepsKey ==
  /\ mode = "return" /\ Inside("object")
  /\ Adopt
  /\ Continue("}", "key")
  /\ UNCHANGED texts

(* dictSet copies the key.                                                 *)
objectSet ==
  /\ mode = "return" /\ Inside("object")
  /\ Adopt
  /\ texts' = texts \ {Top.key}
  /\ Continue("}", "key")

-----------------------------------------------------------------------------
(* The way back from an error, and the end.                                *)

(* A call whose value could not be parsed frees its element, and its key.  *)
(* If no value has overwritten the key in the element, that is twice.      *)
unwind ==
  LET key == IF Inside("object") THEN {Top.key} ELSE {} IN
  /\ mode = "fail" /\ stack # <<>>
  /\ \/ /\ MayCrash(Top.element, key)
        /\ Stop("undefined")
     \/ /\ CanFree(Top.element, key)
        /\ Free(Top.element, key)
        /\ Pop
        /\ UNCHANGED <<input, mode, err>>

finish ==
  /\ stack = <<>>
  /\ \/ /\ mode = "return"
        /\ mode' = "parsed"
        /\ UNCHANGED <<input, stack, node, texts, err>>
     \/ /\ mode = "fail"
        /\ \/ /\ MayCrash(Root, {})
              /\ Stop("undefined")
           \/ /\ CanFree(Root, {})
              /\ Free(Root, {})
              /\ mode' = "failed"
              /\ UNCHANGED <<input, stack, err>>

(* documentCreate asserts that there are contents.                         *)
serverAddDocument ==
  /\ mode \in {"parsed", "failed"}
  /\ Stop(IF ~ ErrIsEmpty THEN "nil" ELSE IF mode = "failed" THEN "aborted" ELSE "stored")

(* documentFree, when the document is removed.                             *)
documentFree ==
  /\ mode = "stored" \/ (mode = "print" /\ answer.pieces = <<>>)
  /\ \/ /\ MayCrash(Root, {})
        /\ Stop("undefined")
     \/ /\ CanFree(Root, {})
        /\ Free(Root, {})
        /\ mode' = "freed"
        /\ UNCHANGED <<input, stack, err>>

-----------------------------------------------------------------------------

(* jsonStringify.  What it prints is given piece by piece to concat.       *)


CommaBetween(items) ==
  FlattenSeq([i \in DOMAIN items |-> IF i = 1 THEN items[i] ELSE <<<<",">>>> \o items[i]])

(* The names of the members of an object in the order of dictIter: bucket  *)
(* by bucket, the older first.  A member is named by the place of its key. *)
dictIter(members, bucket) ==
  LET Filled(b) == FlattenSeq([i \in DOMAIN members |->
                     IF bucket[input[members[i]]] = b THEN <<members[i]>> ELSE <<>>])
  IN  Filled(1) \o Filled(2)

(* The oldest member with the key of m.                                    *)
dictGet(members, m) == members[SelectInSeq(members, LAMBDA d : input[d] = input[m])]

(* What stringifyNext prints for the root.                                 *)
stringifyNext(bucket) ==
  LET print[n \in DOMAIN node] ==
        LET c      == node[n].children
            keys   == dictIter(c, bucket)
            Member(m) == <<<<AsPrinted(input[m]), ":">>>> \o print[dictGet(c, m)]
        IN  CASE node[n].type = "array" ->
                   <<<<"[">>>> \o CommaBetween([i \in DOMAIN c |-> print[c[i]]]) \o <<<<"]">>>>
              [] node[n].type = "object" ->
                   <<<<"{">>>> \o CommaBetween([i \in DOMAIN keys |-> Member(keys[i])]) \o <<<<"}">>>>
              [] node[n].type = "string" -> <<<<AsPrinted(input[node[n].text])>>>>
              [] OTHER                   -> <<<<AsPrinted(node[n].type)>>>>
  IN  print[Root]

(* A client gets the document.  Keys may fall into any bucket.             *)
jsonStringify ==
  /\ mode = "stored"
  /\ mode' = "print"
  /\ \E bucket \in [Strings -> {1, 2}] :
       answer' = [text |-> <<>>, size |-> InitialSize, pieces |-> stringifyNext(bucket)]
  /\ UNCHANGED parser

strlen(text) ==
  Len(text) + (StringLength - 1) * Cardinality({i \in DOMAIN text : text[i] \in Strings \cup {"raw"}})

(* Mutant: the buffer is doubled once only.                                *)
GrowOnce(size, needed) == IF needed > size THEN size * 2 + 1 ELSE size

Grow(size, needed) ==
  LET grow[n \in Nat] == IF needed > n THEN grow[n * 2 + 1] ELSE n IN grow[size]

(* A key has 256 bytes before it is appended, however long it is.          *)
IsKey(piece) == Len(piece) = 2

(* The terminator is not counted, and may be written behind the block.     *)
concat ==
  LET text == answer.text \o Head(answer.pieces)
      size == Grow(answer.size, strlen(text))
  IN
  /\ mode = "print" /\ answer.pieces # <<>>
  /\ answer' = [text |-> text, size |-> size, pieces |-> Tail(answer.pieces)]
  /\ mode' \in {"print"} \cup
       (IF strlen(text) < size /\ ~ IsKey(Head(answer.pieces)) THEN {} ELSE {"undefined"})
  /\ UNCHANGED parser

-----------------------------------------------------------------------------

parseNext ==
  \/ parseScalar \/ parseString \/ parseInvalid
  \/ parseContainer("[", "array") \/ parseContainer("{", "object")

parseArray  == arrayElement \/ arrayAppend
parseObject == objectComma \/ objectKey \/ objectColon \/ objectSet

jsonParse == parseNext \/ parseArray \/ parseObject \/ closeContainer \/ unwind \/ finish

Next ==
  \/ (jsonParse \/ serverAddDocument \/ documentFree) /\ UNCHANGED answer
  \/ jsonStringify \/ concat

Spec == Init /\ [][Next]_vars

-----------------------------------------------------------------------------
(* A reference definition, by length: the values, what their brackets and  *)
(* braces hold, and the beginnings of each.  An array may have a comma     *)
(* behind its last element.  A member is a key, a colon and a value.  To   *)
(* the grammar all strings are alike, and all scalars.                     *)

Joined(X, Y) == {x \o y : x \in X, y \in Y}

(* The sequences of n tokens made of one of F and one of G.                *)
Split(F(_), G(_), n) == UNION {Joined(F(i), G(n - i)) : i \in 1 .. n - 1}

(* The sets of length n, from those of the lengths in shorter.             *)
Sentences(shorter, n) ==
  LET Key   == {<<"string", ":">>}
      V(i)  == IF i < 1 THEN {} ELSE shorter[i].value
      E(i)  == IF i < 1 THEN {} ELSE shorter[i].elements
      M(i)  == IF i < 1 THEN {} ELSE shorter[i].members
      BV(i) == IF i = 0 THEN {<<>>} ELSE shorter[i].beginsValue
      BE(i) == IF i = 0 THEN {<<>>} ELSE shorter[i].beginsElements
      BM(i) == IF i = 0 THEN {<<>>} ELSE shorter[i].beginsMembers
      EComma(i)  == Joined(E(i - 1), {<<",">>})
      MComma(i)  == Joined(M(i - 1), {<<",">>})
      Member(i)  == Joined(Key, V(i - 2))
      BMember(i) == IF i = 1 THEN {<<"string">>} ELSE Joined(Key, BV(i - 2))
      value ==
        CASE n = 1 -> {<<"string">>, <<"scalar">>}
          [] n = 2 -> {<<"[", "]">>, <<"{", "}">>}
          [] OTHER -> Joined({<<"[">>}, Joined(E(n - 2) \cup EComma(n - 2), {<<"]">>}))
                        \cup Joined({<<"{">>}, Joined(M(n - 2), {<<"}">>}))
      beginsValue ==
        value \cup Joined({<<"[">>}, BE(n - 1)) \cup Joined({<<"{">>}, BM(n - 1))
  IN  [value          |-> value,
       elements       |-> value \cup Split(EComma, V, n),
       members        |-> Member(n) \cup Split(MComma, Member, n),
       beginsValue    |-> beginsValue,
       beginsElements |-> beginsValue \cup EComma(n) \cup Split(EComma, BV, n),
       beginsMembers  |-> BMember(n) \cup MComma(n) \cup Split(MComma, BMember, n)]

Grammar ==
  FoldLeft(LAMBDA shorter, n : Append(shorter, Sentences(shorter, n)),
           <<>>, [n \in 1 .. MaxTokens + 1 |-> n])

Shape(s) ==
  [i \in DOMAIN s |-> CASE s[i] \in Strings -> "string"
                        [] s[i] \in Scalars -> "scalar"
                        [] OTHER            -> s[i]]

IsValue(s)     == s # <<>> /\ Shape(s) \in Grammar[Len(s)].value
BeginsValue(s) == s = <<>> \/ Shape(s) \in Grammar[Len(s)].beginsValue

-----------------------------------------------------------------------------

(* jsonParse accepts the values of the grammar and nothing else; on an     *)
(* error it has read on as long as the input could still become a value,   *)
(* and err points to the first token that no value can have there.         *)
ParsesTheGrammar ==
  /\ mode = "parsed" => IsValue(Front(input))
  /\ mode = "failed" =>
       /\ err = Here
       /\ BeginsValue(Front(input)) /\ ~ IsValue(Front(input))
       /\ ~ BeginsValue(input)

(* The tokens that the tree of n stands for.                               *)
Spell(n) ==
  LET spell[m \in DOMAIN node] ==
        LET c == node[m].children
            Item(i) == (IF node[m].type = "object" THEN <<input[c[i]], ":">> ELSE <<>>) \o spell[c[i]]
            inner == FlattenSeq([i \in DOMAIN c |->
                       IF i = 1 THEN Item(i) ELSE <<",">> \o Item(i)])
        IN  CASE node[m].type = "array"  -> <<"[">> \o inner \o <<"]">>
              [] node[m].type = "object" -> <<"{">> \o inner \o <<"}">>
              [] node[m].type = "string" -> <<input[node[m].text]>>
              [] OTHER                   -> <<node[m].type>>
  IN  spell[n]

(* The input without the commas at the end of arrays.                      *)
Kept ==
  LET kept == {i \in 1 .. Here - 1 : ~ (input[i] = "," /\ input[i + 1] = "]")} IN
  [i \in 1 .. Cardinality(kept) |->
     input[CHOOSE j \in kept : Cardinality({k \in kept : k <= j}) = i]]

(* The tree that jsonParse builds has every value of the input, in order   *)
(* and nested as in the input; only commas at the end of arrays are gone.  *)
BuildsTheTree == mode = "parsed" => Spell(Root) = Kept

(* A parsed document owns what was allocated for it, and gives all of it   *)
(* back when it is freed.                                                  *)
OwnsItsTree ==
  /\ mode \in {"parsed", "stored", "print"} =>
       DOMAIN node = Tree(Root) /\ texts = TextsOf(Tree(Root))
  /\ mode = "freed" => node = <<>> /\ texts = {}

(* serverAddDocument looks at err alone: all the same it stores a document *)
(* only if the contents begin with a value, and answers nil only if they   *)
(* do not.  Contents that begin with a value are never refused, and the    *)
(* assertion fails only of those that end where a value could go on.       *)
(* (The server may not survive others: err is too short for their rest,    *)
(* and a string may have no end.)                                          *)
AddsOnlyValues ==
  /\ mode \in {"stored", "print"} => IsValue(Front(input))
  /\ mode = "nil" => ~ BeginsValue(input)
  /\ mode = "aborted" => Current = "end" /\ BeginsValue(Front(input))
  /\ mode \in {"nil", "aborted"} \/ (mode = "undefined" /\ answer.text = <<>>) =>
       \A i \in 1 .. Here - 1 : ~ IsValue(SubSeq(input, 1, i))

ObjectsWith(Test(_)) ==
  {n \in DOMAIN node : node[n].type = "object" /\ Test(node[n].children)}

TwoMembers(members) == Len(members) > 1
SameKeys(members) == \E i, j \in DOMAIN members : i # j /\ input[members[i]] = input[members[j]]

Occurrences(s) == [t \in Tokens |-> Cardinality({i \in DOMAIN s : s[i] = t})]

(* What is left of numbers when they are printed.                          *)
Rounded(s) == [i \in DOMAIN s |-> IF s[i] = "inexact" THEN "scalar" ELSE s[i]]

Printable == ToSet(Kept) \cap {"escaped", "huge"} = {}


(* The comment of concat: "Concatenate a value to the end of a string      *)
(* without worrying about buffer overflows."  However long the strings,    *)
(* the text is never longer than its block; but if it just fills it, its   *)
(* terminator is one byte behind.                                          *)
TextFits == strlen(answer.text) <= answer.size

=============================================================================
