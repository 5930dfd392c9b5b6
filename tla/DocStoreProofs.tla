--------------------------- MODULE DocStoreProofs ---------------------------
(***************************************************************************)
(* Proofs, for any workers, clients, documents and lists: that no command  *)
(* of DocStore trips the assertion of a list or follows a pointer to freed *)
(* memory, and that a document's mutex is held by the worker that edits    *)
(* it, unless a remove and a command that was run at once with an add or a *)
(* remove come together; and that the commands take effect one after the   *)
(* other as DocSpec says, until an add or a remove is run at once with     *)
(* another command.                                                        *)
(*                                                                         *)
(* Three invariants make up the one that is inductive.  TypeInv holds      *)
(* always.  StoreInv, the shape of the list, holds until commands overlap. *)
(* GrowInv, which knows nothing of the shape but that nothing is ever      *)
(* freed, holds until a remove is sent, whatever overlaps.                 *)
(***************************************************************************)
EXTENDS DocStore, DataProofs, FiniteSetTheorems

-----------------------------------------------------------------------------
(* What the theorems assume of the memory: that it has no room for more    *)
(* entries than a length, of 32 bits in the program, can count.            *)
Countable == Cardinality(Cells) < UInt

Change == {"add", "remove"}

Busy(w) == local[w].pc # "idle"

-----------------------------------------------------------------------------
(* Types.                                                                  *)

(* The steps of each command.                                              *)
StepOf(w) ==
  LET r == local[w] IN
  /\ r.pc = "idle" <=> r.cmd = "none"
  /\ r.pc \in {"length", "single", "iterate"} => r.cmd # "add"
  /\ r.pc = "use" => r.cmd = "get"
  /\ r.pc \in {"lock", "load", "store", "unlock"} => r.cmd \in {"start", "end"}
  /\ r.pc \in {"locate", "freeDoc", "unlink"} => r.cmd = "remove"
  /\ r.pc \in {"create", "fetch", "append", "first", "alone", "behind", "last", "link"} =>
       r.cmd = "add"
  /\ r.pc \in {"count", "resize"} => r.cmd \in Change
  /\ r.cmd \in {"start", "end"} => r.user \in Users

(* The steps of an "add" before its entry is allocated.                    *)
Unlisted == {"bucket", "create", "fetch", "append", "first", "behind", "last"}

(* What is used as a pointer is one.                                       *)
PointersOf(w) ==
  LET r == local[w] IN
  /\ r.pc \in {"length", "single", "iterate", "locate", "freeDoc", "unlink", "append",
               "first", "alone", "behind", "last", "link", "count", "resize"} =>
       r.list \in DOMAIN list
  /\ r.pc = "fetch" => bucket # Null
  /\ r.cmd = "add" /\ r.pc \in Unlisted => r.doc \in Docs

TypeInv ==
  /\ TypeOK
  /\ \A w \in Workers : StepOf(w) /\ PointersOf(w)

(* A worker's registers take new values.                                   *)
LEMMA NewRegisters ==
  ASSUME TypeOK, NEW w \in Workers, NEW r \in LocalRec, local' = [local EXCEPT ![w] = r]
  PROVE  /\ local' \in [Workers -> LocalRec]
         /\ local'[w] = r
         /\ \A v \in Workers : v # w => local'[v] = local[v]
BY DEF TypeOK

(* What a worker's registers hold.                                         *)
LEMMA LocalTypes ==
  ASSUME TypeOK, NEW w \in Workers
  PROVE  /\ local[w] \in LocalRec
         /\ local[w].pc \in Pcs /\ local[w].cmd \in Commands \cup {"none"}
         /\ local[w].key \in Keys /\ local[w].user \in Users \cup {NoUser}
         /\ local[w].list \in Lists \cup {Null} /\ local[w].length \in 0 .. UInt - 1
         /\ local[w].index \in Nat
         /\ local[w].cell \in Cells \cup {Null} /\ local[w].doc \in Docs \cup {Null}
         /\ local[w].copy \in Seq(Users)
BY DEF TypeOK, LocalRec

LEMMA IdleIsTyped ==
  /\ Idle \in LocalRec
  /\ Idle.pc = "idle" /\ Idle.cmd = "none" /\ Idle.key = CHOOSE k \in Keys : TRUE
  /\ Idle.user = NoUser /\ Idle.reply = "none" /\ Idle.index = 0
BY DocAssumption DEF Idle, LocalRec, Pcs

Shared ==
  /\ bucket \in DOMAIN list \cup {Null}
  /\ DOMAIN list \subseteq Lists /\ \A l \in DOMAIN list : list[l] \in ListRec
  /\ DOMAIN cell \subseteq Cells /\ \A e \in DOMAIN cell : cell[e] \in CellRec
  /\ DOMAIN doc \subseteq Docs   /\ \A d \in DOMAIN doc : doc[d] \in DocRec

(* A worker's step keeps the types if what it writes has them.             *)
LEMMA TypedStep ==
  ASSUME TypeInv, NEW w \in Workers, NEW r \in LocalRec, local' = [local EXCEPT ![w] = r],
         status' = status, history' \in HistoryRec, Shared',
         DOMAIN list \subseteq DOMAIN list', bucket # Null => bucket' # Null,
         (StepOf(w) /\ PointersOf(w))'
  PROVE  TypeInv'
<1>1. /\ local' \in [Workers -> LocalRec]
      /\ local'[w] = r
      /\ \A v \in Workers : v # w => local'[v] = local[v]
  BY NewRegisters DEF TypeInv
<1>2. TypeOK'
  BY <1>1 DEF TypeInv, TypeOK, Shared
<1>3. ASSUME NEW v \in Workers PROVE (StepOf(v) /\ PointersOf(v))'
  <2>1. CASE v # w
    BY <1>1, <2>1 DEF TypeInv, StepOf, PointersOf
  <2> QED
    BY <2>1
<1> QED
  BY <1>2, <1>3 DEF TypeInv

(* ... which is less to show if it only reads what is shared.              *)
LEMMA TypedRead ==
  ASSUME TypeInv, NEW w \in Workers, NEW r \in LocalRec, local' = [local EXCEPT ![w] = r],
         Reads, (StepOf(w) /\ PointersOf(w))'
  PROVE  TypeInv'
<1>1. Shared'
  BY DEF Reads, Shared, TypeInv, TypeOK
<1> QED
  BY <1>1, TypedStep DEF Reads, TypeInv, TypeOK

LEMMA MissTyped ==
  ASSUME TypeInv, NEW w \in Workers, Miss(w), Reads, local[w].pc # "idle"
  PROVE  TypeInv'
<1> DEFINE reply == IF local[w].cmd = "remove" THEN "ok" ELSE "nil"
           r == [local[w] EXCEPT !.pc = "reply", !.reply = reply]
<1>1. r \in LocalRec
  <2>1. local[w] \in LocalRec
    BY LocalTypes DEF TypeInv
  <2>2. reply \in {"none", "ok", "nil", "contents"} /\ "reply" \in Pcs
    BY DEF Pcs
  <2> HIDE DEF reply
  <2> QED
    BY <2>1, <2>2, ZenonT(60) DEF LocalRec
<1>2. local' = [local EXCEPT ![w] = r]
  BY DEF Miss, Answer
<1>3. local'[w] = r
  BY <1>1, <1>2, NewRegisters DEF TypeInv
<1>4. r.pc = "reply" /\ r.cmd = local[w].cmd /\ r.user = local[w].user
  BY DEF TypeInv, TypeOK, LocalRec
<1> HIDE DEF r
<1>5. StepOf(w)' /\ PointersOf(w)'
  BY <1>3, <1>4 DEF StepOf, PointersOf, Unlisted, TypeInv
<1> QED
  BY <1>1, <1>2, <1>5, TypedRead

(* Going to another step with the same registers.                          *)
LEMMA GotoTyped ==
  ASSUME TypeInv, NEW w \in Workers, NEW pc \in Pcs, Goto(w, pc)
  PROVE  /\ [local[w] EXCEPT !.pc = pc] \in LocalRec
         /\ local' = [local EXCEPT ![w] = [local[w] EXCEPT !.pc = pc]]
         /\ local'[w] = [local[w] EXCEPT !.pc = pc]
         /\ local'[w].pc = pc /\ local'[w].cmd = local[w].cmd /\ local'[w].user = local[w].user
         /\ local'[w].list = local[w].list /\ local'[w].cell = local[w].cell
         /\ local'[w].doc = local[w].doc /\ local'[w].length = local[w].length
         /\ local'[w].index = local[w].index /\ local'[w].key = local[w].key
         /\ \A v \in Workers : v # w => local'[v] = local[v]
<1>1. local[w] \in LocalRec
  BY LocalTypes DEF TypeInv
<1>2. [local[w] EXCEPT !.pc = pc] \in LocalRec
  BY <1>1 DEF LocalRec
<1>3. local' = [local EXCEPT ![w] = [local[w] EXCEPT !.pc = pc]]
  BY DEF Goto
<1>4. local'[w] = [local[w] EXCEPT !.pc = pc] /\ \A v \in Workers : v # w => local'[v] = local[v]
  BY <1>2, <1>3, NewRegisters DEF TypeInv
<1> QED
  BY <1>1, <1>2, <1>3, <1>4 DEF LocalRec

LEMMA AnswerTyped ==
  ASSUME TypeInv, NEW w \in Workers, NEW reply \in {"ok", "nil", "contents"}, Answer(w, reply),
         local[w].pc # "idle"
  PROVE  /\ [local[w] EXCEPT !.pc = "reply", !.reply = reply] \in LocalRec
         /\ local' = [local EXCEPT ![w] = [local[w] EXCEPT !.pc = "reply", !.reply = reply]]
         /\ local'[w].pc = "reply" /\ local'[w].cmd = local[w].cmd
         /\ \A v \in Workers : v # w => local'[v] = local[v]
         /\ (StepOf(w) /\ PointersOf(w))'
<1> DEFINE r == [local[w] EXCEPT !.pc = "reply", !.reply = reply]
<1>1. local[w] \in LocalRec /\ "reply" \in Pcs
  BY LocalTypes DEF TypeInv, Pcs
<1>2. r \in LocalRec
  BY <1>1, ZenonT(60) DEF LocalRec
<1>3. local' = [local EXCEPT ![w] = r]
  BY DEF Answer
<1>4. local'[w] = r /\ \A v \in Workers : v # w => local'[v] = local[v]
  BY <1>2, <1>3, NewRegisters DEF TypeInv
<1>5. r.pc = "reply" /\ r.cmd = local[w].cmd /\ r.user = local[w].user
  BY <1>1 DEF LocalRec
<1>6. (StepOf(w) /\ PointersOf(w))'
  BY <1>4, <1>5 DEF TypeInv, StepOf, PointersOf, Unlisted
<1> QED
  BY <1>2, <1>3, <1>4, <1>5, <1>6

(* What "start" and "end" make of the collaborators.                       *)
LEMMA EditedIsTyped ==
  ASSUME TypeOK, NEW w \in Workers, StepOf(w), local[w].pc = "store"
  PROVE  Edited(w) \in Seq(Users)
<1>1. local[w].copy \in Seq(Users) /\ local[w].cmd \in {"start", "end"} /\ local[w].user \in Users
  BY LocalTypes DEF StepOf
<1>2. Append(local[w].copy, local[w].user) \in Seq(Users)
  BY <1>1, AppendProperties
<1>3. RemoveFirst(local[w].copy, local[w].user) \in Seq(Users)
  BY <1>1, RemoveFirstIsSeq
<1> QED
  BY <1>2, <1>3 DEF Edited

LEMMA LookupTyped ==
  ASSUME TypeInv, NEW w \in Workers, Lookup(w)
  PROVE  TypeInv'
<1> USE DEF TypeInv
<1>1. local[w] \in LocalRec /\ local[w].cmd \in Commands \cup {"none"}
  BY LocalTypes
<1>2. CASE ReadBucket(w)
  <2>1. CASE bucket = Null
    BY <1>2, <2>1, MissTyped DEF ReadBucket, At
  <2>2. CASE bucket # Null
    <3> DEFINE r == [local[w] EXCEPT !.pc = "length", !.list = bucket]
    <3>1. bucket \in DOMAIN list /\ bucket \in Lists /\ "length" \in Pcs
      BY <2>2 DEF TypeOK, Pcs
    <3>2. r \in LocalRec
      BY <1>1, <3>1 DEF LocalRec
    <3>3. local' = [local EXCEPT ![w] = r] /\ Reads /\ local[w].pc = "bucket"
          /\ local[w].cmd # "add"
      BY <1>2, <2>2 DEF ReadBucket, At
    <3>4. local'[w] = r /\ r.pc = "length" /\ r.cmd = local[w].cmd /\ r.user = local[w].user
          /\ r.list = bucket
      BY <1>1, <3>2, <3>3, NewRegisters DEF LocalRec
    <3> HIDE DEF r
    <3>5. (StepOf(w) /\ PointersOf(w))'
      BY <3>1, <3>3, <3>4 DEF StepOf, PointersOf, Unlisted, Reads
    <3> QED
      BY <3>2, <3>3, <3>5, TypedRead
  <2> QED
    BY <2>1, <2>2
<1>3. CASE ReadLength(w)
  <2> DEFINE l == list[local[w].list]
  <2>1. /\ local[w].pc = "length" /\ Reads
        /\ local[w].list \in DOMAIN list /\ local[w].cmd # "add"
    BY <1>3 DEF ReadLength, At, PointersOf, StepOf
  <2>2. CASE l.length = 0
    BY <1>3, <2>1, <2>2, MissTyped DEF ReadLength
  <2>3. CASE l.length = 1
    <3>1. Goto(w, "single") /\ "single" \in Pcs
      BY <1>3, <2>3 DEF ReadLength, Pcs
    <3>2. /\ [local[w] EXCEPT !.pc = "single"] \in LocalRec
          /\ local' = [local EXCEPT ![w] = [local[w] EXCEPT !.pc = "single"]]
          /\ local'[w].pc = "single" /\ local'[w].cmd = local[w].cmd
          /\ local'[w].user = local[w].user /\ local'[w].list = local[w].list
      BY <3>1, GotoTyped
    <3>3. (StepOf(w) /\ PointersOf(w))'
      BY <2>1, <3>2 DEF StepOf, PointersOf, Unlisted, Reads
    <3> QED
      BY <2>1, <3>2, <3>3, TypedRead
  <2>4. CASE l.length # 0 /\ l.length # 1
    <3> DEFINE r == [local[w] EXCEPT !.pc = "iterate", !.cell = l.head]
    <3>1. l.head \in Cells \cup {Null} /\ "iterate" \in Pcs
      BY <2>1 DEF TypeOK, ListRec, Pcs
    <3> HIDE DEF l
    <3>2. r \in LocalRec
      BY <1>1, <3>1 DEF LocalRec
    <3>3. local' = [local EXCEPT ![w] = r]
      BY <1>3, <2>4 DEF ReadLength, l
    <3>4. local'[w] = r /\ r.pc = "iterate" /\ r.cmd = local[w].cmd /\ r.user = local[w].user
          /\ r.list = local[w].list
      BY <1>1, <3>2, <3>3, NewRegisters DEF LocalRec
    <3> HIDE DEF r
    <3>5. (StepOf(w) /\ PointersOf(w))'
      BY <2>1, <3>4 DEF StepOf, PointersOf, Unlisted, Reads
    <3> QED
      BY <2>1, <3>2, <3>3, <3>5, TypedRead
  <2> QED
    BY <2>2, <2>3, <2>4
<1>4. ASSUME NEW e \in DOMAIN cell, Hit(w, e), Reads, local[w].pc \in {"single", "iterate"}
      PROVE  TypeInv'
  <2> DEFINE pc == CASE local[w].cmd = "get"    -> "use"
                     [] local[w].cmd = "remove" -> "locate"
                     [] OTHER                   -> "lock"
             d == cell[e].doc
             r == [local[w] EXCEPT !.pc = pc, !.doc = d]
  <2>1. local[w].cmd \in {"get", "remove", "start", "end"} /\ local[w].list \in DOMAIN list
    <3>1. local[w].cmd # "add" /\ local[w].cmd # "none"
      BY <1>4 DEF StepOf
    <3> QED
      BY <1>1, <1>4, <3>1, DocAssumption DEF PointersOf
  <2>2. /\ pc \in {"use", "locate", "lock"} /\ pc \in Pcs
        /\ pc = "use" => local[w].cmd = "get"
        /\ pc = "locate" => local[w].cmd = "remove"
        /\ pc = "lock" => local[w].cmd \in {"start", "end"}
    BY <2>1 DEF Pcs
  <2>3. d \in Docs
    BY <1>4 DEF TypeOK, CellRec
  <2>4. local' = [local EXCEPT ![w] = r]
    BY <1>4 DEF Hit
  <2> HIDE DEF pc, d
  <2>5. r \in LocalRec
    BY <1>1, <2>2, <2>3 DEF LocalRec
  <2>6. local'[w] = r /\ r.pc = pc /\ r.cmd = local[w].cmd /\ r.user = local[w].user
        /\ r.list = local[w].list
    BY <1>1, <2>4, <2>5, NewRegisters DEF LocalRec
  <2> HIDE DEF r
  <2>7. (StepOf(w) /\ PointersOf(w))'
    BY <1>4, <2>1, <2>2, <2>6 DEF StepOf, PointersOf, Unlisted, Reads
  <2> QED
    BY <1>4, <2>4, <2>5, <2>7, TypedRead
<1>5. ASSUME NEW how \in {"aborted", "undefined"}, Stop(how) PROVE TypeInv'
  BY <1>5 DEF Stop, TypeOK, StepOf, PointersOf
<1>6. CASE GetSingle(w)
  BY <1>4, <1>5, <1>6, MissTyped DEF GetSingle, At, Alive
<1>7. CASE Iterate(w)
  <2> DEFINE e == local[w].cell
             r == [local[w] EXCEPT !.cell = cell[e].next, !.index = @ + 1]
  <2>1. local[w].pc = "iterate"
    BY <1>7 DEF Iterate, At
  <2>2. CASE e = Null
    BY <1>7, <2>1, <2>2, MissTyped DEF Iterate
  <2>3. CASE e # Null /\ ~ Alive(e)
    BY <1>7, <2>3, <1>5 DEF Iterate
  <2>4. CASE e # Null /\ Alive(e) /\ cell[e].key = local[w].key
    BY <1>7, <2>1, <2>4, <1>4 DEF Iterate, Alive
  <2>5. CASE e # Null /\ Alive(e) /\ cell[e].key # local[w].key
    <3> DEFINE n == cell[e].next
               i == local[w].index + 1
    <3>1. n \in Cells \cup {Null} /\ i \in Nat
      BY <1>1, <2>5 DEF Alive, TypeOK, CellRec, LocalRec
    <3>2. r = [local[w] EXCEPT !.cell = n, !.index = i]
      BY <1>1 DEF LocalRec
    <3>3. local' = [local EXCEPT ![w] = r] /\ Reads
      BY <1>7, <2>5 DEF Iterate
    <3> HIDE DEF n, i, r, e
    <3>4. r \in LocalRec
      BY <1>1, <3>1, <3>2 DEF LocalRec
    <3>5. local'[w] = r /\ r.pc = local[w].pc /\ r.cmd = local[w].cmd
          /\ r.user = local[w].user /\ r.list = local[w].list
      BY <1>1, <3>2, <3>3, <3>4, NewRegisters DEF LocalRec
    <3>6. (StepOf(w) /\ PointersOf(w))'
      BY <2>1, <3>3, <3>5 DEF StepOf, PointersOf, Unlisted, Reads
    <3> QED
      BY <3>3, <3>4, <3>6, TypedRead
  <2> QED
    BY <2>2, <2>3, <2>4, <2>5
<1> QED
  BY <1>2, <1>3, <1>6, <1>7 DEF Lookup

LEMMA SessionTyped ==
  ASSUME TypeInv, NEW w \in Workers, Session(w) \/ UseDocument(w)
  PROVE  TypeInv'
<1> USE DEF TypeInv
<1>1. local[w] \in LocalRec /\ local[w].doc \in Docs \cup {Null}
  BY LocalTypes
<1>2. ASSUME NEW how \in {"aborted", "undefined"}, Stop(how) PROVE TypeInv'
  BY <1>2 DEF Stop, TypeOK, StepOf, PointersOf
<1> DEFINE d == local[w].doc
(* The document gets a record of its type.                                 *)
<1>3. ASSUME NEW x \in DocRec, doc' = [doc EXCEPT ![d] = x],
             UNCHANGED <<status, bucket, list, cell, history>>
      PROVE  /\ Shared' /\ DOMAIN list' = DOMAIN list /\ history' \in HistoryRec
             /\ status' = status /\ bucket' = bucket
  BY <1>3 DEF Shared, TypeOK
<1>4. CASE UseDocument(w)
  <2>1. CASE d \notin DOMAIN doc
    BY <1>2, <1>4, <2>1 DEF UseDocument
  <2>2. CASE d \in DOMAIN doc
    <3>1. Answer(w, "contents") /\ Reads /\ local[w].pc # "idle"
      BY <1>4, <2>2 DEF UseDocument, At
    <3> QED
      BY <3>1, AnswerTyped, TypedRead
  <2> QED
    BY <2>1, <2>2
<1>5. CASE LockDocument(w)
  <2>1. CASE d \notin DOMAIN doc
    BY <1>2, <1>5, <2>1 DEF LockDocument
  <2>2. CASE d \in DOMAIN doc
    <3>1. /\ doc' = [doc EXCEPT ![d].mutex = w] /\ Goto(w, "load") /\ local[w].pc = "lock"
          /\ UNCHANGED <<status, bucket, list, cell, history>>
      BY <1>5, <2>2 DEF LockDocument, At
    <3> DEFINE x == [doc[d] EXCEPT !.mutex = w]
    <3>2. x \in DocRec /\ doc' = [doc EXCEPT ![d] = x] /\ "load" \in Pcs
      BY <2>2, <3>1 DEF TypeOK, DocRec, Pcs
    <3> HIDE DEF x
    <3>3. /\ [local[w] EXCEPT !.pc = "load"] \in LocalRec
          /\ local' = [local EXCEPT ![w] = [local[w] EXCEPT !.pc = "load"]]
          /\ local'[w].pc = "load" /\ local'[w].cmd = local[w].cmd
          /\ local'[w].user = local[w].user
      BY <3>1, <3>2, GotoTyped
    <3>4. (StepOf(w) /\ PointersOf(w))'
      BY <3>1, <3>3 DEF StepOf, PointersOf, Unlisted
    <3> QED
      BY <1>3, <3>1, <3>2, <3>3, <3>4, TypedStep
  <2> QED
    BY <2>1, <2>2
<1>6. CASE LoadCollaborators(w)
  <2>1. CASE d \notin DOMAIN doc
    BY <1>2, <1>6, <2>1 DEF LoadCollaborators
  <2>2. CASE d \in DOMAIN doc
    <3> DEFINE c == doc[d].collaborators
               r == [local[w] EXCEPT !.pc = "store", !.copy = c]
    <3>1. local' = [local EXCEPT ![w] = r] /\ Reads /\ local[w].pc = "load"
      BY <1>6, <2>2 DEF LoadCollaborators, At
    <3>2. c \in Seq(Users) /\ "store" \in Pcs
      BY <2>2 DEF TypeOK, DocRec, Pcs
    <3> HIDE DEF c
    <3>3. r \in LocalRec
      BY <1>1, <3>2, ZenonT(60) DEF LocalRec
    <3>4. local'[w] = r /\ r.pc = "store" /\ r.cmd = local[w].cmd /\ r.user = local[w].user
      BY <1>1, <3>1, <3>3, NewRegisters DEF LocalRec
    <3> HIDE DEF r
    <3>5. (StepOf(w) /\ PointersOf(w))'
      BY <3>1, <3>4 DEF StepOf, PointersOf, Unlisted
    <3> QED
      BY <3>1, <3>3, <3>5, TypedRead
  <2> QED
    BY <2>1, <2>2
<1>7. CASE StoreCollaborators(w)
  <2>1. CASE d \notin DOMAIN doc
    BY <1>2, <1>7, <2>1 DEF StoreCollaborators
  <2>2. CASE d \in DOMAIN doc
    <3> DEFINE c == Edited(w)
               r == [local[w] EXCEPT !.pc = "unlock", !.copy = <<>>]
               x == [doc[d] EXCEPT !.collaborators = c]
    <3>1. /\ local' = [local EXCEPT ![w] = r] /\ local[w].pc = "store"
          /\ doc' = [doc EXCEPT ![d] = x]
          /\ UNCHANGED <<status, bucket, list, cell, history>>
      BY <1>7, <2>2 DEF StoreCollaborators, At
    <3>2. c \in Seq(Users) /\ "unlock" \in Pcs /\ <<>> \in Seq(Users)
      <4>1. c \in Seq(Users)
        BY <3>1, EditedIsTyped
      <4> QED
        BY <4>1 DEF Pcs
    <3>3. x \in DocRec
      BY <2>2, <3>2, ZenonT(60) DEF TypeOK, DocRec
    <3>4. r \in LocalRec
      BY <1>1, <3>2, ZenonT(60) DEF LocalRec
    <3>5. local'[w] = r /\ r.pc = "unlock" /\ r.cmd = local[w].cmd /\ r.user = local[w].user
      BY <1>1, <3>1, <3>4, NewRegisters DEF LocalRec
    <3> HIDE DEF r, x
    <3>6. (StepOf(w) /\ PointersOf(w))'
      BY <3>1, <3>5 DEF StepOf, PointersOf, Unlisted
    <3> QED
      BY <1>3, <3>1, <3>3, <3>4, <3>6, TypedStep
  <2> QED
    BY <2>1, <2>2
<1>8. CASE UnlockDocument(w)
  <2>1. CASE d \notin DOMAIN doc
    BY <1>2, <1>8, <2>1 DEF UnlockDocument
  <2>2. CASE d \in DOMAIN doc
    <3>1. /\ doc' = [doc EXCEPT ![d].mutex = Nobody] /\ Answer(w, "ok")
          /\ local[w].pc # "idle" /\ UNCHANGED <<status, bucket, list, cell, history>>
      BY <1>8, <2>2 DEF UnlockDocument, At
    <3> DEFINE x == [doc[d] EXCEPT !.mutex = Nobody]
    <3>2. x \in DocRec /\ doc' = [doc EXCEPT ![d] = x]
      BY <2>2, <3>1 DEF TypeOK, DocRec
    <3> HIDE DEF x
    <3> QED
      BY <1>3, <3>1, <3>2, AnswerTyped, TypedStep
  <2> QED
    BY <2>1, <2>2
<1> QED
  BY <1>4, <1>5, <1>6, <1>7, <1>8 DEF Session

LEMMA RemovalTyped ==
  ASSUME TypeInv, NEW w \in Workers, Removal(w)
  PROVE  TypeInv'
<1> USE DEF TypeInv
<1>1. local[w] \in LocalRec
  BY LocalTypes
<1>2. ASSUME NEW how \in {"aborted", "undefined"}, Stop(how) PROVE TypeInv'
  BY <1>2 DEF Stop, TypeOK, StepOf, PointersOf
<1>3. CASE LocateEntry(w)
  <2> DEFINE l == list[local[w].list]
             i == local[w].index
             e0 == IF i < l.length \div 2 THEN Walk(l.head, i, FALSE)
                                          ELSE Walk(l.tail, l.length - i - 1, TRUE)
  <2>2. ASSUME NEW e \in DOMAIN cell,
               local' = [local EXCEPT ![w].pc = "freeDoc", ![w].cell = e], Reads
        PROVE  TypeInv'
    <3> DEFINE r == [local[w] EXCEPT !.pc = "freeDoc", !.cell = e]
    <3>1. r \in LocalRec
      <4>1. e \in Cells \cup {Null} /\ "freeDoc" \in Pcs
        BY DEF TypeOK, Pcs
      <4> QED
        BY <1>1, <4>1 DEF LocalRec
    <3>2. local' = [local EXCEPT ![w] = r] /\ local[w].pc = "locate"
      BY <1>3, <2>2 DEF LocateEntry, At
    <3>3. /\ local'[w] = r /\ r.pc = "freeDoc" /\ r.cmd = local[w].cmd
          /\ r.user = local[w].user /\ r.list = local[w].list
      BY <1>1, <3>1, <3>2, NewRegisters DEF LocalRec
    <3> HIDE DEF r
    <3>4. (StepOf(w) /\ PointersOf(w))'
      BY <2>2, <3>2, <3>3 DEF StepOf, PointersOf, Unlisted, Reads
    <3> QED
      BY <2>2, <3>1, <3>2, <3>4, TypedRead
  <2>3. IF i >= l.length THEN Stop("aborted")
        ELSE IF e0 \notin DOMAIN cell THEN Stop("undefined")
        ELSE local' = [local EXCEPT ![w].pc = "freeDoc", ![w].cell = e0] /\ Reads
    BY <1>3 DEF LocateEntry
  <2> HIDE DEF l, i, e0
  <2> QED
    BY <1>2, <2>2, <2>3
<1>4. CASE FreeDocument(w)
  <2> DEFINE e == local[w].cell
  <2>1. CASE ~ Alive(e)
    BY <1>2, <1>4, <2>1 DEF FreeDocument
  <2>2. CASE Alive(e)
    <3>1. /\ documentFree(cell[e].doc) /\ Goto(w, "unlink") /\ local[w].pc = "freeDoc"
          /\ UNCHANGED <<status, bucket, list, cell, history>> /\ "unlink" \in Pcs
      BY <1>4, <2>2 DEF FreeDocument, At, Pcs
    <3>2. /\ [local[w] EXCEPT !.pc = "unlink"] \in LocalRec
          /\ local' = [local EXCEPT ![w] = [local[w] EXCEPT !.pc = "unlink"]]
          /\ local'[w].pc = "unlink" /\ local'[w].cmd = local[w].cmd
          /\ local'[w].user = local[w].user /\ local'[w].list = local[w].list
      BY <3>1, GotoTyped
    <3>3. (StepOf(w) /\ PointersOf(w))'
      BY <3>1, <3>2 DEF StepOf, PointersOf, Unlisted
    <3>4. Shared' /\ DOMAIN list' = DOMAIN list /\ history' \in HistoryRec
      BY <3>1 DEF documentFree, Shared, TypeOK
    <3> QED
      BY <3>1, <3>2, <3>3, <3>4, TypedStep
  <2> QED
    BY <2>1, <2>2
<1>5. CASE UnlinkEntry(w)
  <2> DEFINE e == local[w].cell
             l == local[w].list
             ends == [list[l] EXCEPT !.head = IF @ = e THEN cell[e].next ELSE @,
                                     !.tail = IF @ = e THEN cell[e].prev ELSE @]
  <2>1. CASE e \notin DOMAIN cell
             \/ ~ ({cell[e].prev, cell[e].next} \subseteq DOMAIN cell \cup {Null})
    BY <1>2, <1>5, <2>1 DEF UnlinkEntry
  <2>2. CASE e \in DOMAIN cell /\ {cell[e].prev, cell[e].next} \subseteq DOMAIN cell \cup {Null}
    <3>1. /\ cell' = [x \in DOMAIN cell \ {e} |->
                        [cell[x] EXCEPT !.next = IF x = cell[e].prev THEN cell[e].next ELSE @,
                                        !.prev = IF x = cell[e].next THEN cell[e].prev ELSE @]]
          /\ list' = [list EXCEPT ![l] = ends] /\ Goto(w, "count") /\ local[w].pc = "unlink"
          /\ UNCHANGED <<status, bucket, doc, history>> /\ "count" \in Pcs
      BY <1>5, <2>2, Zenon DEF UnlinkEntry, At, Pcs
    <3>2. /\ l \in DOMAIN list /\ local[w].cmd = "remove"
          /\ cell[e].prev \in Cells \cup {Null} /\ cell[e].next \in Cells \cup {Null}
      BY <2>2, <3>1 DEF StepOf, PointersOf, TypeOK, CellRec
    <3>3. ends \in ListRec
      <4> DEFINE h == IF list[l].head = e THEN cell[e].next ELSE list[l].head
                 t == IF list[l].tail = e THEN cell[e].prev ELSE list[l].tail
      <4>1. ends = [list[l] EXCEPT !.head = h, !.tail = t]
        OBVIOUS
      <4>2. list[l] \in ListRec /\ h \in Cells \cup {Null} /\ t \in Cells \cup {Null}
        BY <3>2 DEF TypeOK, ListRec
      <4> HIDE DEF h, t
      <4> QED
        BY <4>1, <4>2 DEF ListRec
    <3>4. ASSUME NEW x \in DOMAIN cell' PROVE cell'[x] \in CellRec
      <4> DEFINE n == IF x = cell[e].prev THEN cell[e].next ELSE cell[x].next
                 p == IF x = cell[e].next THEN cell[e].prev ELSE cell[x].prev
      <4>1. x \in DOMAIN cell /\ cell'[x] = [cell[x] EXCEPT !.next = n, !.prev = p]
        BY <3>1, <3>4
      <4>2. cell[x] \in CellRec /\ n \in Cells \cup {Null} /\ p \in Cells \cup {Null}
        BY <3>2, <4>1 DEF TypeOK, CellRec
      <4> HIDE DEF n, p
      <4> QED
        BY <4>1, <4>2 DEF CellRec
    <3>5. Shared' /\ DOMAIN list' = DOMAIN list /\ history' \in HistoryRec
      <4>1. DOMAIN cell' \subseteq Cells
        BY <3>1 DEF TypeOK
      <4> HIDE DEF ends
      <4> QED
        BY <3>1, <3>2, <3>3, <3>4, <4>1 DEF Shared, TypeOK
    <3>6. /\ [local[w] EXCEPT !.pc = "count"] \in LocalRec
          /\ local' = [local EXCEPT ![w] = [local[w] EXCEPT !.pc = "count"]]
          /\ local'[w].pc = "count" /\ local'[w].cmd = local[w].cmd
          /\ local'[w].user = local[w].user /\ local'[w].list = local[w].list
      BY <3>1, GotoTyped
    <3>7. (StepOf(w) /\ PointersOf(w))'
      BY <3>2, <3>5, <3>6 DEF StepOf, PointersOf, Unlisted, Change
    <3> QED
      BY <3>1, <3>5, <3>6, <3>7, TypedStep
  <2> QED
    BY <2>1, <2>2
<1> QED
  BY <1>3, <1>4, <1>5 DEF Removal

(* The steps of the same command that only read what is shared.            *)
LEMMA TestsTyped ==
  ASSUME TypeInv, NEW w \in Workers,
         TestBucket(w) \/ FetchList(w) \/ TestLength(w) \/ ReadTail(w) \/ LoadLength(w)
  PROVE  TypeInv'
<1> USE DEF TypeInv
<1>1. local[w] \in LocalRec
  BY LocalTypes
<1>2. CASE TestBucket(w)
  <2>1. PICK pc \in {"create", "fetch"} : Goto(w, pc) /\ (pc = "fetch" => bucket # Null)
    BY <1>2 DEF TestBucket
  <2>2. Reads /\ local[w].pc = "bucket" /\ local[w].cmd = "add" /\ pc \in Pcs
    BY <1>2, <2>1 DEF TestBucket, At, Pcs
  <2>3. /\ [local[w] EXCEPT !.pc = pc] \in LocalRec
        /\ local' = [local EXCEPT ![w] = [local[w] EXCEPT !.pc = pc]]
        /\ local'[w].pc = pc /\ local'[w].cmd = local[w].cmd
        /\ local'[w].user = local[w].user /\ local'[w].doc = local[w].doc
    BY <2>1, <2>2, GotoTyped
  <2>4. (StepOf(w) /\ PointersOf(w))'
    BY <2>1, <2>2, <2>3 DEF StepOf, PointersOf, Unlisted, Reads
  <2> QED
    BY <2>2, <2>3, <2>4, TypedRead
<1>3. CASE FetchList(w)
  <2> DEFINE r == [local[w] EXCEPT !.pc = "append", !.list = bucket]
  <2>1. /\ local' = [local EXCEPT ![w] = r] /\ Reads /\ local[w].pc = "fetch"
        /\ bucket \in DOMAIN list /\ local[w].cmd = "add"
    BY <1>3 DEF FetchList, At, StepOf, PointersOf, TypeOK
  <2>2. r \in LocalRec
    <3>1. bucket \in Lists \cup {Null} /\ "append" \in Pcs
      BY <2>1 DEF TypeOK, Pcs
    <3> QED
      BY <1>1, <3>1 DEF LocalRec
  <2>3. /\ local'[w] = r /\ r.pc = "append" /\ r.cmd = local[w].cmd /\ r.user = local[w].user
        /\ r.list = bucket /\ r.doc = local[w].doc
    BY <1>1, <2>1, <2>2, NewRegisters DEF LocalRec
  <2> HIDE DEF r
  <2>4. (StepOf(w) /\ PointersOf(w))'
    BY <2>1, <2>3 DEF StepOf, PointersOf, Unlisted, Reads
  <2> QED
    BY <2>1, <2>2, <2>4, TypedRead
<1>4. CASE TestLength(w)
  <2>1. PICK pc \in {"first", "behind"} : Goto(w, pc)
    BY <1>4 DEF TestLength
  <2>2. Reads /\ local[w].pc = "append" /\ local[w].cmd = "add" /\ pc \in Pcs
    BY <1>4 DEF TestLength, At, Pcs, StepOf
  <2>3. /\ [local[w] EXCEPT !.pc = pc] \in LocalRec
        /\ local' = [local EXCEPT ![w] = [local[w] EXCEPT !.pc = pc]]
        /\ local'[w].pc = pc /\ local'[w].cmd = local[w].cmd
        /\ local'[w].user = local[w].user /\ local'[w].doc = local[w].doc
        /\ local'[w].list = local[w].list
    BY <2>1, <2>2, GotoTyped
  <2>4. (StepOf(w) /\ PointersOf(w))'
    BY <2>2, <2>3 DEF StepOf, PointersOf, Unlisted, Reads
  <2> QED
    BY <2>2, <2>3, <2>4, TypedRead
<1>5. CASE ReadTail(w)
  <2> DEFINE t == list[local[w].list].tail
             r == [local[w] EXCEPT !.pc = "last", !.cell = t]
  <2>1. /\ local' = [local EXCEPT ![w] = r] /\ Reads /\ local[w].pc = "behind"
        /\ local[w].list \in DOMAIN list /\ local[w].cmd = "add"
    BY <1>5 DEF ReadTail, At, StepOf, PointersOf
  <2>2. t \in Cells \cup {Null} /\ "last" \in Pcs
    BY <2>1 DEF TypeOK, ListRec, Pcs
  <2> HIDE DEF t
  <2>3. r \in LocalRec
    BY <1>1, <2>2 DEF LocalRec
  <2>4. /\ local'[w] = r /\ r.pc = "last" /\ r.cmd = local[w].cmd /\ r.user = local[w].user
        /\ r.list = local[w].list /\ r.doc = local[w].doc
    BY <1>1, <2>1, <2>3, NewRegisters DEF LocalRec
  <2> HIDE DEF r
  <2>5. (StepOf(w) /\ PointersOf(w))'
    BY <2>1, <2>4 DEF StepOf, PointersOf, Unlisted, Reads
  <2> QED
    BY <2>1, <2>3, <2>5, TypedRead
<1>6. CASE LoadLength(w)
  <2> DEFINE n == list[local[w].list].length
             r == [local[w] EXCEPT !.pc = "resize", !.length = n]
  <2>1. /\ local' = [local EXCEPT ![w] = r] /\ Reads /\ local[w].pc = "count"
        /\ local[w].list \in DOMAIN list /\ local[w].cmd \in Change
    BY <1>6 DEF LoadLength, At, StepOf, PointersOf
  <2>2. n \in 0 .. UInt - 1 /\ "resize" \in Pcs
    BY <2>1 DEF TypeOK, ListRec, Pcs
  <2> HIDE DEF n
  <2>3. r \in LocalRec
    BY <1>1, <2>2, ZenonT(60) DEF LocalRec
  <2>4. /\ local'[w] = r /\ r.pc = "resize" /\ r.cmd = local[w].cmd /\ r.user = local[w].user
        /\ r.list = local[w].list
    BY <1>1, <2>1, <2>3, NewRegisters DEF LocalRec
  <2> HIDE DEF r
  <2>5. (StepOf(w) /\ PointersOf(w))'
    BY <2>1, <2>4 DEF StepOf, PointersOf, Unlisted, Reads
  <2> QED
    BY <2>1, <2>3, <2>5, TypedRead
<1> QED
  BY <1>2, <1>3, <1>4, <1>5, <1>6

(* A new entry, behind prev, for the document of an "add".                 *)
LEMMA NewEntryTyped ==
  ASSUME TypeInv, NEW w \in Workers, NEW e \in Cells \ DOMAIN cell,
         NEW prev \in Cells \cup {Null}, NewEntry(w, e, prev),
         local[w].cmd = "add", local[w].pc \in Unlisted
  PROVE  /\ DOMAIN cell' = DOMAIN cell \cup {e}
         /\ cell'[e] = [next |-> Null, prev |-> prev, key |-> local[w].key, doc |-> local[w].doc]
         /\ \A x \in DOMAIN cell : cell'[x] = cell[x]
         /\ DOMAIN cell' \subseteq Cells /\ \A x \in DOMAIN cell' : cell'[x] \in CellRec
<1> DEFINE new == [next |-> Null, prev |-> prev, key |-> local[w].key, doc |-> local[w].doc]
<1>1. new \in CellRec
  BY LocalTypes DEF TypeInv, PointersOf, CellRec
<1>2. cell' = [x \in DOMAIN cell \cup {e} |-> IF x = e THEN new ELSE cell[x]]
  BY DEF NewEntry
<1> HIDE DEF new
<1>3. /\ DOMAIN cell' = DOMAIN cell \cup {e} /\ cell'[e] = new
      /\ \A x \in DOMAIN cell : cell'[x] = cell[x]
  BY <1>2
<1>4. DOMAIN cell' \subseteq Cells /\ \A x \in DOMAIN cell' : cell'[x] \in CellRec
  BY <1>1, <1>2, <1>3 DEF TypeInv, TypeOK
<1> QED
  BY <1>3, <1>4 DEF new

LEMMA AdditionTyped ==
  ASSUME TypeInv, NEW w \in Workers,
         \/ CreateList(w) \/ BecomeHead(w) \/ BecomeOnlyTail(w) \/ BecomeTail(w) \/ LinkEntry(w)
         \/ StoreLength(w)
  PROVE  TypeInv'
<1> USE DEF TypeInv
<1>1. /\ local[w] \in LocalRec /\ local[w].cell \in Cells \cup {Null}
      /\ local[w].length \in 0 .. UInt - 1
  BY LocalTypes
<1> DEFINE l == local[w].list
(* The list gets a record of its type, ...                                 *)
<1>2. ASSUME NEW x \in ListRec, list' = [list EXCEPT ![l] = x], l \in DOMAIN list,
             UNCHANGED <<bucket, doc, history>>,
             DOMAIN cell' \subseteq Cells, \A e \in DOMAIN cell' : cell'[e] \in CellRec
      PROVE  Shared' /\ DOMAIN list' = DOMAIN list /\ history' \in HistoryRec
  BY <1>2 DEF Shared, TypeOK
(* ... and the worker a new entry.                                         *)
<1>3. ASSUME NEW pc \in {"alone", "link"}, NEW e \in Cells,
             local' = [local EXCEPT ![w] = [local[w] EXCEPT !.pc = pc, !.cell = e]],
             local[w].cmd = "add", local[w].list \in DOMAIN list, DOMAIN list' = DOMAIN list
      PROVE  /\ [local[w] EXCEPT !.pc = pc, !.cell = e] \in LocalRec
             /\ (StepOf(w) /\ PointersOf(w))'
  <2> DEFINE r == [local[w] EXCEPT !.pc = pc, !.cell = e]
  <2>1. r \in LocalRec
    <3>1. pc \in Pcs /\ e \in Cells \cup {Null}
      BY DEF Pcs
    <3> QED
      BY <1>1, <3>1 DEF LocalRec
  <2>2. /\ local'[w] = r /\ r.pc = pc /\ r.cmd = local[w].cmd /\ r.user = local[w].user
        /\ r.list = local[w].list
    BY <1>1, <1>3, <2>1, NewRegisters DEF LocalRec
  <2> HIDE DEF r
  <2>3. (StepOf(w) /\ PointersOf(w))'
    BY <1>3, <2>2 DEF StepOf, PointersOf, Unlisted
  <2> QED
    BY <2>1, <2>3 DEF r
<1>4. CASE CreateList(w)
  <2>1. PICK n \in Lists \ DOMAIN list :
          /\ list' = [x \in DOMAIN list \cup {n} |->
                        IF x = n THEN [length |-> 0, head |-> Null, tail |-> Null] ELSE list[x]]
          /\ bucket' = n /\ Goto(w, "fetch")
    BY <1>4 DEF CreateList
  <2>2. /\ local[w].pc = "create" /\ local[w].cmd = "add" /\ "fetch" \in Pcs
        /\ UNCHANGED <<status, cell, doc, history>>
    BY <1>4 DEF CreateList, At, StepOf, Pcs
  <2>3. [length |-> 0, head |-> Null, tail |-> Null] \in ListRec
    <3>1. 0 \in 0 .. UInt - 1
      BY DocAssumption
    <3> QED
      BY <3>1 DEF ListRec
  <2>4. /\ DOMAIN list' = DOMAIN list \cup {n}
        /\ \A x \in DOMAIN list' : list'[x] \in ListRec
    BY <2>1, <2>3 DEF TypeOK
  <2>5. Shared' /\ history' \in HistoryRec /\ n # Null
    BY <2>1, <2>2, <2>4, DocAssumption DEF Shared, TypeOK
  <2>6. /\ [local[w] EXCEPT !.pc = "fetch"] \in LocalRec
        /\ local' = [local EXCEPT ![w] = [local[w] EXCEPT !.pc = "fetch"]]
        /\ local'[w].pc = "fetch" /\ local'[w].cmd = local[w].cmd
        /\ local'[w].user = local[w].user /\ local'[w].doc = local[w].doc
    BY <2>1, <2>2, GotoTyped
  <2>7. (StepOf(w) /\ PointersOf(w))'
    BY <2>1, <2>2, <2>5, <2>6 DEF StepOf, PointersOf, Unlisted
  <2>8. /\ ~ (bucket # Null) \/ bucket' # Null
        /\ DOMAIN list \subseteq DOMAIN list'
    BY <2>1, <2>4, <2>5
  <2> QED
    BY <2>2, <2>5, <2>6, <2>7, <2>8, TypedStep
<1>5. CASE BecomeHead(w)
  <2>1. PICK e \in Cells \ DOMAIN cell :
          /\ NewEntry(w, e, Null) /\ list' = [list EXCEPT ![l].head = e]
          /\ local' = [local EXCEPT ![w].pc = "alone", ![w].cell = e]
    BY <1>5 DEF BecomeHead
  <2>2. /\ local[w].pc = "first" /\ local[w].cmd = "add" /\ l \in DOMAIN list
        /\ UNCHANGED <<status, bucket, doc, history>>
    BY <1>5 DEF BecomeHead, At, StepOf, PointersOf
  <2>3. DOMAIN cell' \subseteq Cells /\ \A x \in DOMAIN cell' : cell'[x] \in CellRec
    BY <2>1, <2>2, NewEntryTyped DEF Unlisted
  <2> DEFINE x == [list[l] EXCEPT !.head = e]
  <2>4. x \in ListRec /\ list' = [list EXCEPT ![l] = x]
    BY <2>1, <2>2 DEF TypeOK, ListRec
  <2> HIDE DEF x, l
  <2>5. Shared' /\ DOMAIN list' = DOMAIN list /\ history' \in HistoryRec
    BY <1>2, <2>2, <2>3, <2>4
  <2>6. local' = [local EXCEPT ![w] = [local[w] EXCEPT !.pc = "alone", !.cell = e]]
    BY <2>1
  <2> QED
    BY <1>3, <2>2, <2>5, <2>6, TypedStep DEF l
<1>6. CASE BecomeTail(w)
  <2>1. PICK e \in Cells \ DOMAIN cell :
          /\ NewEntry(w, e, local[w].cell) /\ list' = [list EXCEPT ![l].tail = e]
          /\ local' = [local EXCEPT ![w].pc = "link", ![w].cell = e]
    BY <1>6 DEF BecomeTail
  <2>2. /\ local[w].pc = "last" /\ local[w].cmd = "add" /\ l \in DOMAIN list
        /\ UNCHANGED <<status, bucket, doc, history>>
    BY <1>6 DEF BecomeTail, At, StepOf, PointersOf
  <2>3. DOMAIN cell' \subseteq Cells /\ \A x \in DOMAIN cell' : cell'[x] \in CellRec
    BY <1>1, <2>1, <2>2, NewEntryTyped DEF Unlisted
  <2> DEFINE x == [list[l] EXCEPT !.tail = e]
  <2>4. x \in ListRec /\ list' = [list EXCEPT ![l] = x]
    BY <2>1, <2>2 DEF TypeOK, ListRec
  <2> HIDE DEF x, l
  <2>5. Shared' /\ DOMAIN list' = DOMAIN list /\ history' \in HistoryRec
    BY <1>2, <2>2, <2>3, <2>4
  <2>6. local' = [local EXCEPT ![w] = [local[w] EXCEPT !.pc = "link", !.cell = e]]
    BY <2>1
  <2> QED
    BY <1>3, <2>2, <2>5, <2>6, TypedStep DEF l
<1>7. CASE BecomeOnlyTail(w)
  <2>1. /\ list' = [list EXCEPT ![l].tail = local[w].cell] /\ Goto(w, "link")
        /\ local[w].pc = "alone" /\ local[w].cmd = "add" /\ l \in DOMAIN list
        /\ UNCHANGED <<status, bucket, cell, doc, history>> /\ "link" \in Pcs
    BY <1>7 DEF BecomeOnlyTail, At, StepOf, PointersOf, Pcs
  <2> DEFINE x == [list[l] EXCEPT !.tail = local[w].cell]
  <2>2. x \in ListRec /\ list' = [list EXCEPT ![l] = x]
    BY <1>1, <2>1 DEF TypeOK, ListRec
  <2>3. DOMAIN cell' \subseteq Cells /\ \A e \in DOMAIN cell' : cell'[e] \in CellRec
    BY <2>1 DEF TypeOK
  <2> HIDE DEF x, l
  <2>4. Shared' /\ DOMAIN list' = DOMAIN list /\ history' \in HistoryRec
    BY <1>2, <2>1, <2>2, <2>3
  <2>5. /\ [local[w] EXCEPT !.pc = "link"] \in LocalRec
        /\ local' = [local EXCEPT ![w] = [local[w] EXCEPT !.pc = "link"]]
        /\ local'[w].pc = "link" /\ local'[w].cmd = local[w].cmd
        /\ local'[w].user = local[w].user /\ local'[w].list = local[w].list
    BY <2>1, GotoTyped
  <2>6. (StepOf(w) /\ PointersOf(w))'
    BY <2>1, <2>4, <2>5 DEF StepOf, PointersOf, Unlisted, l
  <2> QED
    BY <2>1, <2>4, <2>5, <2>6, TypedStep
<1>8. CASE LinkEntry(w)
  <2> DEFINE e == local[w].cell
             p == cell[e].prev
  <2>1. ASSUME NEW how \in {"aborted", "undefined"}, Stop(how) PROVE TypeInv'
    BY <2>1 DEF Stop, TypeOK, StepOf, PointersOf
  <2>2. CASE e \notin DOMAIN cell \/ (p # Null /\ p \notin DOMAIN cell)
    BY <1>8, <2>1, <2>2 DEF LinkEntry
  <2>3. ASSUME Goto(w, "count"), UNCHANGED <<status, bucket, list, doc, history>>,
               local[w].pc = "link",
               DOMAIN cell' \subseteq Cells, \A x \in DOMAIN cell' : cell'[x] \in CellRec
        PROVE  TypeInv'
    <3>1. /\ [local[w] EXCEPT !.pc = "count"] \in LocalRec
          /\ local' = [local EXCEPT ![w] = [local[w] EXCEPT !.pc = "count"]]
          /\ local'[w].pc = "count" /\ local'[w].cmd = local[w].cmd
          /\ local'[w].user = local[w].user /\ local'[w].list = local[w].list
      <4>1. "count" \in Pcs
        BY DEF Pcs
      <4> QED
        BY <2>3, <4>1, GotoTyped
    <3>2. (StepOf(w) /\ PointersOf(w))'
      BY <2>3, <3>1 DEF StepOf, PointersOf, Unlisted, Change
    <3>3. Shared' /\ DOMAIN list' = DOMAIN list /\ history' \in HistoryRec
      BY <2>3 DEF Shared, TypeOK
    <3> QED
      BY <2>3, <3>1, <3>2, <3>3, TypedStep
  <2>4. CASE e \in DOMAIN cell /\ p = Null
    BY <1>8, <2>3, <2>4 DEF LinkEntry, Reads, At, TypeOK
  <2>5. CASE e \in DOMAIN cell /\ p # Null /\ p \in DOMAIN cell
    <3>1. /\ cell' = [cell EXCEPT ![p].next = e] /\ Goto(w, "count") /\ local[w].pc = "link"
          /\ UNCHANGED <<status, bucket, list, doc, history>>
      BY <1>8, <2>5 DEF LinkEntry, At
    <3>2. DOMAIN cell' \subseteq Cells /\ \A x \in DOMAIN cell' : cell'[x] \in CellRec
      BY <2>5, <3>1 DEF TypeOK, CellRec
    <3> QED
      BY <2>3, <3>1, <3>2
  <2> QED
    BY <2>2, <2>4, <2>5
<1>9. CASE StoreLength(w)
  <2> DEFINE change == IF local[w].cmd = "add" THEN 1 ELSE -1
             n == (local[w].length + change) % UInt
             x == [list[l] EXCEPT !.length = n]
  <2>1. /\ list' = [list EXCEPT ![l].length = n] /\ Answer(w, "ok") /\ local[w].pc = "resize"
        /\ l \in DOMAIN list /\ UNCHANGED <<status, bucket, cell, doc, history>>
    BY <1>9 DEF StoreLength, At, PointersOf
  <2>2. n \in 0 .. UInt - 1
    BY <1>1, DocAssumption
  <2> HIDE DEF n
  <2>3. x \in ListRec /\ list' = [list EXCEPT ![l] = x]
    <3>1. list[l] \in ListRec
      BY <2>1 DEF TypeOK
    <3>2. x \in ListRec
      BY <2>2, <3>1, ZenonT(60) DEF ListRec
    <3> QED
      BY <2>1, <3>2
  <2>4. DOMAIN cell' \subseteq Cells /\ \A e \in DOMAIN cell' : cell'[e] \in CellRec
    BY <2>1 DEF TypeOK
  <2> HIDE DEF x, l
  <2>5. Shared' /\ DOMAIN list' = DOMAIN list /\ history' \in HistoryRec
    BY <1>2, <2>1, <2>3, <2>4
  <2> QED
    BY <2>1, <2>5, AnswerTyped, TypedStep
<1> QED
  BY <1>4, <1>5, <1>6, <1>7, <1>8, <1>9

(* What a worker has received.                                             *)
LEMMA ReceivedCommand ==
  ASSUME TypeInv, NEW w \in Workers, Receive(w)
  PROVE  \E r \in LocalRec :
           /\ local' = [local EXCEPT ![w] = r]
           /\ r.pc = "bucket" /\ r.cmd \in Commands /\ r.index = 0
           /\ r.cmd \in {"start", "end"} => r.user \in Users
           /\ Record(w, r.cmd)
           /\ r.cmd = "add" => r.doc \in Docs \ DOMAIN doc /\ documentCreate(r.doc)
           /\ r.cmd # "add" => doc' = doc
<1>1. PICK c \in Commands, k \in Keys :
      \E u \in IF c \in {"start", "end"} THEN Users ELSE {NoUser} :
      \E d \in IF c = "add" THEN Docs \ DOMAIN doc ELSE {Null} :
        /\ Record(w, c)
        /\ local' = [local EXCEPT ![w] =
             [Idle EXCEPT !.pc = "bucket", !.cmd = c, !.key = k, !.user = u, !.doc = d,
                          !.known = k \in history.acknowledged]]
        /\ IF c = "add" THEN documentCreate(d) ELSE UNCHANGED doc
  BY ZenonT(60) DEF Receive
<1>2. PICK u \in IF c \in {"start", "end"} THEN Users ELSE {NoUser},
           d \in IF c = "add" THEN Docs \ DOMAIN doc ELSE {Null} :
        /\ Record(w, c)
        /\ local' = [local EXCEPT ![w] =
             [Idle EXCEPT !.pc = "bucket", !.cmd = c, !.key = k, !.user = u, !.doc = d,
                          !.known = k \in history.acknowledged]]
        /\ IF c = "add" THEN documentCreate(d) ELSE UNCHANGED doc
  BY <1>1, Zenon
<1> DEFINE known == k \in history.acknowledged
           r == [Idle EXCEPT !.pc = "bucket", !.cmd = c, !.key = k, !.user = u, !.doc = d,
                             !.known = known]
<1>3. r \in LocalRec
  <2>1. u \in Users \cup {NoUser} /\ d \in Docs \cup {Null} /\ "bucket" \in Pcs
    BY DEF Pcs
  <2>2. known \in BOOLEAN
    OBVIOUS
  <2> HIDE DEF known
  <2>3. \A x \in LocalRec, kn \in BOOLEAN : [x EXCEPT !.known = kn] \in LocalRec
    BY DEF LocalRec
  <2>4. \A x \in LocalRec, us \in Users \cup {NoUser}, ds \in Docs \cup {Null} :
     [x EXCEPT !.pc = "bucket", !.cmd = c, !.key = k, !.user = us, !.doc = ds] \in LocalRec
    BY <2>1, ZenonT(60) DEF LocalRec
  <2> QED
    BY <2>1, <2>2, <2>3, <2>4, IdleIsTyped, Zenon
<1>4. local' = [local EXCEPT ![w] = r]
  BY <1>2
<1>5. r.pc = "bucket" /\ r.cmd = c /\ r.user = u /\ r.doc = d /\ r.index = 0
  BY IdleIsTyped DEF LocalRec
<1> HIDE DEF r
<1> QED
  BY <1>2, <1>3, <1>4, <1>5

LEMMA RecordTyped ==
  ASSUME TypeInv, NEW w \in Workers, NEW c, Record(w, c)
  PROVE  /\ history' \in HistoryRec /\ history'.acknowledged = history.acknowledged
         /\ history'.overlapped = (history.overlapped \/ ~ Undisturbed(w, c))
         /\ history'.removed = (history.removed \/ c = "remove")
<1> DEFINE o == history.overlapped \/ ~ Undisturbed(w, c)
           m == history.removed \/ c = "remove"
<1>1. history \in HistoryRec
  BY DEF TypeInv, TypeOK
<1>2. o \in BOOLEAN /\ m \in BOOLEAN
  OBVIOUS
<1>3. history' = [history EXCEPT !.overlapped = o, !.removed = m]
  BY <1>1 DEF Record, HistoryRec
<1> HIDE DEF o, m
<1>4. /\ history' \in HistoryRec /\ history'.acknowledged = history.acknowledged
      /\ history'.overlapped = o /\ history'.removed = m
  BY <1>1, <1>2, <1>3 DEF HistoryRec
<1> QED
  BY <1>4 DEF o, m

LEMMA RequestTyped ==
  ASSUME TypeInv, NEW w \in Workers,
         Receive(w) \/ ReceiveUnparsable(w) \/ ReceiveTruncated(w) \/ Reply(w)
  PROVE  TypeInv'
<1> USE DEF TypeInv
<1>1. CASE Receive(w)
  <2>1. PICK r \in LocalRec :
           /\ local' = [local EXCEPT ![w] = r]
           /\ r.pc = "bucket" /\ r.cmd \in Commands
           /\ r.cmd \in {"start", "end"} => r.user \in Users
           /\ Record(w, r.cmd)
           /\ r.cmd = "add" => r.doc \in Docs \ DOMAIN doc /\ documentCreate(r.doc)
           /\ r.cmd # "add" => doc' = doc
    BY <1>1, ReceivedCommand
  <2>2. local'[w] = r
    BY <2>1, NewRegisters
  <2>3. StepOf(w)' /\ PointersOf(w)'
    BY <2>1, <2>2, DocAssumption DEF StepOf, PointersOf
  <2>4. UNCHANGED <<status, bucket, list, cell>>
    BY <1>1 DEF Receive
  <2>5. DOMAIN doc' \subseteq Docs /\ \A x \in DOMAIN doc' : doc'[x] \in DocRec
    <3>1. [collaborators |-> <<>>, mutex |-> Nobody] \in DocRec
      BY EmptySeq DEF DocRec
    <3> QED
      BY <2>1, <3>1 DEF TypeOK, documentCreate
  <2>6. Shared' /\ history' \in HistoryRec
    BY <2>1, <2>4, <2>5, RecordTyped DEF Shared, TypeOK
  <2> QED
    BY <2>1, <2>3, <2>4, <2>6, TypedStep
<1>2. CASE ReceiveUnparsable(w)
  <2>1. PICK k \in Keys :
          local' = [local EXCEPT ![w] =
            [Idle EXCEPT !.pc = "reply", !.cmd = "add", !.key = k, !.reply = "nil"]]
    BY <1>2, Zenon DEF ReceiveUnparsable
  <2> DEFINE r == [Idle EXCEPT !.pc = "reply", !.cmd = "add", !.key = k, !.reply = "nil"]
  <2>2. /\ local[w].pc = "idle" /\ "add" \in Commands /\ Record(w, "add")
        /\ UNCHANGED <<status, bucket, list, cell, doc>>
    BY <1>2 DEF ReceiveUnparsable, At
  <2>3. r \in LocalRec
    BY <2>2, IdleIsTyped, ZenonT(60) DEF LocalRec, Pcs
  <2>4. local'[w] = r /\ r.pc = "reply" /\ r.cmd = "add"
    BY <2>1, <2>3, IdleIsTyped, NewRegisters DEF LocalRec
  <2>5. StepOf(w)' /\ PointersOf(w)'
    BY <2>4 DEF StepOf, PointersOf, Unlisted
  <2>6. Shared' /\ history' \in HistoryRec
    BY <2>2, RecordTyped DEF Shared, TypeOK
  <2> QED
    BY <2>1, <2>2, <2>3, <2>5, <2>6, TypedStep
<1>3. CASE ReceiveTruncated(w)
  BY <1>3 DEF ReceiveTruncated, Stop, TypeOK, StepOf, PointersOf
<1>4. CASE Reply(w)
  <2>1. /\ local' = [local EXCEPT ![w] = Idle] /\ Idle \in LocalRec
        /\ UNCHANGED <<status, bucket, list, cell, doc>>
    BY <1>4, IdleIsTyped DEF Reply
  <2>2. local'[w] = Idle
    BY <2>1, NewRegisters
  <2>3. StepOf(w)' /\ PointersOf(w)'
    BY <2>2, IdleIsTyped DEF StepOf, PointersOf
  <2>4. history' \in HistoryRec
    <3>1. local[w].key \in Keys
      BY LocalTypes
    <3> QED
      BY <1>4, <3>1 DEF Reply, TypeOK, HistoryRec
  <2>5. Shared'
    BY <2>1 DEF Shared, TypeOK
  <2> QED
    BY <2>1, <2>3, <2>4, <2>5, TypedStep
<1> QED
  BY <1>1, <1>2, <1>3, <1>4

LEMMA NextTyped ==
  ASSUME TypeInv, [Next]_vars
  PROVE  TypeInv'
<1>1. CASE UNCHANGED vars
  BY <1>1 DEF vars, TypeInv, TypeOK, StepOf, PointersOf
<1>2. ASSUME NEW w \in Workers, Run(w)
      PROVE  TypeInv'
  BY <1>2, LookupTyped, SessionTyped, RemovalTyped, TestsTyped, AdditionTyped, RequestTyped
     DEF Run, Addition
<1>3. ASSUME NEW w \in Workers, Receive(w) \/ ReceiveUnparsable(w) \/ ReceiveTruncated(w)
      PROVE  TypeInv'
  BY <1>3, RequestTyped
<1> QED
  BY <1>1, <1>2, <1>3 DEF Next

(* SetToSeq lists every element of a finite set once.                      *)
LEMMA SetAsSeq ==
  ASSUME NEW S, IsFiniteSet(S)
  PROVE  /\ Cardinality(S) \in Nat
         /\ SetToSeq(S) \in [1 .. Cardinality(S) -> S]
         /\ SetToSeq(S) \in Seq(S) /\ Len(SetToSeq(S)) = Cardinality(S)
         /\ \A i, j \in 1 .. Cardinality(S) : SetToSeq(S)[i] = SetToSeq(S)[j] => i = j
<1>1. Cardinality(S) \in Nat /\ ExistsBijection(1 .. Cardinality(S), S)
  BY FS_CardinalityType
<1>2. \E f \in [1 .. Cardinality(S) -> S] : IsInjective(f)
  BY <1>1 DEF ExistsBijection, Bijection, Injection
<1>3. SetToSeq(S) \in [1 .. Cardinality(S) -> S] /\ IsInjective(SetToSeq(S))
  BY <1>2 DEF SetToSeq
<1>4. SetToSeq(S) \in Seq(S) /\ Len(SetToSeq(S)) = Cardinality(S)
  BY <1>1, <1>3, SeqDef, LenProperties
<1> QED
  BY <1>1, <1>3, <1>4 DEF IsInjective

(* The entries of the beginning, one for each key that is stored.          *)
LEMMA InitEntries ==
  ASSUME Init
  PROVE  /\ \A i \in 1 .. Cardinality(Stored) :
              /\ SetToSeq(Cells)[i] \in DOMAIN cell
              /\ cell[SetToSeq(Cells)[i]] =
                   [next |-> IF i = Cardinality(Stored) THEN Null ELSE SetToSeq(Cells)[i + 1],
                    prev |-> IF i = 1 THEN Null ELSE SetToSeq(Cells)[i - 1],
                    key  |-> SetToSeq(Stored)[i], doc |-> SetToSeq(Docs)[i]]
         /\ \A e \in DOMAIN cell : \E i \in 1 .. Cardinality(Stored) : e = SetToSeq(Cells)[i]
<1> DEFINE n     == Cardinality(Stored)
           keys  == SetToSeq(Stored)
           docs  == SetToSeq(Docs)
           cells == SetToSeq(Cells)
           place(e) == SelectInSeq(cells, LAMBDA c : c = e)
<1>1. n \in Nat /\ n <= Cardinality(Cells) /\ Cardinality(Cells) \in Nat
  BY FS_CardinalityType, DocAssumption
<1>2. /\ cells \in Seq(Cells) /\ Len(cells) = Cardinality(Cells)
      /\ \A i, j \in 1 .. Len(cells) : cells[i] = cells[j] => i = j
  BY SetAsSeq, DocAssumption
<1>3. cell = [e \in {cells[i] : i \in 1 .. n} |->
               [next |-> IF place(e) = n THEN Null ELSE cells[place(e) + 1],
                prev |-> IF place(e) = 1 THEN Null ELSE cells[place(e) - 1],
                key  |-> keys[place(e)], doc |-> docs[place(e)]]]
  BY DEF Init
<1>4. \A i \in 1 .. n : place(cells[i]) = i
  <2> SUFFICES ASSUME NEW i \in 1 .. n PROVE place(cells[i]) = i
    OBVIOUS
  <2>1. i \in 1 .. Len(cells)
    BY <1>1, <1>2
  <2> DEFINE p == place(cells[i])
  <2>2. /\ p = 0 \/ p \in 1 .. Len(cells)
        /\ p \in 1 .. Len(cells) => cells[p] = cells[i]
        /\ p = 0 => \A j \in 1 .. Len(cells) : cells[j] # cells[i]
    BY <1>2, SearchFinds
  <2> HIDE DEF p, place, cells
  <2> QED
    BY <1>2, <2>1, <2>2 DEF p
<1> HIDE DEF place
<1>5. \A i \in 1 .. n :
        /\ cells[i] \in DOMAIN cell
        /\ cell[cells[i]] =
             [next |-> IF i = n THEN Null ELSE cells[i + 1],
              prev |-> IF i = 1 THEN Null ELSE cells[i - 1],
              key  |-> keys[i], doc |-> docs[i]]
  BY <1>3, <1>4
<1>6. \A e \in DOMAIN cell : \E i \in 1 .. n : e = cells[i]
  BY <1>3
<1> QED
  BY <1>5, <1>6

LEMMA InitTyped ==
  ASSUME Countable, Init
  PROVE  TypeInv
<1> DEFINE n     == Cardinality(Stored)
           keys  == SetToSeq(Stored)
           docs  == SetToSeq(Docs)
           cells == SetToSeq(Cells)
           l     == CHOOSE x \in Lists : TRUE
<1>1. /\ n \in Nat /\ n <= Cardinality(Cells) /\ n <= Cardinality(Docs)
      /\ Cardinality(Cells) \in Nat /\ Cardinality(Docs) \in Nat /\ n < UInt /\ UInt \in Nat
  BY FS_CardinalityType, DocAssumption DEF Countable
<1>2. /\ \A i \in 1 .. n : keys[i] \in Keys /\ docs[i] \in Docs /\ cells[i] \in Cells
      /\ \A i, j \in 1 .. n : docs[i] = docs[j] => i = j
      /\ \A i, j \in 1 .. n : cells[i] = cells[j] => i = j
  <2>1. /\ keys \in [1 .. n -> Stored]
        /\ docs \in [1 .. Cardinality(Docs) -> Docs]
        /\ cells \in [1 .. Cardinality(Cells) -> Cells]
        /\ \A i, j \in 1 .. Cardinality(Docs) : docs[i] = docs[j] => i = j
        /\ \A i, j \in 1 .. Cardinality(Cells) : cells[i] = cells[j] => i = j
    BY SetAsSeq, DocAssumption
  <2>2. 1 .. n \subseteq 1 .. Cardinality(Docs) /\ 1 .. n \subseteq 1 .. Cardinality(Cells)
    BY <1>1
  <2> HIDE DEF n, keys, docs, cells
  <2>3. Stored \subseteq Keys
    BY DocAssumption
  <2> QED
    BY <2>1, <2>2, <2>3
<1>3. /\ status = "running"
      /\ bucket = (IF n = 0 THEN Null ELSE l)
      /\ list = [x \in (IF n = 0 THEN {} ELSE {l}) |->
               [length |-> n, head |-> cells[1], tail |-> cells[n]]]
      /\ doc = [d \in {docs[i] : i \in 1 .. n} |-> [collaborators |-> <<>>, mutex |-> Nobody]]
      /\ local = [w \in Workers |-> Idle]
      /\ history = [acknowledged |-> Stored, overlapped |-> FALSE, removed |-> FALSE]
  BY DEF Init
<1>4. n # 0 => l \in Lists
  <2>1. n # 0 => Stored # {}
    BY FS_EmptySet
  <2> QED
    BY <2>1, DocAssumption
<1>5. \A i \in 1 .. n :
        /\ cells[i] \in DOMAIN cell
        /\ cell[cells[i]] =
             [next |-> IF i = n THEN Null ELSE cells[i + 1],
              prev |-> IF i = 1 THEN Null ELSE cells[i - 1],
              key  |-> keys[i], doc |-> docs[i]]
  BY InitEntries
<1>6. \A e \in DOMAIN cell : \E i \in 1 .. n : e = cells[i]
  BY InitEntries
<1> HIDE DEF n, keys, docs, cells, l
<1>8. \A w \in Workers : local[w].pc = "idle" /\ local[w].cmd = "none"
  BY <1>3 DEF Idle
<1>9. TypeOK
  <2>1. Idle \in LocalRec
    BY IdleIsTyped
  <2>2. \A e \in DOMAIN cell : e \in Cells /\ cell[e] \in CellRec
    <3> SUFFICES ASSUME NEW i \in 1 .. n PROVE cells[i] \in Cells /\ cell[cells[i]] \in CellRec
      BY <1>6
    <3>1. i # n => i + 1 \in 1 .. n
      BY <1>1
    <3>2. i # 1 => i - 1 \in 1 .. n
      BY <1>1
    <3>3. /\ (IF i = n THEN Null ELSE cells[i + 1]) \in Cells \cup {Null}
          /\ (IF i = 1 THEN Null ELSE cells[i - 1]) \in Cells \cup {Null}
      BY <1>2, <3>1, <3>2
    <3>4. cells[i] \in Cells /\ keys[i] \in Keys /\ docs[i] \in Docs
      BY <1>2
    <3>5. cell[cells[i]] =
             [next |-> IF i = n THEN Null ELSE cells[i + 1],
              prev |-> IF i = 1 THEN Null ELSE cells[i - 1],
              key  |-> keys[i], doc |-> docs[i]]
      BY <1>5
    <3> QED
      BY <3>3, <3>4, <3>5 DEF CellRec
  <2>3. \A d \in DOMAIN doc : d \in Docs /\ doc[d] \in DocRec
    <3>1. <<>> \in Seq(Users)
      BY EmptySeq
    <3> QED
      BY <1>2, <1>3, <3>1 DEF DocRec
  <2>4. \A x \in DOMAIN list : x \in Lists /\ list[x] \in ListRec
    <3>1. n # 0 => 1 \in 1 .. n /\ n \in 1 .. n /\ n \in 0 .. UInt - 1
      BY <1>1
    <3> QED
      BY <1>2, <1>3, <1>4, <3>1 DEF ListRec
  <2>5. bucket \in DOMAIN list \cup {Null}
    BY <1>3
  <2> QED
    BY <1>3, <2>1, <2>2, <2>3, <2>4, <2>5, DocAssumption DEF TypeOK, HistoryRec
<1>10. \A w \in Workers : StepOf(w) /\ PointersOf(w)
  BY <1>8 DEF StepOf, PointersOf, Change
<1> QED
  BY <1>9, <1>10 DEF TypeInv

(* Every variable of the store keeps its type, whatever the commands of    *)
(* all threads do to each other: a step that would write anything else     *)
(* ends the behaviour first.                                               *)
THEOREM StoreTypeCorrect ==
  ASSUME Countable
  PROVE  Spec => []TypeOK
<1>1. Init => TypeInv
  BY InitTyped
<1>2. TypeInv /\ [Next]_vars => TypeInv'
  BY NextTyped
<1>3. TypeInv => TypeOK
  BY DEF TypeInv
<1> QED
  BY <1>1, <1>2, <1>3, PTL DEF Spec

-----------------------------------------------------------------------------
(* Adds and removes that are run alone: the inductive invariant.           *)

(* A worker that runs "add" or "remove" is the only one that runs          *)
(* anything.                                                               *)
ChangesAlone ==
  \A v, w \in Workers : v # w /\ local[w].cmd \in Change => ~ Busy(v)

(* How many entries are allocated.                                         *)
Size == Cardinality(DOMAIN cell)

(* While a worker is there, the list's length is one behind or ahead.      *)
Counting == {"alone", "link", "count", "resize"}

Linking == \E w \in Workers : local[w].pc = "link"

(* The only entry of the list is not yet its tail.                         *)
NoTail == \E w \in Workers : local[w].pc = "alone"

(* The entries make one chain, in the order of order, doubly linked except *)
(* for the entry that is just being appended.                              *)
Chained(order) ==
  /\ order \in [1 .. Size -> DOMAIN cell]
  /\ \A i, j \in 1 .. Size : order[i] = order[j] => i = j
  /\ \A e \in DOMAIN cell : \E i \in 1 .. Size : order[i] = e
  /\ \A i \in 1 .. Size : cell[order[i]].prev = IF i = 1 THEN Null ELSE order[i - 1]
  /\ \A i \in 1 .. Size : cell[order[i]].next =
       IF i = Size \/ (i = Size - 1 /\ Linking) THEN Null ELSE order[i + 1]

(* The bucket's list knows the ends of the chain and, but for the steps    *)
(* that change it, its length.                                             *)
Anchored(order) ==
  /\ bucket = Null => Size = 0
  /\ bucket # Null =>
       /\ bucket \in DOMAIN list
       /\ Size > 0 => list[bucket].head = order[1]
       /\ Size > 0 /\ ~ NoTail => list[bucket].tail = order[Size]
       /\ (\A w \in Workers : local[w].pc \notin Counting) => list[bucket].length = Size
       /\ \A w \in Workers : local[w].pc \in Counting =>
            list[bucket].length = IF local[w].cmd = "add" THEN Size - 1 ELSE Size + 1

(* Every entry has a document of its own, until it is about to go itself.  *)
OwnDocuments ==
  /\ \A e, f \in DOMAIN cell : cell[e].doc = cell[f].doc => e = f
  /\ \A e \in DOMAIN cell :
       \/ cell[e].doc \in DOMAIN doc
       \/ \E w \in Workers : local[w].pc = "unlink" /\ local[w].cell = e

(* What each worker has in its registers.                                  *)
RegistersOf(w, order) ==
  LET r == local[w] IN
  /\ r.pc \in {"length", "single", "iterate", "locate", "freeDoc", "unlink",
               "append", "first", "alone", "behind", "last", "link", "count", "resize"} =>
       bucket # Null /\ r.list = bucket
  /\ r.pc = "create" => bucket = Null
  /\ r.pc = "fetch" => bucket # Null
  /\ r.pc \in {"bucket", "length", "single"} => r.index = 0
  /\ r.pc = "single" => Size = 1
  /\ r.pc = "iterate" =>
       r.index \in 0 .. Size /\ r.cell = IF r.index = Size THEN Null ELSE order[r.index + 1]
  /\ r.pc = "locate" => r.index \in 0 .. Size - 1
  /\ r.pc \in {"freeDoc", "unlink"} => r.cell \in DOMAIN cell
  /\ r.pc = "first" => Size = 0
  /\ r.pc = "behind" => Size > 0
  /\ r.pc = "alone" => Size = 1
  /\ r.pc \in {"alone", "last", "link"} => Size > 0 /\ r.cell = order[Size]
  /\ r.pc = "resize" => r.length = list[bucket].length
  /\ r.pc \in {"use", "lock", "load", "store", "unlock"} => r.doc \in DOMAIN doc
  /\ r.cmd = "add" /\ r.pc \in {"bucket", "create", "fetch", "append", "first", "behind", "last"} =>
       r.doc \in DOMAIN doc /\ \A e \in DOMAIN cell : cell[e].doc # r.doc

StoreInv ==
  /\ TypeOK
  /\ Runs
  /\ EditorsHoldMutexes
  /\ ChangesAlone
  /\ \A w \in Workers : StepOf(w)
  /\ OwnDocuments
  /\ \E order \in [1 .. Size -> DOMAIN cell] :
       Chained(order) /\ Anchored(order) /\ \A w \in Workers : RegistersOf(w, order)

-----------------------------------------------------------------------------
(* Steps that leave the dictionary as it is.                               *)

(* The chain stays if nobody starts or stops appending or counting.        *)
LEMMA ShapeKept ==
  ASSUME NEW order, Chained(order), Anchored(order),
         UNCHANGED <<bucket, list, cell>>,
         \A v \in Workers : local'[v].pc = "link" <=> local[v].pc = "link",
         \A v \in Workers : local'[v].pc = "alone" <=> local[v].pc = "alone",
         \A v \in Workers : local'[v].pc \in Counting <=> local[v].pc \in Counting,
         \A v \in Workers : local[v].pc \in Counting => local'[v].cmd = local[v].cmd
  PROVE  Chained(order)' /\ Anchored(order)'
<1>1. Size' = Size
  BY DEF Size
<1>2. (Linking' <=> Linking) /\ (NoTail' <=> NoTail)
  BY DEF Linking, NoTail
<1>3. Chained(order)'
  BY <1>1, <1>2 DEF Chained
<1>4. Anchored(order)'
  BY <1>1, <1>2 DEF Anchored
<1> QED
  BY <1>3, <1>4

(* The registers of the others stay what they are.                         *)
LEMMA RegistersKept ==
  ASSUME NEW order, NEW v \in Workers, RegistersOf(v, order),
         UNCHANGED <<bucket, list, cell>>, local'[v] = local[v],
         DOMAIN doc \subseteq DOMAIN doc'
  PROVE  RegistersOf(v, order)'
<1>1. Size' = Size
  BY DEF Size
<1> QED
  BY <1>1 DEF RegistersOf

(* One worker goes on to another step of its command.                      *)
LEMMA QuietStep ==
  ASSUME StoreInv, TypeOK', EditorsHoldMutexes',
         NEW order, Chained(order), Anchored(order),
         \A v \in Workers : RegistersOf(v, order),
         NEW w \in Workers,
         UNCHANGED <<status, bucket, list, cell>>,
         DOMAIN doc \subseteq DOMAIN doc',
         \A v \in Workers : v # w => local'[v] = local[v],
         local'[w].pc = "link" <=> local[w].pc = "link",
         local'[w].pc = "alone" <=> local[w].pc = "alone",
         local'[w].pc \in Counting <=> local[w].pc \in Counting,
         local[w].pc \in Counting => local'[w].cmd = local[w].cmd,
         local[w].pc # "unlink",
         ChangesAlone', StepOf(w)', RegistersOf(w, order)'
  PROVE  StoreInv'
<1> USE DEF StoreInv
<1>1. Chained(order)' /\ Anchored(order)'
  <2>1. \A v \in Workers :
          /\ local'[v].pc = "link" <=> local[v].pc = "link"
          /\ local'[v].pc = "alone" <=> local[v].pc = "alone"
          /\ local'[v].pc \in Counting <=> local[v].pc \in Counting
          /\ local[v].pc \in Counting => local'[v].cmd = local[v].cmd
    OBVIOUS
  <2> QED
    BY <2>1, ShapeKept
<1>2. \A v \in Workers : RegistersOf(v, order)'
  BY RegistersKept
<1>3. \A v \in Workers : StepOf(v)'
  BY DEF StepOf
<1>4. OwnDocuments'
  BY DEF OwnDocuments
<1>5. Runs'
  BY DEF Runs
<1>6. order \in [1 .. Size' -> DOMAIN cell']
  BY <1>1 DEF Chained
<1> QED
  BY <1>1, <1>2, <1>3, <1>4, <1>5, <1>6

(* What is done alone is still done alone, if the worker goes on with its  *)
(* command or has done with it.                                            *)
LEMMA AloneKept ==
  ASSUME ChangesAlone, NEW w \in Workers,
         \A v \in Workers : v # w => local'[v] = local[v],
         Busy(w),
         local'[w].cmd = local[w].cmd \/ (~ Busy(w)' /\ local'[w].cmd = "none")
  PROVE  ChangesAlone'
BY DEF ChangesAlone, Busy, Change

(* The mutexes stay right if no editor comes or goes.                      *)
LEMMA MutexKept ==
  ASSUME EditorsHoldMutexes, NEW w \in Workers, doc' = doc,
         \A v \in Workers : v # w => local'[v] = local[v],
         local'[w].doc = local[w].doc \/ local[w].pc \notin {"load", "store", "unlock"},
         local'[w].pc \in {"load", "store", "unlock"} <=> local[w].pc \in {"load", "store", "unlock"}
  PROVE  EditorsHoldMutexes'
<1>1. \A d : Editing(d)' = Editing(d)
  BY DEF Editing
<1> QED
  BY <1>1 DEF EditorsHoldMutexes

(* The step of a command that only reads what is shared.                   *)
LEMMA ReadStep ==
  ASSUME StoreInv, NEW w \in Workers, NEW r \in LocalRec,
         Reads, local' = [local EXCEPT ![w] = r],
         Busy(w), r.pc # "idle", r.cmd = local[w].cmd,
         local[w].pc \notin Counting \cup {"unlink", "load", "store", "unlock"},
         r.pc \notin Counting \cup {"load", "store", "unlock"},
         StepOf(w)',
         \A order : Chained(order) /\ Anchored(order) /\ RegistersOf(w, order)
                      => RegistersOf(w, order)'
  PROVE  StoreInv'
<1>1. /\ local' \in [Workers -> LocalRec]
      /\ local'[w] = r
      /\ \A v \in Workers : v # w => local'[v] = local[v]
  BY NewRegisters DEF StoreInv
<1>2. TypeOK'
  BY <1>1 DEF StoreInv, TypeOK, Reads
<1>3. EditorsHoldMutexes'
  BY <1>1, MutexKept DEF StoreInv, Reads
<1>4. ChangesAlone'
  <2>1. local'[w].cmd = local[w].cmd
    BY <1>1
  <2> QED
    BY <1>1, <2>1 DEF StoreInv, ChangesAlone, Busy
<1>5. PICK order \in [1 .. Size -> DOMAIN cell] :
        Chained(order) /\ Anchored(order) /\ \A v \in Workers : RegistersOf(v, order)
  BY DEF StoreInv
<1> QED
  BY <1>1, <1>2, <1>3, <1>4, <1>5, QuietStep DEF Reads, Counting

-----------------------------------------------------------------------------
(* The lookup.                                                             *)

LEMMA MissStep ==
  ASSUME StoreInv, NEW w \in Workers, Miss(w), Reads,
         local[w].pc \in {"bucket", "length", "single", "iterate"}
  PROVE  StoreInv'
<1> DEFINE reply == IF local[w].cmd = "remove" THEN "ok" ELSE "nil"
           r == [local[w] EXCEPT !.pc = "reply", !.reply = reply]
<1>1. r \in LocalRec
  <2>1. local[w] \in LocalRec
    BY LocalTypes DEF StoreInv
  <2>2. reply \in {"none", "ok", "nil", "contents"} /\ "reply" \in Pcs
    BY DEF Pcs
  <2> HIDE DEF reply
  <2> QED
    BY <2>1, <2>2, ZenonT(60) DEF LocalRec
<1>2. local' = [local EXCEPT ![w] = r]
  BY DEF Miss, Answer
<1>3. local'[w] = r
  BY <1>1, <1>2, NewRegisters DEF StoreInv
<1>4. r.pc = "reply" /\ r.cmd = local[w].cmd /\ r.user = local[w].user
  BY DEF StoreInv, TypeOK, LocalRec
<1> HIDE DEF r
<1>5. StepOf(w)'
  BY <1>3, <1>4 DEF StepOf, StoreInv
<1>6. \A order : RegistersOf(w, order)'
  BY <1>3, <1>4 DEF RegistersOf
<1> QED
  BY <1>1, <1>2, <1>4, <1>5, <1>6, ReadStep DEF Busy, Counting

LEMMA ReadBucketStep ==
  ASSUME StoreInv, NEW w \in Workers, ReadBucket(w)
  PROVE  StoreInv'
<1>1. CASE bucket = Null
  BY <1>1, MissStep DEF ReadBucket, At
<1>2. CASE bucket # Null
  <2> DEFINE r == [local[w] EXCEPT !.pc = "length", !.list = bucket]
  <2>1. r \in LocalRec
    <3>1. local[w] \in LocalRec /\ bucket \in Lists \cup {Null} /\ "length" \in Pcs
      BY LocalTypes DEF StoreInv, TypeOK, Pcs
    <3> QED
      BY <3>1 DEF LocalRec
  <2>2. local' = [local EXCEPT ![w] = r] /\ Reads /\ local[w].pc = "bucket" /\ local[w].cmd # "add"
    BY <1>2 DEF ReadBucket, At
  <2>3. local'[w] = r
    BY <2>1, <2>2, NewRegisters DEF StoreInv
  <2>4. /\ r.pc = "length" /\ r.cmd = local[w].cmd /\ r.user = local[w].user
        /\ r.list = bucket /\ r.index = local[w].index
    BY DEF StoreInv, TypeOK, LocalRec
  <2> HIDE DEF r
  <2>5. StepOf(w)'
    BY <2>2, <2>3, <2>4 DEF StepOf, StoreInv
  <2>6. ASSUME NEW order, RegistersOf(w, order)
        PROVE  RegistersOf(w, order)'
    BY <1>2, <2>2, <2>3, <2>4, <2>6 DEF RegistersOf, Reads
  <2> QED
    BY <2>1, <2>2, <2>4, <2>5, <2>6, ReadStep DEF Busy, Counting
<1> QED
  BY <1>1, <1>2

LEMMA HitStep ==
  ASSUME StoreInv, NEW w \in Workers, NEW e \in DOMAIN cell, Hit(w, e), Reads,
         cell[e].doc \in DOMAIN doc,
         local[w].pc \in {"single", "iterate"},
         \A order : Chained(order) /\ Anchored(order) /\ RegistersOf(w, order)
                      => local[w].index \in 0 .. Size - 1
  PROVE  StoreInv'
<1> DEFINE pc == CASE local[w].cmd = "get"    -> "use"
                   [] local[w].cmd = "remove" -> "locate"
                   [] OTHER                   -> "lock"
           d == cell[e].doc
           r == [local[w] EXCEPT !.pc = pc, !.doc = d]
<1>1. /\ local[w].cmd \in {"get", "remove", "start", "end"}
      /\ local[w] \in LocalRec
  <2>1. local[w].cmd # "add" /\ local[w].cmd # "none"
    BY DEF StoreInv, StepOf
  <2> QED
    BY <2>1, LocalTypes, DocAssumption DEF StoreInv
<1>2. /\ pc \in {"use", "locate", "lock"} /\ pc \in Pcs
      /\ pc = "use" => local[w].cmd = "get"
      /\ pc = "locate" => local[w].cmd = "remove"
      /\ pc = "lock" => local[w].cmd \in {"start", "end"}
  BY <1>1 DEF Pcs
<1>3. d \in Docs /\ d \in DOMAIN doc
  BY DEF StoreInv, TypeOK
<1>4. local' = [local EXCEPT ![w] = r]
  BY DEF Hit
<1> HIDE DEF pc, d
<1>5. r \in LocalRec
  BY <1>1, <1>2, <1>3 DEF LocalRec
<1>6. local'[w] = r
  BY <1>4, <1>5, NewRegisters DEF StoreInv
<1>7. /\ r.pc = pc /\ r.cmd = local[w].cmd /\ r.user = local[w].user /\ r.list = local[w].list
      /\ r.index = local[w].index /\ r.doc = d
  BY <1>1 DEF LocalRec
<1> HIDE DEF r
<1>8. StepOf(w)'
  BY <1>1, <1>2, <1>6, <1>7 DEF StepOf, StoreInv
<1>9. ASSUME NEW order, Chained(order), Anchored(order), RegistersOf(w, order)
      PROVE  RegistersOf(w, order)'
  <2>1. Size' = Size /\ bucket' = bucket /\ doc' = doc
    BY DEF Size, Reads
  <2> QED
    BY <1>2, <1>3, <1>6, <1>7, <1>9, <2>1 DEF RegistersOf
<1> QED
  BY <1>2, <1>4, <1>5, <1>7, <1>8, <1>9, ReadStep DEF Busy, Counting

(* Nobody appends, counts or unlinks while a worker looks something up.    *)
LEMMA LookupsAreQuiet ==
  ASSUME StoreInv, NEW w \in Workers,
         local[w].pc \notin Counting \cup {"idle", "unlink"}
  PROVE  /\ \A v \in Workers : local[v].pc \notin Counting
         /\ \A v \in Workers : local[v].pc # "unlink"
         /\ ~ Linking /\ ~ NoTail
         /\ \A e \in DOMAIN cell : cell[e].doc \in DOMAIN doc
<1>1. \A v \in Workers : local[v].pc \notin Counting \cup {"unlink"}
  BY DEF StoreInv, ChangesAlone, StepOf, Counting, Change, Busy
<1> QED
  BY <1>1 DEF Linking, NoTail, Counting, StoreInv, OwnDocuments

LEMMA ReadLengthStep ==
  ASSUME StoreInv, NEW w \in Workers, ReadLength(w)
  PROVE  StoreInv'
<1> DEFINE l == list[local[w].list]
<1>1. local[w].pc = "length" /\ Reads
  BY DEF ReadLength, At
<1>2. CASE l.length = 0
  BY <1>1, <1>2, MissStep DEF ReadLength
<1>3. /\ bucket # Null /\ local[w].list = bucket /\ bucket \in DOMAIN list
      /\ local[w].index = 0
      /\ l \in ListRec
  BY <1>1 DEF StoreInv, RegistersOf, Anchored, TypeOK
<1>4. \A order : Chained(order) /\ Anchored(order) =>
        l.length = Size /\ (Size > 0 => l.head = order[1])
  BY <1>1, <1>3, LookupsAreQuiet DEF Anchored, Counting
<1>5. local[w] \in LocalRec /\ local[w].cmd # "add"
  BY <1>1, LocalTypes DEF StoreInv, StepOf
<1>6. CASE l.length = 1
  <2> DEFINE r == [local[w] EXCEPT !.pc = "single"]
  <2>1. r \in LocalRec
    BY <1>5 DEF LocalRec, Pcs
  <2>2. local' = [local EXCEPT ![w] = r]
    BY <1>6 DEF ReadLength, Goto
  <2>3. local'[w] = r
    BY <2>1, <2>2, NewRegisters DEF StoreInv
  <2>4. /\ r.pc = "single" /\ r.cmd = local[w].cmd /\ r.user = local[w].user
        /\ r.list = local[w].list /\ r.index = local[w].index
    BY <1>5 DEF LocalRec
  <2> HIDE DEF r
  <2>5. StepOf(w)'
    BY <1>1, <1>5, <2>3, <2>4 DEF StepOf, StoreInv
  <2>6. ASSUME NEW order, Chained(order), Anchored(order), RegistersOf(w, order)
        PROVE  RegistersOf(w, order)'
    <3>1. Size = 1 /\ Size' = Size /\ bucket' = bucket
      BY <1>1, <1>4, <1>6, <2>6 DEF Size, Reads
    <3> QED
      BY <1>3, <2>3, <2>4, <3>1 DEF RegistersOf
  <2> QED
    BY <1>1, <2>1, <2>2, <2>4, <2>5, <2>6, ReadStep DEF Busy, Counting
<1>7. CASE l.length # 0 /\ l.length # 1
  <2> DEFINE r == [local[w] EXCEPT !.pc = "iterate", !.cell = l.head]
  <2>1. r \in LocalRec
    <3>1. l.head \in Cells \cup {Null} /\ "iterate" \in Pcs
      BY <1>3 DEF ListRec, Pcs
    <3> HIDE DEF l
    <3> QED
      BY <1>5, <3>1 DEF LocalRec
  <2>2. local' = [local EXCEPT ![w] = r]
    BY <1>7 DEF ReadLength
  <2>3. local'[w] = r
    BY <2>1, <2>2, NewRegisters DEF StoreInv
  <2>4. /\ r.pc = "iterate" /\ r.cmd = local[w].cmd /\ r.user = local[w].user
        /\ r.list = local[w].list /\ r.index = local[w].index /\ r.cell = l.head
    BY <1>5 DEF LocalRec
  <2> HIDE DEF r
  <2>5. StepOf(w)'
    BY <1>1, <1>5, <2>3, <2>4 DEF StepOf, StoreInv
  <2>6. ASSUME NEW order, Chained(order), Anchored(order), RegistersOf(w, order)
        PROVE  RegistersOf(w, order)'
    <3>1. Size \in Nat \ {0} /\ Size' = Size /\ bucket' = bucket
      BY <1>1, <1>3, <1>4, <1>7, <2>6 DEF Size, Reads, ListRec
    <3>2. l.head = order[1] /\ 0 \in 0 .. Size /\ 0 # Size
      BY <1>4, <2>6, <3>1
    <3> HIDE DEF l
    <3> QED
      BY <1>3, <2>3, <2>4, <3>1, <3>2 DEF RegistersOf
  <2> QED
    BY <1>1, <2>1, <2>2, <2>4, <2>5, <2>6, ReadStep DEF Busy, Counting
<1> QED
  BY <1>2, <1>6, <1>7

LEMMA GetSingleStep ==
  ASSUME StoreInv, NEW w \in Workers, GetSingle(w)
  PROVE  StoreInv'
<1> DEFINE l == list[local[w].list]
           e == IF l.length \div 2 > 0 THEN l.head ELSE l.tail
<1>1. local[w].pc = "single"
  BY DEF GetSingle, At
<1>2. PICK order \in [1 .. Size -> DOMAIN cell] :
        Chained(order) /\ Anchored(order) /\ \A v \in Workers : RegistersOf(v, order)
  BY DEF StoreInv
<1>3. /\ Size = 1 /\ local[w].index = 0
      /\ l.length = 1 /\ l.tail = order[1]
  BY <1>1, <1>2, LookupsAreQuiet DEF RegistersOf, Anchored, Counting
<1>4. e = order[1] /\ e \in DOMAIN cell /\ cell[e].doc \in DOMAIN doc
  <2>1. ~ (1 \div 2 > 0)
    OBVIOUS
  <2>2. e = l.tail
    BY <1>3, <2>1
  <2>3. order[1] \in DOMAIN cell
    BY <1>2, <1>3
  <2> HIDE DEF l, e
  <2> QED
    BY <1>1, <1>3, <2>2, <2>3, LookupsAreQuiet DEF Counting
<1>5. Reads /\ (Hit(w, e) \/ Miss(w))
  <2>1. l.length # 0
    BY <1>3
  <2> QED
    BY <1>4, <2>1 DEF GetSingle, Alive
<1>6. CASE Miss(w)
  BY <1>1, <1>5, <1>6, MissStep
<1>7. CASE Hit(w, e)
  <2>1. local[w].index \in 0 .. Size - 1
    BY <1>3
  <2> HIDE DEF e
  <2> QED
    BY <1>1, <1>4, <1>5, <1>7, <2>1, HitStep
<1> QED
  BY <1>5, <1>6, <1>7

LEMMA SizeIsNatural ==
  ASSUME StoreInv
  PROVE  IsFiniteSet(DOMAIN cell) /\ Size \in Nat
<1>1. DOMAIN cell \subseteq Cells
  BY DEF StoreInv, TypeOK
<1> QED
  BY <1>1, DocAssumption, FS_Subset, FS_CardinalityType DEF Size

LEMMA IterateStep ==
  ASSUME StoreInv, NEW w \in Workers, Iterate(w)
  PROVE  StoreInv'
<1> DEFINE e == local[w].cell
           i == local[w].index
<1>1. local[w].pc = "iterate" /\ local[w] \in LocalRec /\ local[w].cmd # "add"
  BY LocalTypes DEF Iterate, At, StoreInv, StepOf
<1>2. PICK order \in [1 .. Size -> DOMAIN cell] :
        Chained(order) /\ Anchored(order) /\ \A v \in Workers : RegistersOf(v, order)
  BY DEF StoreInv
<1>3. /\ i \in 0 .. Size /\ e = IF i = Size THEN Null ELSE order[i + 1]
      /\ Size \in Nat
  BY <1>1, <1>2, SizeIsNatural DEF RegistersOf
<1>4. CASE e = Null
  BY <1>1, <1>4, MissStep DEF Iterate
<1>5. CASE e # Null
  <2>1. i \in 0 .. Size - 1 /\ i + 1 \in 1 .. Size /\ e = order[i + 1]
    BY <1>3, <1>5
  <2>2. e \in DOMAIN cell /\ cell[e].doc \in DOMAIN doc
    BY <1>1, <1>2, <2>1, LookupsAreQuiet DEF Counting
  <2>3. CASE cell[e].key = local[w].key
    <3>1. Hit(w, e) /\ Reads
      BY <1>5, <2>2, <2>3 DEF Iterate, Alive
    <3> HIDE DEF e
    <3> QED
      BY <1>1, <2>1, <2>2, <3>1, HitStep
  <2>4. CASE cell[e].key # local[w].key
    <3> DEFINE next == cell[e].next
               r == [local[w] EXCEPT !.cell = next, !.index = i + 1]
    <3>1. Reads /\ local' = [local EXCEPT ![w] = r]
      BY <1>5, <2>2, <2>4 DEF Iterate, Alive
    <3>2. next \in Cells \cup {Null} /\ i + 1 \in Nat
      BY <2>1, <2>2, <1>3 DEF StoreInv, TypeOK, CellRec
    <3>3. \A ord : Chained(ord) /\ RegistersOf(w, ord)
            => next = IF i + 1 = Size THEN Null ELSE ord[i + 2]
      <4> TAKE ord
      <4> HAVE Chained(ord) /\ RegistersOf(w, ord)
      <4>1. e = ord[i + 1]
        BY <1>1, <2>1, <1>3 DEF RegistersOf
      <4>2. ~ Linking
        BY <1>1, LookupsAreQuiet DEF Counting
      <4>3. cell[ord[i + 1]].next = IF i + 1 = Size THEN Null ELSE ord[(i + 1) + 1]
        BY <2>1, <4>2 DEF Chained
      <4>4. (i + 1) + 1 = i + 2
        BY <2>1
      <4> QED
        BY <4>1, <4>3, <4>4
    <3> HIDE DEF next
    <3>4. r \in LocalRec
      BY <1>1, <3>2 DEF LocalRec
    <3>5. local'[w] = r
      BY <3>1, <3>4, NewRegisters DEF StoreInv
    <3>6. /\ r.pc = local[w].pc /\ r.cmd = local[w].cmd /\ r.user = local[w].user
          /\ r.list = local[w].list /\ r.index = i + 1 /\ r.cell = next
      BY <1>1 DEF LocalRec
    <3> HIDE DEF r
    <3>7. StepOf(w)'
      BY <1>1, <3>5, <3>6 DEF StepOf, StoreInv
    <3>8. ASSUME NEW ord, Chained(ord), Anchored(ord), RegistersOf(w, ord)
          PROVE  RegistersOf(w, ord)'
      <4>1. Size' = Size /\ bucket' = bucket
        BY <3>1 DEF Size, Reads
      <4>2. next = IF i + 1 = Size THEN Null ELSE ord[(i + 1) + 1]
        BY <2>1, <3>3, <3>8
      <4>3. bucket # Null /\ local[w].list = bucket
        BY <1>1, <3>8 DEF RegistersOf
      <4>4. i + 1 \in 0 .. Size
        BY <1>3, <2>1
      <4> HIDE DEF i
      <4> QED
        BY <1>1, <3>5, <3>6, <4>1, <4>2, <4>3, <4>4 DEF RegistersOf
    <3> QED
      BY <1>1, <3>1, <3>4, <3>6, <3>7, <3>8, ReadStep DEF Busy, Counting
  <2> QED
    BY <2>3, <2>4
<1> QED
  BY <1>4, <1>5

LEMMA UseDocumentStep ==
  ASSUME StoreInv, NEW w \in Workers, UseDocument(w)
  PROVE  StoreInv'
<1> DEFINE r == [local[w] EXCEPT !.pc = "reply", !.reply = "contents"]
<1>1. local[w].pc = "use" /\ local[w] \in LocalRec
  BY LocalTypes DEF UseDocument, At, StoreInv
<1>2. local[w].doc \in DOMAIN doc
  BY <1>1 DEF StoreInv, RegistersOf
<1>3. Reads /\ local' = [local EXCEPT ![w] = r]
  BY <1>2 DEF UseDocument, Answer
<1>4. r \in LocalRec
  BY <1>1 DEF LocalRec, Pcs
<1>5. local'[w] = r
  BY <1>3, <1>4, NewRegisters DEF StoreInv
<1>6. r.pc = "reply" /\ r.cmd = local[w].cmd /\ r.user = local[w].user
  BY <1>1 DEF LocalRec
<1> HIDE DEF r
<1>7. StepOf(w)'
  BY <1>1, <1>5, <1>6 DEF StepOf, StoreInv
<1>8. \A order : RegistersOf(w, order)'
  BY <1>5, <1>6 DEF RegistersOf
<1> QED
  BY <1>1, <1>3, <1>4, <1>6, <1>7, <1>8, ReadStep DEF Busy, Counting

-----------------------------------------------------------------------------
(* Commands come and go.                                                   *)

(* A command is received while nothing disturbs it.                        *)
LEMMA ReceivedAlone ==
  ASSUME StoreInv, NEW w \in Workers, local[w].pc = "idle",
         local' \in [Workers -> LocalRec],
         \A v \in Workers : v # w => local'[v] = local[v],
         Undisturbed(w, local'[w].cmd)
  PROVE  ChangesAlone'
<1> DEFINE c == local'[w].cmd
<1>1. \A v \in Workers : v # w /\ Busy(v) => c \notin Change /\ local[v].cmd \notin Change
  <2> SUFFICES ASSUME NEW v \in Workers, v # w, Busy(v)
               PROVE  c \notin Change /\ local[v].cmd \notin Change
    OBVIOUS
  <2>1. {c, local[v].cmd} \cap {"add", "remove"} = {}
    BY DEF Undisturbed, Busy
  <2> QED
    BY <2>1 DEF Change
<1>2. \A v \in Workers : local[v].cmd \in Change => Busy(v)
  BY DEF StoreInv, StepOf, Busy, Change
<1>3. ASSUME NEW u \in Workers, NEW v \in Workers, u # v, local'[v].cmd \in Change
      PROVE  local'[u].pc = "idle"
  <2>1. CASE v = w
    BY <1>1, <1>3, <2>1 DEF Busy
  <2>2. CASE u = w
    BY <1>1, <1>2, <1>3, <2>2
  <2>3. CASE v # w /\ u # w
    BY <1>3, <2>3 DEF StoreInv, ChangesAlone, Busy
  <2> QED
    BY <2>1, <2>2, <2>3
<1> QED
  BY <1>3 DEF ChangesAlone, Busy

(* While a change is under way, or about to be, nobody else edits.         *)
LEMMA ReceiveStep ==
  ASSUME StoreInv, TypeInv, TypeInv', ~ history'.overlapped, NEW w \in Workers, Receive(w)
  PROVE  StoreInv'
<1>1. PICK r \in LocalRec :
        /\ local' = [local EXCEPT ![w] = r]
        /\ r.pc = "bucket" /\ r.cmd \in Commands /\ r.index = 0
        /\ Record(w, r.cmd)
        /\ r.cmd = "add" => r.doc \in Docs \ DOMAIN doc /\ documentCreate(r.doc)
        /\ r.cmd # "add" => doc' = doc
  BY ReceivedCommand
<1>2. /\ local[w].pc = "idle" /\ status = "running"
      /\ UNCHANGED <<status, bucket, list, cell>>
  BY DEF Receive, At
<1>3. /\ local' \in [Workers -> LocalRec]
      /\ local'[w] = r
      /\ \A v \in Workers : v # w => local'[v] = local[v]
  BY <1>1, NewRegisters DEF StoreInv
<1>4. Undisturbed(w, r.cmd)
  BY <1>1, RecordTyped
<1>5. ChangesAlone'
  BY <1>2, <1>3, <1>4, ReceivedAlone
<1>6. TypeOK' /\ StepOf(w)'
  BY DEF TypeInv
<1>7. PICK order \in [1 .. Size -> DOMAIN cell] :
        Chained(order) /\ Anchored(order) /\ \A v \in Workers : RegistersOf(v, order)
  BY DEF StoreInv
<1> DEFINE d == r.doc
<1>8. r.cmd = "add" =>
        /\ d \in Docs /\ d \notin DOMAIN doc
        /\ doc' = [x \in DOMAIN doc \cup {d} |->
             IF x = d THEN [collaborators |-> <<>>, mutex |-> Nobody] ELSE doc[x]]
  BY <1>1 DEF documentCreate
<1>9. r.cmd = "add" => \A v \in Workers : v # w => ~ Busy(v)
  BY <1>3, <1>5 DEF ChangesAlone, Change, Busy
<1>10. EditorsHoldMutexes'
  <2>1. \A x : Editing(x)' = Editing(x)
    BY <1>1, <1>2, <1>3 DEF Editing
  <2>2. CASE r.cmd = "add"
    <3>1. \A x : Editing(x) = {}
      BY <1>2, <1>9, <2>2 DEF Editing, Busy
    <3>2. \A x \in DOMAIN doc : doc[x].mutex = Nobody
      BY <3>1, <2>2 DEF StoreInv, EditorsHoldMutexes
    <3>3. \A x \in DOMAIN doc' : doc'[x].mutex = Nobody
      BY <1>8, <2>2, <3>2
    <3> QED
      BY <2>1, <3>1, <3>3 DEF EditorsHoldMutexes
  <2>3. CASE r.cmd # "add"
    BY <1>1, <2>1, <2>3 DEF StoreInv, EditorsHoldMutexes
  <2> QED
    BY <2>2, <2>3
<1>11. RegistersOf(w, order)'
  <2>1. CASE r.cmd = "add"
    <3>1. \A e \in DOMAIN cell : cell[e].doc \in DOMAIN doc
      <4>1. \A v \in Workers : local[v].pc # "unlink"
        BY <1>2, <1>9, <2>1 DEF Busy
      <4> QED
        BY <4>1 DEF StoreInv, OwnDocuments
    <3>2. d \in DOMAIN doc' /\ \A e \in DOMAIN cell : cell[e].doc # d
      BY <1>8, <2>1, <3>1
    <3> QED
      BY <1>1, <1>2, <1>3, <3>2 DEF RegistersOf
  <2>2. CASE r.cmd # "add"
    BY <1>1, <1>3, <2>2 DEF RegistersOf
  <2> QED
    BY <2>1, <2>2
<1>12. DOMAIN doc \subseteq DOMAIN doc'
  BY <1>1, <1>8
<1> QED
  BY <1>1, <1>2, <1>3, <1>5, <1>6, <1>7, <1>10, <1>11, <1>12, QuietStep DEF Counting

LEMMA ReceiveUnparsableStep ==
  ASSUME StoreInv, TypeInv, TypeInv', ~ history'.overlapped,
         NEW w \in Workers, ReceiveUnparsable(w)
  PROVE  StoreInv'
<1>1. PICK k \in Keys :
        local' = [local EXCEPT ![w] =
          [Idle EXCEPT !.pc = "reply", !.cmd = "add", !.key = k, !.reply = "nil"]]
  BY Zenon DEF ReceiveUnparsable
<1> DEFINE r == [Idle EXCEPT !.pc = "reply", !.cmd = "add", !.key = k, !.reply = "nil"]
<1>2. /\ local[w].pc = "idle" /\ "add" \in Commands /\ Record(w, "add")
      /\ UNCHANGED <<status, bucket, list, cell, doc>>
  BY DEF ReceiveUnparsable, At
<1>3. r \in LocalRec
  BY <1>2, IdleIsTyped, ZenonT(60) DEF LocalRec, Pcs
<1>4. /\ local' \in [Workers -> LocalRec]
      /\ local'[w] = r
      /\ \A v \in Workers : v # w => local'[v] = local[v]
  BY <1>1, <1>3, NewRegisters DEF StoreInv
<1>5. r.pc = "reply" /\ r.cmd = "add"
  BY IdleIsTyped DEF LocalRec
<1> HIDE DEF r
<1>6. ChangesAlone'
  <2>1. Undisturbed(w, "add")
    BY <1>2, RecordTyped
  <2> QED
    BY <1>2, <1>4, <1>5, <2>1, ReceivedAlone
<1>7. StepOf(w)' /\ \A order : RegistersOf(w, order)'
  BY <1>4, <1>5 DEF StepOf, RegistersOf
<1>8. TypeOK'
  BY DEF TypeInv
<1>9. EditorsHoldMutexes'
  <2>1. \A x : Editing(x)' = Editing(x)
    BY <1>2, <1>4, <1>5 DEF Editing
  <2> QED
    BY <1>2, <2>1 DEF StoreInv, EditorsHoldMutexes
<1>10. PICK order \in [1 .. Size -> DOMAIN cell] :
        Chained(order) /\ Anchored(order) /\ \A v \in Workers : RegistersOf(v, order)
  BY DEF StoreInv
<1> QED
  BY <1>2, <1>4, <1>5, <1>6, <1>7, <1>8, <1>9, <1>10, QuietStep DEF Counting

(* The server gives up on contents that end early.                         *)
LEMMA ReceiveTruncatedStep ==
  ASSUME StoreInv, NEW w \in Workers, ReceiveTruncated(w)
  PROVE  StoreInv'
<1>1. UNCHANGED <<bucket, list, cell, doc, local, history>> /\ status' = "noContents"
  BY DEF ReceiveTruncated, Stop
<1>2. PICK order \in [1 .. Size -> DOMAIN cell] :
        Chained(order) /\ Anchored(order) /\ \A v \in Workers : RegistersOf(v, order)
  BY DEF StoreInv
<1>3. Chained(order)' /\ Anchored(order)'
  BY <1>1, <1>2, ShapeKept
<1>4. \A v \in Workers : RegistersOf(v, order)'
  BY <1>1, <1>2, RegistersKept
<1>5. TypeOK' /\ Runs' /\ EditorsHoldMutexes' /\ ChangesAlone' /\ OwnDocuments'
  BY <1>1 DEF StoreInv, TypeOK, Runs, EditorsHoldMutexes, Editing, ChangesAlone, Busy, OwnDocuments
<1>6. \A v \in Workers : StepOf(v)'
  BY <1>1 DEF StoreInv, StepOf
<1>7. order \in [1 .. Size' -> DOMAIN cell']
  BY <1>3 DEF Chained
<1> QED
  BY <1>3, <1>4, <1>5, <1>6, <1>7 DEF StoreInv

LEMMA ReplyStep ==
  ASSUME StoreInv, TypeInv', NEW w \in Workers, Reply(w)
  PROVE  StoreInv'
<1>1. /\ local[w].pc = "reply" /\ local' = [local EXCEPT ![w] = Idle]
      /\ UNCHANGED <<status, bucket, list, cell, doc>>
  BY DEF Reply, At
<1>2. /\ local' \in [Workers -> LocalRec]
      /\ local'[w] = Idle
      /\ \A v \in Workers : v # w => local'[v] = local[v]
  BY <1>1, IdleIsTyped, NewRegisters DEF StoreInv
<1>3. ChangesAlone'
  BY <1>1, <1>2, IdleIsTyped DEF StoreInv, ChangesAlone, Busy, Change
<1>4. StepOf(w)' /\ \A order : RegistersOf(w, order)'
  BY <1>2, IdleIsTyped DEF StepOf, RegistersOf
<1>6. TypeOK'
  BY DEF TypeInv
<1>7. EditorsHoldMutexes'
  <2>1. \A x : Editing(x)' = Editing(x)
    BY <1>1, <1>2, IdleIsTyped DEF Editing
  <2> QED
    BY <1>1, <2>1 DEF StoreInv, EditorsHoldMutexes
<1>8. PICK order \in [1 .. Size -> DOMAIN cell] :
        Chained(order) /\ Anchored(order) /\ \A v \in Workers : RegistersOf(v, order)
  BY DEF StoreInv
<1> QED
  BY <1>1, <1>2, <1>3, <1>4, <1>6, <1>7, <1>8, IdleIsTyped, QuietStep DEF Counting

-----------------------------------------------------------------------------
(* start and end.                                                          *)

(* The registers after a step of a session on a document, and the mutex.   *)
Edits(w, r) ==
  /\ local' = [local EXCEPT ![w] = r]
  /\ UNCHANGED <<status, bucket, list, cell, history>>
  /\ local[w].pc \in {"lock", "load", "store", "unlock"}
  /\ r.pc \in {"load", "store", "unlock", "reply"}
  /\ r.cmd = local[w].cmd /\ r.user = local[w].user /\ r.doc = local[w].doc
  /\ DOMAIN doc' = DOMAIN doc
  /\ \A x \in DOMAIN doc : x # local[w].doc => doc'[x] = doc[x]
  /\ doc'[local[w].doc] \in DocRec
  /\ local[w].pc = "lock" => doc[local[w].doc].mutex = Nobody
  /\ doc'[local[w].doc].mutex = IF r.pc = "reply" THEN Nobody ELSE w

(* The document that a session edits.                                      *)
LEMMA EditedDocument ==
  ASSUME TypeOK, EditorsHoldMutexes, NEW w \in Workers,
         local[w].pc \in {"lock", "load", "store", "unlock"}, local[w].doc \in DOMAIN doc
  PROVE  /\ local[w] \in LocalRec
         /\ doc[local[w].doc] \in DocRec
         /\ doc[local[w].doc].collaborators \in Seq(Users)
         /\ local[w].pc # "lock" => doc[local[w].doc].mutex = w
<1>1. local[w] \in LocalRec /\ doc[local[w].doc] \in DocRec
  BY LocalTypes DEF TypeOK
<1>2. local[w].pc # "lock" => w \in Editing(local[w].doc)
  BY DEF Editing
<1> QED
  BY <1>1, <1>2 DEF EditorsHoldMutexes, DocRec

(* The registers of a worker that edits, with the copy,                    *)
LEMMA RegistersToStore ==
  ASSUME NEW r \in LocalRec, NEW c \in Seq(Users)
  PROVE  LET s == [r EXCEPT !.pc = "store", !.copy = c]
         IN  s \in LocalRec /\ s.pc = "store" /\ s.cmd = r.cmd /\ s.user = r.user /\ s.doc = r.doc
<1>1. "store" \in Pcs
  BY DEF Pcs
<1> QED
  BY <1>1, Zenon DEF LocalRec

(* without it,                                                             *)
LEMMA RegistersToUnlock ==
  ASSUME NEW r \in LocalRec, NEW c \in Seq(Users)
  PROVE  LET s == [r EXCEPT !.pc = "unlock", !.copy = c]
         IN  s \in LocalRec /\ s.pc = "unlock" /\ s.cmd = r.cmd /\ s.user = r.user /\ s.doc = r.doc
<1>1. "unlock" \in Pcs
  BY DEF Pcs
<1> QED
  BY <1>1, Zenon DEF LocalRec

(* and with the answer.                                                    *)
LEMMA RegistersToReply ==
  ASSUME NEW r \in LocalRec
  PROVE  LET s == [r EXCEPT !.pc = "reply", !.reply = "ok"]
         IN  s \in LocalRec /\ s.pc = "reply" /\ s.cmd = r.cmd /\ s.user = r.user /\ s.doc = r.doc
<1>1. "reply" \in Pcs
  BY DEF Pcs
<1> QED
  BY <1>1, Zenon DEF LocalRec

(* Each step of a session is such an edit,                                 *)
LEMMA SessionEdits ==
  ASSUME TypeOK, EditorsHoldMutexes, NEW w \in Workers, StepOf(w), Session(w),
         local[w].doc \in DOMAIN doc
  PROVE  \E r \in LocalRec : Edits(w, r)
<1> DEFINE d == local[w].doc
<1>1. CASE LockDocument(w)
  <2> DEFINE r == [local[w] EXCEPT !.pc = "load"]
  <2>1. local[w].pc = "lock"
    BY <1>1 DEF LockDocument, At
  <2>2. /\ local[w] \in LocalRec /\ d \in DOMAIN doc /\ doc[d] \in DocRec
        /\ doc[d].collaborators \in Seq(Users)
    BY <2>1, EditedDocument
  <2>3. /\ doc[d].mutex = Nobody
        /\ doc' = [doc EXCEPT ![d].mutex = w]
        /\ local' = [local EXCEPT ![w] = r]
        /\ UNCHANGED <<status, bucket, list, cell, history>>
    BY <1>1, <2>2 DEF LockDocument, Goto
  <2>4. /\ DOMAIN doc' = DOMAIN doc
        /\ \A x \in DOMAIN doc : x # d => doc'[x] = doc[x]
        /\ doc'[d] \in DocRec /\ doc'[d].mutex = w
    BY <2>2, <2>3 DEF DocRec
  <2>5. r \in LocalRec /\ r.pc = "load" /\ r.cmd = local[w].cmd /\ r.user = local[w].user /\ r.doc = d
    BY <2>2 DEF LocalRec, Pcs
  <2> HIDE DEF r
  <2> QED
    BY <2>1, <2>2, <2>3, <2>4, <2>5, Zenon DEF Edits
<1>2. CASE LoadCollaborators(w)
  <2> DEFINE r == [local[w] EXCEPT !.pc = "store", !.copy = doc[d].collaborators]
  <2>1. local[w].pc = "load"
    BY <1>2 DEF LoadCollaborators, At
  <2>2. /\ local[w] \in LocalRec /\ d \in DOMAIN doc /\ doc[d] \in DocRec
        /\ doc[d].collaborators \in Seq(Users) /\ doc[d].mutex = w
    BY <2>1, EditedDocument
  <2>3. local' = [local EXCEPT ![w] = r] /\ Reads
    BY <1>2, <2>2 DEF LoadCollaborators
  <2>4. doc' = doc
    BY <2>3 DEF Reads
  <2>5. r \in LocalRec /\ r.pc = "store" /\ r.cmd = local[w].cmd /\ r.user = local[w].user /\ r.doc = d
    <3>1. local[w] \in LocalRec /\ doc[d].collaborators \in Seq(Users)
      BY <2>2
    <3> QED
      BY <3>1, RegistersToStore, Zenon
  <2> HIDE DEF r
  <2> QED
    BY <2>1, <2>2, <2>3, <2>4, <2>5, Zenon DEF Edits, Reads
<1>3. CASE StoreCollaborators(w)
  <2> DEFINE r == [local[w] EXCEPT !.pc = "unlock", !.copy = <<>>]
  <2>1. local[w].pc = "store"
    BY <1>3 DEF StoreCollaborators, At
  <2>2. /\ local[w] \in LocalRec /\ d \in DOMAIN doc /\ doc[d] \in DocRec
        /\ doc[d].mutex = w
    BY <2>1, EditedDocument
  <2>3. /\ doc' = [doc EXCEPT ![d].collaborators = Edited(w)]
        /\ local' = [local EXCEPT ![w] = r]
        /\ UNCHANGED <<status, bucket, list, cell, history>>
    BY <1>3, <2>2 DEF StoreCollaborators
  <2>4. /\ DOMAIN doc' = DOMAIN doc
        /\ \A x \in DOMAIN doc : x # d => doc'[x] = doc[x]
        /\ doc'[d] \in DocRec /\ doc'[d].mutex = w
    BY <2>1, <2>2, <2>3, EditedIsTyped DEF DocRec, TypeOK
  <2>5. r \in LocalRec /\ r.pc = "unlock" /\ r.cmd = local[w].cmd /\ r.user = local[w].user /\ r.doc = d
    <3>1. local[w] \in LocalRec /\ <<>> \in Seq(Users)
      BY <2>2, EmptySeq
    <3> QED
      BY <3>1, RegistersToUnlock, Zenon
  <2> HIDE DEF r
  <2> QED
    BY <2>1, <2>2, <2>3, <2>4, <2>5, Zenon DEF Edits
<1>4. CASE UnlockDocument(w)
  <2> DEFINE r == [local[w] EXCEPT !.pc = "reply", !.reply = "ok"]
  <2>1. local[w].pc = "unlock"
    BY <1>4 DEF UnlockDocument, At
  <2>2. /\ local[w] \in LocalRec /\ d \in DOMAIN doc /\ doc[d] \in DocRec
        /\ doc[d].collaborators \in Seq(Users)
    BY <2>1, EditedDocument
  <2>3. /\ doc' = [doc EXCEPT ![d].mutex = Nobody]
        /\ local' = [local EXCEPT ![w] = r]
        /\ UNCHANGED <<status, bucket, list, cell, history>>
    BY <1>4, <2>2 DEF UnlockDocument, Answer
  <2>4. /\ DOMAIN doc' = DOMAIN doc
        /\ \A x \in DOMAIN doc : x # d => doc'[x] = doc[x]
        /\ doc'[d] \in DocRec /\ doc'[d].mutex = Nobody
    BY <2>2, <2>3 DEF DocRec
  <2>5. r \in LocalRec /\ r.pc = "reply" /\ r.cmd = local[w].cmd /\ r.user = local[w].user /\ r.doc = d
    <3>1. local[w] \in LocalRec
      BY <2>2
    <3> QED
      BY <3>1, RegistersToReply, Zenon
  <2> HIDE DEF r
  <2> QED
    BY <2>1, <2>2, <2>3, <2>4, <2>5, Zenon DEF Edits
<1> QED
  BY <1>1, <1>2, <1>3, <1>4 DEF Session

(* and keeps the mutexes right.                                            *)
LEMMA EditsHoldMutexes ==
  ASSUME TypeOK, EditorsHoldMutexes, NEW w \in Workers, NEW r \in LocalRec, Edits(w, r),
         local[w].doc \in DOMAIN doc
  PROVE  EditorsHoldMutexes'
<1>0. PICK d \in DOMAIN doc : d = local[w].doc
  OBVIOUS
<1>1. local'[w] = r /\ \A v \in Workers : v # w => local'[v] = local[v]
  BY NewRegisters DEF Edits
<1>2. /\ local[w].pc \in {"lock", "load", "store", "unlock"}
      /\ r.pc \in {"load", "store", "unlock", "reply"} /\ r.doc = d
      /\ DOMAIN doc' = DOMAIN doc
      /\ local[w].pc = "lock" => doc[d].mutex = Nobody
      /\ doc'[d].mutex = IF r.pc = "reply" THEN Nobody ELSE w
      /\ \A x \in DOMAIN doc : x # d => doc'[x] = doc[x]
  BY <1>0 DEF Edits
<1>3. \A x : x # d => Editing(x)' = Editing(x)
  BY <1>0, <1>1, <1>2 DEF Editing
<1>4. Editing(d) \subseteq {w}
  <2>1. Editing(d) = IF doc[d].mutex = Nobody THEN {} ELSE {doc[d].mutex}
    BY DEF EditorsHoldMutexes
  <2>2. local[w].pc # "lock" => w \in Editing(d)
    BY <1>0, <1>2 DEF Editing
  <2> QED
    BY <1>2, <2>1, <2>2
<1>5. Editing(d)' = IF r.pc = "reply" THEN {} ELSE {w}
  BY <1>1, <1>2, <1>4 DEF Editing
<1>6. Editing(d)' = IF doc'[d].mutex = Nobody THEN {} ELSE {doc'[d].mutex}
  BY <1>2, <1>5, DocAssumption
<1>7. ASSUME NEW x \in DOMAIN doc, x # d
      PROVE  Editing(x)' = IF doc'[x].mutex = Nobody THEN {} ELSE {doc'[x].mutex}
  <2>1. Editing(x)' = Editing(x) /\ doc'[x] = doc[x]
    BY <1>2, <1>3, <1>7
  <2> QED
    BY <2>1 DEF EditorsHoldMutexes
<1> QED
  BY <1>2, <1>6, <1>7 DEF EditorsHoldMutexes

LEMMA SessionStep ==
  ASSUME StoreInv, NEW w \in Workers, Session(w)
  PROVE  StoreInv'
<1>1. TypeOK /\ EditorsHoldMutexes /\ StepOf(w) /\ local[w].doc \in DOMAIN doc
  <2>1. local[w].pc \in {"lock", "load", "store", "unlock"}
    BY DEF Session, LockDocument, LoadCollaborators, StoreCollaborators, UnlockDocument, At
  <2> QED
    BY <2>1 DEF StoreInv, RegistersOf
<1>2. PICK r \in LocalRec : Edits(w, r)
  BY <1>1, SessionEdits
<1> DEFINE d == local[w].doc
<1>3. /\ local' \in [Workers -> LocalRec]
      /\ local'[w] = r
      /\ \A v \in Workers : v # w => local'[v] = local[v]
  BY <1>1, <1>2, NewRegisters DEF Edits
<1>4. /\ UNCHANGED <<status, bucket, list, cell, history>>
      /\ local[w].pc \in {"lock", "load", "store", "unlock"}
      /\ r.pc \in {"load", "store", "unlock", "reply"}
      /\ r.cmd = local[w].cmd /\ r.user = local[w].user /\ r.doc = d
      /\ DOMAIN doc' = DOMAIN doc /\ doc'[d] \in DocRec
      /\ \A x \in DOMAIN doc : x # d => doc'[x] = doc[x]
  BY <1>2 DEF Edits
<1>5. TypeOK'
  <2>1. DOMAIN doc' \subseteq Docs /\ \A x \in DOMAIN doc' : doc'[x] \in DocRec
    BY <1>1, <1>4 DEF TypeOK
  <2> QED
    BY <1>1, <1>3, <1>4, <2>1 DEF TypeOK
<1>6. EditorsHoldMutexes'
  BY <1>1, <1>2, EditsHoldMutexes
<1>7. StepOf(w)'
  BY <1>1, <1>3, <1>4 DEF StepOf
<1>8. \A order : RegistersOf(w, order)'
  BY <1>1, <1>3, <1>4 DEF StepOf, RegistersOf
<1>9. ChangesAlone'
  BY <1>3, <1>4 DEF StoreInv, ChangesAlone, Busy
<1>10. PICK order \in [1 .. Size -> DOMAIN cell] :
         Chained(order) /\ Anchored(order) /\ \A v \in Workers : RegistersOf(v, order)
  BY DEF StoreInv
<1> QED
  BY <1>1, <1>3, <1>4, <1>5, <1>6, <1>7, <1>8, <1>9, <1>10, QuietStep DEF Counting

-----------------------------------------------------------------------------
(* remove.                                                                 *)

(* The first steps of a sequence that follows the pointers.                *)
Follows(g, start, steps, reverse) ==
  /\ g[0] = start
  /\ \A i \in 1 .. steps :
       g[i] = IF g[i - 1] \notin DOMAIN cell THEN g[i - 1]
              ELSE IF reverse THEN cell[g[i - 1]].prev ELSE cell[g[i - 1]].next

(* Walk goes along any such sequence.                                      *)
LEMMA WalkFollows ==
  ASSUME NEW start, NEW steps \in Nat, NEW reverse, NEW g, Follows(g, start, steps, reverse)
  PROVE  Walk(start, steps, reverse) = g[steps]
<1> /\ g[0] = start
    /\ \A i \in 1 .. steps :
         g[i] = IF g[i - 1] \notin DOMAIN cell THEN g[i - 1]
                ELSE IF reverse THEN cell[g[i - 1]].prev ELSE cell[g[i - 1]].next
  BY DEF Follows
<1> DEFINE F(f) == [i \in 0 .. steps |->
                      IF i = 0 THEN start
                      ELSE IF f[i - 1] \notin DOMAIN cell THEN f[i - 1]
                      ELSE IF reverse THEN cell[f[i - 1]].prev ELSE cell[f[i - 1]].next]
           at == CHOOSE f : f = F(f)
           h == [i \in 0 .. steps |-> g[i]]
<1>1. Walk(start, steps, reverse) = at[steps]
  BY DEF Walk
<1>2. \A i \in 0 .. steps : i # 0 => i \in 1 .. steps /\ i - 1 \in 0 .. steps
  OBVIOUS
<1>3. h = F(h)
  BY <1>2
<1>4. at = F(at)
  BY <1>3, Zenon
<1>5. /\ at[0] = start
      /\ \A i \in 1 .. steps :
           at[i] = IF at[i - 1] \notin DOMAIN cell THEN at[i - 1]
                   ELSE IF reverse THEN cell[at[i - 1]].prev ELSE cell[at[i - 1]].next
  <2> HIDE DEF at
  <2> QED
    BY <1>4
<1> HIDE DEF at
<1> DEFINE S == {i \in Nat : i <= steps => at[i] = g[i]}
<1>6. 0 \in S
  BY <1>5
<1>7. ASSUME NEW i \in Nat, i \in S
      PROVE  i + 1 \in S
  <2>1. CASE i + 1 <= steps
    <3>1. i + 1 \in 1 .. steps /\ (i + 1) - 1 = i /\ at[i] = g[i]
      BY <1>7, <2>1
    <3>2. at[i + 1] = g[i + 1]
      BY <1>5, <3>1
    <3> QED
      BY <3>2
  <2>2. CASE ~ (i + 1 <= steps)
    BY <2>2
  <2> QED
    BY <2>1, <2>2
<1>8. steps \in S
  <2> HIDE DEF S
  <2> QED
    BY <1>6, <1>7, NatSetInduction
<1> QED
  BY <1>1, <1>8

(* From either end of the chain, Walk comes to the entry it is to find.    *)
LEMMA WalkAlongChain ==
  ASSUME NEW order, Chained(order), ~ Linking, Size \in Nat, NEW i \in 0 .. Size - 1
  PROVE  /\ Walk(order[1], i, FALSE) = order[i + 1]
         /\ Walk(order[Size], Size - i - 1, TRUE) = order[i + 1]
<1>1. \A j \in 1 .. Size : order[j] \in DOMAIN cell
  BY DEF Chained
<1>2. Walk(order[1], i, FALSE) = order[i + 1]
  <2> DEFINE g == [j \in 0 .. i |-> order[j + 1]]
             back == FALSE
  <2>1. g[0] = order[1] /\ g[i] = order[i + 1]
    OBVIOUS
  <2>2. ASSUME NEW j \in 1 .. i
        PROVE  g[j] = IF g[j - 1] \notin DOMAIN cell THEN g[j - 1]
                      ELSE IF back THEN cell[g[j - 1]].prev ELSE cell[g[j - 1]].next
    <3>1. g[j] = order[j + 1] /\ g[j - 1] = order[j] /\ j \in 1 .. Size /\ j # Size
      BY <2>2
    <3>2. cell[order[j]].next = order[j + 1]
      BY <3>1 DEF Chained
    <3> HIDE DEF g
    <3> QED
      BY <1>1, <3>1, <3>2
  <2>3. i \in Nat
    OBVIOUS
  <2> HIDE DEF g, back
  <2>4. Follows(g, order[1], i, back)
    BY <2>1, <2>2 DEF Follows
  <2>5. Walk(order[1], i, back) = g[i]
    BY <2>3, <2>4, WalkFollows
  <2> QED
    BY <2>1, <2>5 DEF back
<1>3. Walk(order[Size], Size - i - 1, TRUE) = order[i + 1]
  <2> DEFINE k == Size - i - 1
             g == [j \in 0 .. k |-> order[Size - j]]
             back == TRUE
  <2>1. k \in Nat /\ Size - k = i + 1
    OBVIOUS
  <2>2. g[0] = order[Size] /\ g[k] = order[i + 1]
    BY <2>1
  <2>3. ASSUME NEW j \in 1 .. k
        PROVE  g[j] = IF g[j - 1] \notin DOMAIN cell THEN g[j - 1]
                      ELSE IF back THEN cell[g[j - 1]].prev ELSE cell[g[j - 1]].next
    <3> DEFINE p == Size - j
    <3>1. g[j] = order[p] /\ g[j - 1] = order[p + 1] /\ p + 1 \in 1 .. Size /\ p + 1 # 1
          /\ (p + 1) - 1 = p
      BY <2>3
    <3> HIDE DEF p, g
    <3>2. cell[order[p + 1]].prev = order[p]
      BY <3>1 DEF Chained
    <3> QED
      BY <1>1, <3>1, <3>2
  <2> HIDE DEF g, k, back
  <2>4. Follows(g, order[Size], k, back)
    BY <2>2, <2>3 DEF Follows
  <2>5. Walk(order[Size], k, back) = g[k]
    BY <2>1, <2>4, WalkFollows
  <2> QED
    BY <2>2, <2>5 DEF k, back
<1> QED
  BY <1>2, <1>3

LEMMA LocateEntryStep ==
  ASSUME StoreInv, NEW w \in Workers, LocateEntry(w)
  PROVE  StoreInv'
<1> DEFINE l == list[local[w].list]
           i == local[w].index
           e == IF i < l.length \div 2 THEN Walk(l.head, i, FALSE)
                                       ELSE Walk(l.tail, l.length - i - 1, TRUE)
<1>1. local[w].pc = "locate" /\ local[w] \in LocalRec
  BY LocalTypes DEF LocateEntry, At, StoreInv
<1>2. PICK order \in [1 .. Size -> DOMAIN cell] :
        Chained(order) /\ Anchored(order) /\ \A v \in Workers : RegistersOf(v, order)
  BY DEF StoreInv
<1>3. Size \in Nat /\ i \in 0 .. Size - 1 /\ ~ Linking
      /\ bucket # Null /\ local[w].list = bucket
  BY <1>1, <1>2, SizeIsNatural, LookupsAreQuiet DEF RegistersOf, Counting
<1>4. l.length = Size /\ l.head = order[1] /\ l.tail = order[Size]
  <2>1. Size > 0
    BY <1>3
  <2> QED
    BY <1>1, <1>2, <1>3, <2>1, LookupsAreQuiet DEF Anchored, Counting
<1>5. e = order[i + 1]
  <2>1. e = IF i < Size \div 2 THEN Walk(order[1], i, FALSE)
                               ELSE Walk(order[Size], Size - i - 1, TRUE)
    BY <1>4
  <2>2. /\ Walk(order[1], i, FALSE) = order[i + 1]
        /\ Walk(order[Size], Size - i - 1, TRUE) = order[i + 1]
    BY <1>2, <1>3, WalkAlongChain
  <2> HIDE DEF e, i
  <2> QED
    BY <2>1, <2>2
<1>6. e \in DOMAIN cell
  <2>1. i + 1 \in 1 .. Size
    BY <1>3
  <2> HIDE DEF e, i
  <2> QED
    BY <1>2, <1>5, <2>1
<1> DEFINE r == [local[w] EXCEPT !.pc = "freeDoc", !.cell = e]
<1>7. Reads /\ local' = [local EXCEPT ![w] = r]
  <2>1. ~ (i >= l.length)
    BY <1>3, <1>4
  <2> QED
    BY <1>6, <2>1 DEF LocateEntry
<1> HIDE DEF e
<1>8. r \in LocalRec
  <2>1. e \in Cells /\ "freeDoc" \in Pcs
    BY <1>6 DEF StoreInv, TypeOK, Pcs
  <2> QED
    BY <1>1, <2>1 DEF LocalRec
<1>9. local'[w] = r
  BY <1>7, <1>8, NewRegisters DEF StoreInv
<1>10. /\ r.pc = "freeDoc" /\ r.cmd = local[w].cmd /\ r.user = local[w].user
       /\ r.list = local[w].list /\ r.cell = e
  BY <1>1 DEF LocalRec
<1> HIDE DEF r
<1>11. StepOf(w)'
  BY <1>1, <1>9, <1>10 DEF StepOf, StoreInv
<1>12. \A ord : RegistersOf(w, ord)'
  BY <1>3, <1>6, <1>7, <1>9, <1>10 DEF RegistersOf, Reads
<1> QED
  BY <1>1, <1>7, <1>8, <1>10, <1>11, <1>12, ReadStep DEF Busy, Counting

(* Nobody else runs anything while a worker removes or adds.               *)
LEMMA OthersAreIdle ==
  ASSUME StoreInv, NEW w \in Workers, local[w].cmd \in Change
  PROVE  \A v \in Workers : v # w => local[v].pc = "idle" /\ local[v].cmd = "none"
BY DEF StoreInv, ChangesAlone, StepOf, Busy

(* So the others do not disturb the invariant: a step of the change has to *)
(* show what it does to the list and to its own registers only.            *)
LEMMA ChangeStep ==
  ASSUME StoreInv, TypeOK', NEW w \in Workers, NEW r \in LocalRec,
         local' = [local EXCEPT ![w] = r], status' = status,
         local[w].cmd \in Change, r.cmd = local[w].cmd, r.pc # "idle",
         r.pc \notin {"load", "store", "unlock"},
         local[w].pc \notin {"load", "store", "unlock"},
         \A x \in DOMAIN doc' : x \in DOMAIN doc /\ doc'[x] = doc[x],
         StepOf(w)', OwnDocuments',
         NEW order, Chained(order)', Anchored(order)', RegistersOf(w, order)'
  PROVE  StoreInv'
<1>1. /\ local' \in [Workers -> LocalRec]
      /\ local'[w] = r
      /\ \A v \in Workers : v # w => local'[v] = local[v]
  BY NewRegisters DEF StoreInv
<1>2. \A v \in Workers : v # w => local'[v].pc = "idle" /\ local'[v].cmd = "none"
  BY <1>1, OthersAreIdle
<1>3. ChangesAlone'
  BY <1>1, <1>2 DEF ChangesAlone, Busy, Change
<1>4. \A v \in Workers : StepOf(v)'
  BY <1>2 DEF StepOf
<1>5. \A v \in Workers : RegistersOf(v, order)'
  BY <1>2 DEF RegistersOf
<1>6. EditorsHoldMutexes'
  <2>1. \A x : Editing(x) = {} /\ Editing(x)' = {}
    BY <1>1, <1>2, OthersAreIdle DEF Editing
  <2> QED
    BY <2>1 DEF StoreInv, EditorsHoldMutexes
<1>7. order \in [1 .. Size' -> DOMAIN cell']
  BY DEF Chained
<1>8. Runs'
  BY DEF StoreInv, Runs
<1> QED
  BY <1>3, <1>4, <1>5, <1>6, <1>7, <1>8 DEF StoreInv

LEMMA FreeDocumentStep ==
  ASSUME StoreInv, NEW w \in Workers, FreeDocument(w)
  PROVE  StoreInv'
<1> DEFINE e == local[w].cell
           r == [local[w] EXCEPT !.pc = "unlink"]
<1>1. /\ local[w].pc = "freeDoc" /\ local[w] \in LocalRec
      /\ local[w].cmd = "remove" /\ e \in DOMAIN cell
  BY LocalTypes DEF FreeDocument, At, StoreInv, StepOf, RegistersOf
<1>2. \A f \in DOMAIN cell : cell[f].doc \in DOMAIN doc
  BY <1>1, LookupsAreQuiet DEF Counting
<1>3. /\ documentFree(cell[e].doc)
      /\ local' = [local EXCEPT ![w] = r]
      /\ UNCHANGED <<status, bucket, list, cell, history>>
  BY <1>1, <1>2 DEF FreeDocument, Alive, Goto
<1>4. r \in LocalRec
  BY <1>1 DEF LocalRec, Pcs
<1>5. /\ local' \in [Workers -> LocalRec]
      /\ local'[w] = r
      /\ \A v \in Workers : v # w => local'[v] = local[v]
  BY <1>3, <1>4, NewRegisters DEF StoreInv
<1>6. /\ r.pc = "unlink" /\ r.cmd = local[w].cmd /\ r.user = local[w].user
      /\ r.list = local[w].list /\ r.cell = e
  BY <1>1 DEF LocalRec
<1> HIDE DEF r, e
<1>7. /\ DOMAIN doc' = DOMAIN doc \ {cell[e].doc}
      /\ \A x \in DOMAIN doc' : x \in DOMAIN doc /\ doc'[x] = doc[x]
  BY <1>3 DEF documentFree
<1>8. TypeOK'
  BY <1>3, <1>5, <1>7 DEF StoreInv, TypeOK
<1>9. OwnDocuments'
  <2>1. ASSUME NEW f \in DOMAIN cell, f # e
        PROVE  cell[f].doc \in DOMAIN doc'
    BY <1>1, <1>2, <1>7, <2>1 DEF StoreInv, OwnDocuments
  <2>2. local'[w].pc = "unlink" /\ local'[w].cell = e
    BY <1>5, <1>6
  <2> QED
    BY <1>3, <2>1, <2>2 DEF StoreInv, OwnDocuments
<1>10. StepOf(w)'
  BY <1>1, <1>5, <1>6 DEF StepOf
<1>11. PICK order \in [1 .. Size -> DOMAIN cell] :
         Chained(order) /\ Anchored(order) /\ \A v \in Workers : RegistersOf(v, order)
  BY DEF StoreInv
<1>12. Chained(order)' /\ Anchored(order)'
  <2>1. \A v \in Workers :
          /\ local'[v].pc = "link" <=> local[v].pc = "link"
          /\ local'[v].pc = "alone" <=> local[v].pc = "alone"
          /\ local'[v].pc \in Counting <=> local[v].pc \in Counting
          /\ local[v].pc \in Counting => local'[v].cmd = local[v].cmd
    BY <1>1, <1>5, <1>6 DEF Counting
  <2> QED
    BY <1>3, <1>11, <2>1, ShapeKept
<1>13. RegistersOf(w, order)'
  BY <1>1, <1>3, <1>5, <1>6, <1>11 DEF RegistersOf
<1> QED
  BY <1>1, <1>3, <1>4, <1>6, <1>7, <1>8, <1>9, <1>10, <1>12, <1>13, ChangeStep DEF Change

(* The place in a chain of what has place i once the p-th entry is gone.   *)
Old(p, i) == IF i < p THEN i ELSE i + 1

Without(order, p) == [i \in 1 .. Size - 1 |-> order[Old(p, i)]]

(* The entry e leaves the list.                                            *)
Unlinks(e) ==
  cell' = [x \in DOMAIN cell \ {e} |->
             [cell[x] EXCEPT !.next = IF x = cell[e].prev THEN cell[e].next ELSE @,
                             !.prev = IF x = cell[e].next THEN cell[e].prev ELSE @]]

(* The places of a chain of s entries.                                     *)
LEMMA OldPlaces ==
  ASSUME NEW s \in Nat, NEW p \in 1 .. s
  PROVE  /\ \A i \in 1 .. s - 1 :
              /\ Old(p, i) \in 1 .. s /\ Old(p, i) # p
              /\ i = p => Old(p, i) = p + 1 /\ (i # 1 => Old(p, i - 1) = p - 1)
              /\ i # p => /\ Old(p, i) # p + 1
                          /\ i # 1 => Old(p, i - 1) = Old(p, i) - 1
                          /\ Old(p, i) = 1 <=> i = 1
              /\ i = p - 1 => /\ Old(p, i) = p - 1 /\ (i # s - 1 => Old(p, i + 1) = p + 1)
                              /\ i = s - 1 <=> p = s
              /\ i # p - 1 => /\ Old(p, i) # p - 1
                              /\ i # s - 1 => Old(p, i + 1) = Old(p, i) + 1
                              /\ Old(p, i) = s <=> i = s - 1
              /\ i # 1 => i - 1 \in 1 .. s - 1
              /\ i # s - 1 => i + 1 \in 1 .. s - 1
         /\ \A q \in 1 .. s : q # p => \E i \in 1 .. s - 1 : Old(p, i) = q
<1>1. \A i \in 1 .. s - 1 :
        /\ Old(p, i) \in 1 .. s /\ Old(p, i) # p
        /\ i = p => Old(p, i) = p + 1 /\ (i # 1 => Old(p, i - 1) = p - 1)
        /\ i # p => /\ Old(p, i) # p + 1
                    /\ i # 1 => Old(p, i - 1) = Old(p, i) - 1
                    /\ Old(p, i) = 1 <=> i = 1
  BY DEF Old
<1>2. \A i \in 1 .. s - 1 :
        /\ i = p - 1 => /\ Old(p, i) = p - 1 /\ (i # s - 1 => Old(p, i + 1) = p + 1)
                        /\ i = s - 1 <=> p = s
        /\ i # p - 1 => /\ Old(p, i) # p - 1
                        /\ i # s - 1 => Old(p, i + 1) = Old(p, i) + 1
                        /\ Old(p, i) = s <=> i = s - 1
        /\ i # 1 => i - 1 \in 1 .. s - 1
        /\ i # s - 1 => i + 1 \in 1 .. s - 1
  BY DEF Old
<1>3. ASSUME NEW q \in 1 .. s, q # p
      PROVE  \E i \in 1 .. s - 1 : Old(p, i) = q
  <2>1. CASE q < p
    <3>1. q \in 1 .. s - 1 /\ Old(p, q) = q
      BY <2>1 DEF Old
    <3> QED
      BY <3>1
  <2>2. CASE q > p
    <3>1. q - 1 \in 1 .. s - 1 /\ Old(p, q - 1) = q
      BY <2>2 DEF Old
    <3> QED
      BY <3>1
  <2> QED
    BY <1>3, <2>1, <2>2
<1> QED
  BY <1>1, <1>2, <1>3

(* No two entries had the same place.                                      *)
LEMMA OldPlacesDiffer ==
  ASSUME NEW p \in Nat, NEW i \in Nat, NEW j \in Nat, Old(p, i) = Old(p, j)
  PROVE  i = j
BY DEF Old

(* The places next to the p-th in a chain.                                 *)
LEMMA NextPlaces ==
  ASSUME NEW s \in Nat, NEW p \in 1 .. s
  PROVE  /\ p # s => p + 1 \in 1 .. s
         /\ p # 1 => p - 1 \in 1 .. s
         /\ \A i \in 1 .. s : (p = s => i # p + 1) /\ (p = 1 => i # p - 1)
OBVIOUS

(* What is left of a chain when an entry is unlinked is a chain.           *)
LEMMA UnlinkedChain ==
  ASSUME NEW order, Chained(order), ~ Linking, ~ Linking', TypeOK,
         Size \in Nat, Size' = Size - 1, NEW p \in 1 .. Size,
         NEW e, e = order[p], Unlinks(e), NEW new, new = Without(order, p)
  PROVE  Chained(new)'
<1>1. \A i \in 1 .. Size - 1 :
        Old(p, i) \in 1 .. Size /\ Old(p, i) # p /\ new[i] = order[Old(p, i)]
  BY OldPlaces DEF Without
<1>2. \A i \in 1 .. Size : order[i] \in DOMAIN cell /\ (i # p => order[i] # e) /\ order[i] # Null
  <2>1. \A i \in 1 .. Size : order[i] \in DOMAIN cell /\ (i # p => order[i] # e)
    BY DEF Chained
  <2> QED
    BY <2>1, DocAssumption DEF TypeOK
<1>3. DOMAIN cell' = DOMAIN cell \ {e}
  BY Zenon DEF Unlinks
<1>4. new \in [1 .. Size' -> DOMAIN cell']
  <2>1. \A i \in 1 .. Size - 1 : order[Old(p, i)] \in DOMAIN cell'
    BY <1>1, <1>2, <1>3
  <2> QED
    BY <2>1 DEF Without
<1>5. \A i, j \in 1 .. Size - 1 : new[i] = new[j] => i = j
  <2> TAKE i, j \in 1 .. Size - 1
  <2> HAVE new[i] = new[j]
  <2>1. order[Old(p, i)] = order[Old(p, j)] /\ Old(p, i) \in 1 .. Size /\ Old(p, j) \in 1 .. Size
    BY <1>1
  <2>2. Old(p, i) = Old(p, j)
    BY <2>1 DEF Chained
  <2>3. i \in Nat /\ j \in Nat /\ p \in Nat
    OBVIOUS
  <2> QED
    BY <2>2, <2>3, OldPlacesDiffer
<1>6. \A x \in DOMAIN cell' : \E i \in 1 .. Size' : new[i] = x
  <2> TAKE x \in DOMAIN cell'
  <2>1. PICK q \in 1 .. Size : order[q] = x
    BY <1>3 DEF Chained
  <2>2. q # p
    BY <1>3, <2>1
  <2>3. PICK i \in 1 .. Size - 1 : Old(p, i) = q
    BY <2>2, OldPlaces
  <2>4. new[i] = x
    BY <1>1, <2>1, <2>3
  <2> QED
    BY <2>4
<1>7. \A x \in DOMAIN cell' :
        /\ cell'[x].next = IF x = cell[e].prev THEN cell[e].next ELSE cell[x].next
        /\ cell'[x].prev = IF x = cell[e].next THEN cell[e].prev ELSE cell[x].prev
  BY <1>3, Zenon DEF Unlinks, TypeOK, CellRec
<1>8. \A i \in 1 .. Size :
        /\ cell[order[i]].prev = IF i = 1 THEN Null ELSE order[i - 1]
        /\ cell[order[i]].next = IF i = Size THEN Null ELSE order[i + 1]
  BY DEF Chained
<1>9. /\ cell[e].prev = IF p = 1 THEN Null ELSE order[p - 1]
      /\ cell[e].next = IF p = Size THEN Null ELSE order[p + 1]
  BY <1>8
<1>10. \A i, j \in 1 .. Size : order[i] = order[j] => i = j
  BY DEF Chained
<1>11. \A i \in 1 .. Size :
        /\ order[i] = cell[e].next <=> i = p + 1
        /\ order[i] = cell[e].prev <=> i = p - 1
  <2> TAKE i \in 1 .. Size
  <2>1. order[i] = cell[e].next <=> i = p + 1
    <3>1. CASE p = Size
      BY <1>2, <1>9, <3>1, NextPlaces
    <3>2. CASE p # Size
      BY <1>9, <1>10, <3>2, NextPlaces
    <3> QED
      BY <3>1, <3>2
  <2>2. order[i] = cell[e].prev <=> i = p - 1
    <3>1. CASE p = 1
      BY <1>2, <1>9, <3>1, NextPlaces
    <3>2. CASE p # 1
      BY <1>9, <1>10, <3>2, NextPlaces
    <3> QED
      BY <3>1, <3>2
  <2> QED
    BY <2>1, <2>2
<1>12. ASSUME NEW i \in 1 .. Size - 1
       PROVE  cell'[new[i]].prev = IF i = 1 THEN Null ELSE new[i - 1]
  <2>1. new[i] \in DOMAIN cell' /\ new[i] = order[Old(p, i)] /\ Old(p, i) \in 1 .. Size
    BY <1>1, <1>4
  <2>2. i # 1 => new[i - 1] = order[Old(p, i - 1)]
    BY <1>1, OldPlaces
  <2>3. CASE i = p
    <3>1. Old(p, i) = p + 1 /\ (i # 1 => Old(p, i - 1) = p - 1)
      BY <2>3, OldPlaces
    <3>2. cell'[new[i]].prev = cell[e].prev
      BY <1>7, <1>11, <2>1, <3>1
    <3> QED
      BY <1>9, <2>2, <2>3, <3>1, <3>2
  <2>4. CASE i # p
    <3>1. Old(p, i) # p + 1 /\ (i # 1 => Old(p, i - 1) = Old(p, i) - 1) /\ (Old(p, i) = 1 <=> i = 1)
      BY <2>4, OldPlaces
    <3>2. cell'[new[i]].prev = cell[order[Old(p, i)]].prev
      BY <1>7, <1>11, <2>1, <3>1
    <3> QED
      BY <1>8, <2>1, <2>2, <3>1, <3>2
  <2> QED
    BY <2>3, <2>4
<1>13. ASSUME NEW i \in 1 .. Size - 1
       PROVE  cell'[new[i]].next = IF i = Size - 1 THEN Null ELSE new[i + 1]
  <2>1. new[i] \in DOMAIN cell' /\ new[i] = order[Old(p, i)] /\ Old(p, i) \in 1 .. Size
    BY <1>1, <1>4
  <2>2. i # Size - 1 => new[i + 1] = order[Old(p, i + 1)]
    BY <1>1, OldPlaces
  <2>3. CASE i = p - 1
    <3>1. Old(p, i) = p - 1 /\ (i # Size - 1 => Old(p, i + 1) = p + 1) /\ (i = Size - 1 <=> p = Size)
      BY <2>3, OldPlaces
    <3>2. cell'[new[i]].next = cell[e].next
      BY <1>7, <1>11, <2>1, <3>1
    <3> QED
      BY <1>9, <2>2, <2>3, <3>1, <3>2
  <2>4. CASE i # p - 1
    <3>1. /\ Old(p, i) # p - 1 /\ (i # Size - 1 => Old(p, i + 1) = Old(p, i) + 1)
          /\ Old(p, i) = Size <=> i = Size - 1
      BY <2>4, OldPlaces
    <3>2. cell'[new[i]].next = cell[order[Old(p, i)]].next
      BY <1>7, <1>11, <2>1, <3>1
    <3> QED
      BY <1>8, <2>1, <2>2, <3>1, <3>2
  <2> QED
    BY <2>3, <2>4
<1> QED
  BY <1>4, <1>5, <1>6, <1>12, <1>13 DEF Chained

LEMMA UnlinkEntryStep ==
  ASSUME StoreInv, NEW w \in Workers, UnlinkEntry(w)
  PROVE  StoreInv'
<1>1. PICK e : e = local[w].cell
  OBVIOUS
<1> DEFINE r == [local[w] EXCEPT !.pc = "count"]
           ends == [list[bucket] EXCEPT !.head = IF @ = e THEN cell[e].next ELSE @,
                                        !.tail = IF @ = e THEN cell[e].prev ELSE @]
<1>2. /\ local[w].pc = "unlink" /\ local[w] \in LocalRec /\ local[w].cmd = "remove"
      /\ e \in DOMAIN cell /\ bucket # Null /\ local[w].list = bucket /\ status = "running"
  BY <1>1, LocalTypes, Zenon DEF UnlinkEntry, At, StoreInv, StepOf, RegistersOf
<1>3. PICK order \in [1 .. Size -> DOMAIN cell] :
        Chained(order) /\ Anchored(order) /\ \A v \in Workers : RegistersOf(v, order)
  BY DEF StoreInv
<1>4. \A v \in Workers : v # w => local[v].pc = "idle" /\ local[v].cmd = "none"
  BY <1>2, OthersAreIdle DEF Change
<1>5. Size \in Nat /\ ~ Linking
  BY <1>2, <1>4, SizeIsNatural DEF Linking
<1>6. PICK p \in 1 .. Size : order[p] = e
  BY <1>2, <1>3 DEF Chained
<1>7. /\ cell[e].prev = IF p = 1 THEN Null ELSE order[p - 1]
      /\ cell[e].next = IF p = Size THEN Null ELSE order[p + 1]
  BY <1>3, <1>5, <1>6 DEF Chained
<1>8. {cell[e].prev, cell[e].next} \subseteq DOMAIN cell \cup {Null}
  BY <1>3, <1>5, <1>7, NextPlaces
<1>9. /\ Unlinks(e)
      /\ list' = [list EXCEPT ![bucket] = ends]
      /\ local' = [local EXCEPT ![w] = r]
      /\ UNCHANGED <<status, bucket, doc, history>>
  BY <1>1, <1>2, <1>8, Zenon DEF UnlinkEntry, Unlinks, Goto
<1>10. r \in LocalRec
  BY <1>2 DEF LocalRec, Pcs
<1>11. /\ local' \in [Workers -> LocalRec]
       /\ local'[w] = r
       /\ \A v \in Workers : v # w => local'[v] = local[v]
  BY <1>9, <1>10, NewRegisters DEF StoreInv
<1>12. /\ r.pc = "count" /\ r.cmd = local[w].cmd /\ r.user = local[w].user
       /\ r.list = local[w].list
  BY <1>2 DEF LocalRec
<1> HIDE DEF r
<1>13. DOMAIN cell' = DOMAIN cell \ {e} /\ Size' = Size - 1
  <2>1. DOMAIN cell' = DOMAIN cell \ {e}
    BY <1>9, Zenon DEF Unlinks
  <2> QED
    BY <1>2, <2>1, SizeIsNatural, FS_RemoveElement DEF Size
<1>14. PICK new : new = Without(order, p)
  OBVIOUS
<1>15. ~ Linking'
  BY <1>4, <1>11, <1>12 DEF Linking
<1>16. Chained(new)'
  BY <1>3, <1>5, <1>6, <1>9, <1>13, <1>14, <1>15, UnlinkedChain DEF StoreInv
<1>17. bucket \in DOMAIN list /\ list[bucket] \in ListRec
       /\ list[bucket].head = order[1] /\ list[bucket].tail = order[Size]
       /\ list[bucket].length = Size
  <2>1. Size > 0
    BY <1>5, <1>6
  <2>2. (\A v \in Workers : local[v].pc \notin Counting) /\ ~ NoTail
    BY <1>2, <1>4 DEF Counting, NoTail
  <2> QED
    BY <1>2, <1>3, <2>1, <2>2 DEF Anchored, StoreInv, TypeOK
<1>18. /\ DOMAIN list' = DOMAIN list
       /\ list'[bucket].length = Size
       /\ list'[bucket].head = IF order[1] = e THEN cell[e].next ELSE order[1]
       /\ list'[bucket].tail = IF order[Size] = e THEN cell[e].prev ELSE order[Size]
       /\ \A x \in DOMAIN list : x # bucket => list'[x] = list[x]
       /\ list'[bucket] \in ListRec
  <2>1. cell[e].next \in Cells \cup {Null} /\ cell[e].prev \in Cells \cup {Null}
    BY <1>2 DEF StoreInv, TypeOK, CellRec
  <2>2. /\ ends \in ListRec /\ ends.length = Size
        /\ ends.head = IF order[1] = e THEN cell[e].next ELSE order[1]
        /\ ends.tail = IF order[Size] = e THEN cell[e].prev ELSE order[Size]
    BY <1>17, <2>1 DEF ListRec
  <2> HIDE DEF ends
  <2> QED
    BY <1>9, <1>17, <2>2
<1>19. TypeOK'
  <2>1. \A x \in DOMAIN cell' : cell'[x] \in CellRec
    <3>1. cell[e].next \in Cells \cup {Null} /\ cell[e].prev \in Cells \cup {Null}
      BY <1>2 DEF StoreInv, TypeOK, CellRec
    <3>2. \A x \in DOMAIN cell : cell[x] \in CellRec
      BY DEF StoreInv, TypeOK
    <3> QED
      BY <1>9, <1>13, <3>1, <3>2, ZenonT(60) DEF Unlinks, CellRec
  <2>2. \A x \in DOMAIN list' : list'[x] \in ListRec
    BY <1>18 DEF StoreInv, TypeOK
  <2> QED
    BY <1>9, <1>11, <1>13, <1>18, <2>1, <2>2 DEF StoreInv, TypeOK
<1>20. OwnDocuments'
  <2>1. \A x \in DOMAIN cell' : cell'[x].doc = cell[x].doc
    <3>1. \A x \in DOMAIN cell : cell[x] \in CellRec
      BY DEF StoreInv, TypeOK
    <3> QED
      BY <1>9, <1>13, <3>1, Zenon DEF Unlinks, CellRec
  <2>2. \A x \in DOMAIN cell' : cell[x].doc \in DOMAIN doc
    BY <1>1, <1>2, <1>4, <1>13 DEF StoreInv, OwnDocuments
  <2> QED
    BY <1>9, <1>13, <2>1, <2>2 DEF StoreInv, OwnDocuments
<1>21. StepOf(w)'
  BY <1>2, <1>11, <1>12 DEF StepOf, Change
<1>22. RegistersOf(w, new)'
  BY <1>2, <1>9, <1>11, <1>12 DEF RegistersOf
<1>23. Anchored(new)'
  <2>1. Size' > 0 => list'[bucket].head = new[1]
    <3>1. CASE p = 1
      <4>1. Size' > 0 => p # Size /\ 1 \in 1 .. Size - 1 /\ Old(p, 1) = 2
        BY <1>5, <1>13, <3>1 DEF Old
      <4> QED
        BY <1>6, <1>7, <1>14, <1>18, <3>1, <4>1 DEF Without
    <3>2. CASE p # 1
      <4>1. Size' > 0 => 1 \in 1 .. Size /\ 1 \in 1 .. Size - 1 /\ Old(p, 1) = 1
        BY <1>5, <1>13, <3>2 DEF Old
      <4>2. Size' > 0 => order[1] # e
        BY <1>3, <1>6, <3>2, <4>1 DEF Chained
      <4> QED
        BY <1>14, <1>18, <4>1, <4>2 DEF Without
    <3> QED
      BY <3>1, <3>2
  <2>2. Size' > 0 => list'[bucket].tail = new[Size']
    <3>1. CASE p = Size
      <4>1. Size' > 0 => p # 1 /\ Size - 1 \in 1 .. Size - 1 /\ Old(p, Size - 1) = Size - 1
        BY <1>5, <1>13, <3>1 DEF Old
      <4> QED
        BY <1>6, <1>7, <1>13, <1>14, <1>18, <3>1, <4>1 DEF Without
    <3>2. CASE p # Size
      <4>1. Size' > 0 => Size \in 1 .. Size /\ Size - 1 \in 1 .. Size - 1 /\ Old(p, Size - 1) = Size
        BY <1>5, <1>13, <3>2 DEF Old
      <4>2. Size' > 0 => order[Size] # e
        BY <1>3, <1>6, <3>2, <4>1 DEF Chained
      <4> QED
        BY <1>13, <1>14, <1>18, <4>1, <4>2 DEF Without
    <3> QED
      BY <3>1, <3>2
  <2>3. Size' + 1 = Size
    BY <1>5, <1>13
  <2>4. \A v \in Workers : local'[v].pc \in Counting => local'[v].cmd = "remove"
    BY <1>2, <1>4, <1>11, <1>12 DEF Counting
  <2>5. local'[w].pc \in Counting
    BY <1>11, <1>12 DEF Counting
  <2> QED
    BY <1>2, <1>9, <1>17, <1>18, <2>1, <2>2, <2>3, <2>4, <2>5 DEF Anchored
<1> QED
  BY <1>2, <1>9, <1>10, <1>12, <1>16, <1>19, <1>20, <1>21, <1>22, <1>23, ChangeStep DEF Change

-----------------------------------------------------------------------------
(* add.                                                                    *)

LEMMA TestBucketStep ==
  ASSUME StoreInv, NEW w \in Workers, TestBucket(w)
  PROVE  StoreInv'
<1>1. PICK pc : pc = IF bucket = Null THEN "create" ELSE "fetch"
  OBVIOUS
<1> DEFINE r == [local[w] EXCEPT !.pc = pc]
<1>2. /\ local[w].pc = "bucket" /\ local[w].cmd = "add" /\ local[w] \in LocalRec
      /\ local' = [local EXCEPT ![w] = r] /\ Reads
  BY <1>1, LocalTypes DEF TestBucket, At, StoreInv, Goto
<1>3. r \in LocalRec
  BY <1>1, <1>2 DEF LocalRec, Pcs
<1>4. local'[w] = r
  BY <1>2, <1>3, NewRegisters DEF StoreInv
<1>5. /\ r.pc = pc /\ r.cmd = local[w].cmd /\ r.user = local[w].user
      /\ r.doc = local[w].doc
  BY <1>2 DEF LocalRec
<1> HIDE DEF r
<1>6. StepOf(w)'
  BY <1>1, <1>2, <1>4, <1>5 DEF StepOf
<1>7. \A order : RegistersOf(w, order) => RegistersOf(w, order)'
  BY <1>1, <1>2, <1>4, <1>5 DEF RegistersOf, Reads
<1> QED
  BY <1>1, <1>2, <1>3, <1>5, <1>6, <1>7, ReadStep DEF Busy, Counting

LEMMA FetchListStep ==
  ASSUME StoreInv, NEW w \in Workers, FetchList(w)
  PROVE  StoreInv'
<1> DEFINE r == [local[w] EXCEPT !.pc = "append", !.list = bucket]
<1>1. /\ local[w].pc = "fetch" /\ local[w].cmd = "add" /\ local[w] \in LocalRec
      /\ local' = [local EXCEPT ![w] = r] /\ Reads /\ bucket # Null
  BY LocalTypes DEF FetchList, At, StoreInv, StepOf, RegistersOf
<1>2. r \in LocalRec
  <2>1. bucket \in Lists \cup {Null} /\ "append" \in Pcs
    BY DEF StoreInv, TypeOK, Pcs
  <2> QED
    BY <1>1, <2>1 DEF LocalRec
<1>3. local'[w] = r
  BY <1>1, <1>2, NewRegisters DEF StoreInv
<1>4. /\ r.pc = "append" /\ r.cmd = local[w].cmd /\ r.user = local[w].user
      /\ r.doc = local[w].doc /\ r.list = bucket
  BY <1>1 DEF LocalRec
<1> HIDE DEF r
<1>5. StepOf(w)'
  BY <1>1, <1>3, <1>4 DEF StepOf
<1>6. \A order : RegistersOf(w, order) => RegistersOf(w, order)'
  BY <1>1, <1>3, <1>4 DEF RegistersOf, Reads
<1> QED
  BY <1>1, <1>2, <1>4, <1>5, <1>6, ReadStep DEF Busy, Counting

LEMMA CreateListStep ==
  ASSUME StoreInv, NEW w \in Workers, CreateList(w)
  PROVE  StoreInv'
<1> DEFINE r == [local[w] EXCEPT !.pc = "fetch"]
           empty == [length |-> 0, head |-> Null, tail |-> Null]
<1>1. PICK l \in Lists \ DOMAIN list :
        /\ list' = [x \in DOMAIN list \cup {l} |-> IF x = l THEN empty ELSE list[x]]
        /\ bucket' = l
        /\ Goto(w, "fetch")
  BY DEF CreateList
<1>2. /\ local[w].pc = "create" /\ local[w].cmd = "add" /\ local[w] \in LocalRec
      /\ local' = [local EXCEPT ![w] = r] /\ bucket = Null
      /\ UNCHANGED <<status, cell, doc, history>>
  BY <1>1, LocalTypes DEF CreateList, At, Goto, StoreInv, StepOf, RegistersOf
<1>3. r \in LocalRec
  BY <1>2 DEF LocalRec, Pcs
<1>4. /\ local' \in [Workers -> LocalRec]
      /\ local'[w] = r
      /\ \A v \in Workers : v # w => local'[v] = local[v]
  BY <1>2, <1>3, NewRegisters DEF StoreInv
<1>5. /\ r.pc = "fetch" /\ r.cmd = local[w].cmd /\ r.user = local[w].user
      /\ r.doc = local[w].doc
  BY <1>2 DEF LocalRec
<1> HIDE DEF r
<1>6. empty \in ListRec /\ empty.length = 0
  BY DocAssumption DEF ListRec
<1> HIDE DEF empty
<1>7. TypeOK'
  <2>1. DOMAIN list' = DOMAIN list \cup {l} /\ \A x \in DOMAIN list' : list'[x] \in ListRec
    BY <1>1, <1>6 DEF StoreInv, TypeOK
  <2> QED
    BY <1>1, <1>2, <1>4, <2>1 DEF StoreInv, TypeOK
<1>8. PICK order \in [1 .. Size -> DOMAIN cell] :
        Chained(order) /\ Anchored(order) /\ \A v \in Workers : RegistersOf(v, order)
  BY DEF StoreInv
<1>9. Size = 0 /\ Size' = Size
  BY <1>2, <1>8 DEF Anchored, Size
<1>10. /\ \A v \in Workers : local[v].pc \notin Counting
       /\ \A v \in Workers : local'[v].pc \notin Counting
  BY <1>2, <1>4, <1>5, LookupsAreQuiet DEF Counting
<1>11. Chained(order)'
  BY <1>2, <1>8, <1>9 DEF Chained
<1>12. Anchored(order)'
  <2>1. l \in DOMAIN list' /\ list'[l].length = 0
    BY <1>1, <1>6
  <2> QED
    BY <1>1, <1>9, <1>10, <2>1, DocAssumption DEF Anchored
<1>13. l # Null
  BY DocAssumption
<1>14. RegistersOf(w, order)'
  BY <1>1, <1>2, <1>4, <1>5, <1>8, <1>13 DEF RegistersOf
<1>15. StepOf(w)'
  BY <1>2, <1>4, <1>5 DEF StepOf
<1>16. OwnDocuments'
  BY <1>2, LookupsAreQuiet DEF StoreInv, OwnDocuments, Counting
<1> QED
  BY <1>2, <1>3, <1>5, <1>7, <1>11, <1>12, <1>14, <1>15, <1>16, ChangeStep DEF Change

(* The length tells whether there are entries.                             *)
LEMMA TestLengthStep ==
  ASSUME StoreInv, NEW w \in Workers, TestLength(w)
  PROVE  StoreInv'
<1>1. /\ local[w].pc = "append" /\ local[w].cmd = "add" /\ local[w] \in LocalRec /\ Reads
      /\ bucket # Null /\ local[w].list = bucket
  BY LocalTypes DEF TestLength, At, StoreInv, StepOf, RegistersOf
<1>2. PICK pc \in {"first", "behind"} :
        Goto(w, pc) /\ (pc = "first" <=> list[bucket].length = 0)
  BY <1>1 DEF TestLength
<1> DEFINE r == [local[w] EXCEPT !.pc = pc]
<1>3. local' = [local EXCEPT ![w] = r] /\ r \in LocalRec
  BY <1>1, <1>2 DEF Goto, LocalRec, Pcs
<1>4. /\ r.pc = pc /\ r.cmd = local[w].cmd /\ r.user = local[w].user
      /\ r.list = local[w].list /\ r.doc = local[w].doc
  BY <1>1 DEF LocalRec
<1> HIDE DEF r
<1>5. local'[w] = r
  BY <1>3, NewRegisters DEF StoreInv
<1>6. StepOf(w)'
  BY <1>1, <1>4, <1>5 DEF StepOf
<1>7. ASSUME NEW order, Chained(order), Anchored(order), RegistersOf(w, order)
      PROVE  RegistersOf(w, order)'
  <2>1. Size' = Size /\ UNCHANGED <<bucket, cell, doc>>
    BY <1>1 DEF Size, Reads
  <2>2. list[bucket].length = Size /\ Size \in Nat
    BY <1>1, <1>7, LookupsAreQuiet, SizeIsNatural DEF Anchored, Counting
  <2> QED
    BY <1>1, <1>2, <1>4, <1>5, <1>7, <2>1, <2>2 DEF RegistersOf
<1> QED
  BY <1>1, <1>3, <1>4, <1>6, <1>7, ReadStep DEF Busy, Counting

LEMMA ReadTailStep ==
  ASSUME StoreInv, NEW w \in Workers, ReadTail(w)
  PROVE  StoreInv'
<1> DEFINE tail == list[bucket].tail
           r == [local[w] EXCEPT !.pc = "last", !.cell = tail]
<1>1. /\ local[w].pc = "behind" /\ local[w].cmd = "add" /\ local[w] \in LocalRec /\ Reads
      /\ bucket # Null /\ local[w].list = bucket
  BY LocalTypes DEF ReadTail, At, StoreInv, StepOf, RegistersOf
<1>2. tail \in Cells \cup {Null}
  BY <1>1 DEF StoreInv, TypeOK, ListRec
<1>3. local' = [local EXCEPT ![w] = r]
  BY <1>1 DEF ReadTail
<1> HIDE DEF tail
<1>4. r \in LocalRec
  BY <1>1, <1>2 DEF LocalRec, Pcs
<1>5. /\ r.pc = "last" /\ r.cmd = local[w].cmd /\ r.user = local[w].user
      /\ r.list = local[w].list /\ r.doc = local[w].doc /\ r.cell = tail
  BY <1>1 DEF LocalRec
<1> HIDE DEF r
<1>6. local'[w] = r
  BY <1>3, <1>4, NewRegisters DEF StoreInv
<1>7. StepOf(w)'
  BY <1>1, <1>5, <1>6 DEF StepOf
<1>8. ASSUME NEW order, Chained(order), Anchored(order), RegistersOf(w, order)
      PROVE  RegistersOf(w, order)'
  <2>1. Size' = Size /\ UNCHANGED <<bucket, cell, doc>>
    BY <1>1 DEF Size, Reads
  <2>2. Size > 0 /\ tail = order[Size]
    BY <1>1, <1>8, LookupsAreQuiet DEF Anchored, RegistersOf, Counting, tail
  <2> QED
    BY <1>1, <1>5, <1>6, <1>8, <2>1, <2>2 DEF RegistersOf
<1> QED
  BY <1>1, <1>3, <1>4, <1>5, <1>7, <1>8, ReadStep DEF Busy, Counting

(* The sequence of the entries, with one more.                             *)
With(order, e) == [i \in 1 .. Size + 1 |-> IF i <= Size THEN order[i] ELSE e]

(* A new entry gets into the list, as the only one or behind the last.     *)
Enters(w, e, prev, r, ends) ==
  /\ local[w].pc \in {"first", "last"}
  /\ NewEntry(w, e, prev) /\ prev = IF Size = 0 THEN Null ELSE list[bucket].tail
  /\ local' = [local EXCEPT ![w] = r]
  /\ r.pc = IF Size = 0 THEN "alone" ELSE "link"
  /\ r.cmd = local[w].cmd /\ r.list = bucket /\ r.cell = e
  /\ list' = [list EXCEPT ![bucket] = ends] /\ ends.length = list[bucket].length
  /\ ends.head = IF Size = 0 THEN e ELSE list[bucket].head
  /\ Size # 0 => ends.tail = e
  /\ UNCHANGED <<status, bucket, doc>>

LEMMA NewEntryStep ==
  ASSUME StoreInv, TypeInv', NEW w \in Workers, NEW e \in Cells \ DOMAIN cell, NEW prev,
         NEW r \in LocalRec, NEW ends, Enters(w, e, prev, r, ends)
  PROVE  StoreInv'
<1> USE DEF Enters
<1>1. /\ local[w].cmd = "add" /\ bucket # Null /\ bucket \in DOMAIN list
      /\ local[w].doc \in DOMAIN doc
      /\ \A x \in DOMAIN cell : cell[x].doc # local[w].doc
  BY DEF StoreInv, StepOf, RegistersOf, TypeOK
<1>2. PICK order \in [1 .. Size -> DOMAIN cell] :
        Chained(order) /\ Anchored(order) /\ \A v \in Workers : RegistersOf(v, order)
  BY DEF StoreInv
<1>3. \A v \in Workers : v # w => local[v].pc = "idle" /\ local[v].cmd = "none"
  BY <1>1, OthersAreIdle DEF Change
<1>4. /\ list[bucket].length = Size
      /\ Size > 0 => list[bucket].head = order[1] /\ list[bucket].tail = order[Size]
      /\ Size \in Nat /\ IsFiniteSet(DOMAIN cell) /\ ~ Linking
  BY <1>1, <1>2, LookupsAreQuiet, SizeIsNatural DEF Anchored, Counting
<1> DEFINE new == [next |-> Null, prev |-> prev, key |-> local[w].key, doc |-> local[w].doc]
<1>5. /\ local' \in [Workers -> LocalRec]
      /\ local'[w] = r
      /\ \A v \in Workers : v # w => local'[v] = local[v]
  BY NewRegisters DEF StoreInv
<1>6. prev = IF Size = 0 THEN Null ELSE order[Size]
  BY <1>4
<1>7. cell' = [x \in DOMAIN cell \cup {e} |-> IF x = e THEN new ELSE cell[x]]
  BY DEF NewEntry
<1>8. /\ new.next = Null /\ new.prev = prev /\ new.doc = local[w].doc
  OBVIOUS
<1> HIDE DEF new
<1>9. /\ DOMAIN cell' = DOMAIN cell \cup {e}
      /\ cell'[e] = new
      /\ \A x \in DOMAIN cell : x # e /\ cell'[x] = cell[x]
  BY <1>7
<1>10. DOMAIN list' = DOMAIN list /\ list'[bucket] = ends
  BY <1>1
<1>11. Size' = Size + 1
  BY <1>4, <1>9, FS_AddElement DEF Size
<1>12. TypeOK' /\ StepOf(w)'
  BY DEF TypeInv
<1>13. OwnDocuments'
  <2>1. \A x \in DOMAIN cell : cell[x].doc \in DOMAIN doc
    BY <1>1, LookupsAreQuiet DEF Counting
  <2> QED
    BY <1>1, <1>8, <1>9, <2>1 DEF StoreInv, OwnDocuments
<1>14. PICK longer : longer = With(order, e)
  OBVIOUS
<1>15. (Linking' <=> Size # 0) /\ (NoTail' <=> Size = 0)
  BY <1>3, <1>5 DEF Linking, NoTail
<1>16. /\ longer \in [1 .. Size + 1 -> DOMAIN cell']
       /\ longer[Size + 1] = e
       /\ \A i \in 1 .. Size : longer[i] = order[i] /\ order[i] \in DOMAIN cell /\ order[i] # e
       /\ \A i \in 1 .. Size + 1 : i \in 1 .. Size \/ i = Size + 1
       /\ Size + 1 \in 1 .. Size + 1
       /\ \A i \in 1 .. Size : i \in 1 .. Size + 1
  BY <1>2, <1>4, <1>9, <1>14 DEF With
<1>17. Chained(longer)'
  <2>1. \A i, j \in 1 .. Size + 1 : longer[i] = longer[j] => i = j
    BY <1>2, <1>16 DEF Chained
  <2>2. \A x \in DOMAIN cell' : \E i \in 1 .. Size + 1 : longer[i] = x
    BY <1>2, <1>9, <1>16 DEF Chained
  <2>3. ASSUME NEW i \in 1 .. Size + 1
        PROVE  cell'[longer[i]].prev = IF i = 1 THEN Null ELSE longer[i - 1]
    <3>1. CASE i \in 1 .. Size
      <4>1. cell'[longer[i]] = cell[order[i]] /\ (i # 1 => i - 1 \in 1 .. Size)
        BY <1>4, <1>9, <1>16, <3>1
      <4>2. cell[order[i]].prev = IF i = 1 THEN Null ELSE order[i - 1]
        BY <1>2, <3>1 DEF Chained
      <4> QED
        BY <1>16, <4>1, <4>2
    <3>2. CASE i = Size + 1
      <4>1. cell'[longer[i]].prev = prev /\ i - 1 = Size /\ (i = 1 <=> Size = 0)
            /\ (Size # 0 => Size \in 1 .. Size)
        BY <1>4, <1>8, <1>9, <1>16, <3>2
      <4> QED
        BY <1>6, <1>16, <4>1
    <3> QED
      BY <1>16, <3>1, <3>2
  <2>4. ASSUME NEW i \in 1 .. Size + 1
        PROVE  cell'[longer[i]].next =
                 IF i = Size + 1 \/ i = Size THEN Null ELSE longer[i + 1]
    <3>1. CASE i \in 1 .. Size
      <4>1. /\ cell'[longer[i]] = cell[order[i]] /\ (i # Size => i + 1 \in 1 .. Size)
            /\ i # Size + 1
        BY <1>4, <1>9, <1>16, <3>1
      <4>2. cell[order[i]].next = IF i = Size THEN Null ELSE order[i + 1]
        BY <1>2, <1>4, <3>1 DEF Chained
      <4> QED
        BY <1>16, <4>1, <4>2
    <3>2. CASE i = Size + 1
      BY <1>8, <1>9, <1>16, <3>2
    <3> QED
      BY <1>16, <3>1, <3>2
  <2>5. /\ longer \in [1 .. Size' -> DOMAIN cell']
        /\ \A i, j \in 1 .. Size' : longer[i] = longer[j] => i = j
        /\ \A x \in DOMAIN cell' : \E i \in 1 .. Size' : longer[i] = x
    BY <1>11, <1>16, <2>1, <2>2
  <2>6. \A i \in 1 .. Size' : cell'[longer[i]].prev = IF i = 1 THEN Null ELSE longer[i - 1]
    BY <1>11, <2>3
  <2>7. \A i \in 1 .. Size' : cell'[longer[i]].next =
          IF i = Size' \/ (i = Size' - 1 /\ Linking') THEN Null ELSE longer[i + 1]
    <3>1. Size' - 1 = Size /\ Size' = Size + 1
      BY <1>4, <1>11
    <3>2. \A i \in 1 .. Size + 1 : i = Size => Size # 0
      BY <1>4
    <3> QED
      BY <1>15, <2>4, <3>1, <3>2
  <2> QED
    BY <2>5, <2>6, <2>7 DEF Chained
<1>18. Anchored(longer)'
  <2>1. /\ list'[bucket].length = Size /\ Size = Size' - 1
        /\ ~ NoTail' => list'[bucket].tail = longer[Size']
    BY <1>4, <1>10, <1>11, <1>15, <1>16
  <2>2. list'[bucket].head = longer[1]
    <3>1. CASE Size = 0
      BY <1>10, <1>16, <3>1
    <3>2. CASE Size # 0
      <4>1. Size > 0 /\ 1 \in 1 .. Size
        BY <1>4, <3>2
      <4> QED
        BY <1>4, <1>10, <1>16, <3>2, <4>1
    <3> QED
      BY <3>1, <3>2
  <2>3. /\ \A v \in Workers : local'[v].pc \in Counting => local'[v].cmd = "add"
        /\ local'[w].pc \in Counting
    BY <1>1, <1>3, <1>5 DEF Counting
  <2> QED
    BY <1>1, <1>10, <2>1, <2>2, <2>3 DEF Anchored
<1>19. RegistersOf(w, longer)'
  <2>1. Size' > 0 /\ longer[Size'] = e /\ (Size = 0 => Size' = 1)
    BY <1>4, <1>11, <1>16
  <2> QED
    BY <1>1, <1>5, <2>1 DEF RegistersOf
<1> QED
  BY <1>1, <1>12, <1>13, <1>17, <1>18, <1>19, ChangeStep DEF Change

LEMMA BecomeHeadStep ==
  ASSUME StoreInv, TypeInv', NEW w \in Workers, BecomeHead(w)
  PROVE  StoreInv'
<1>1. /\ local[w].pc = "first" /\ local[w] \in LocalRec /\ UNCHANGED <<status, bucket, doc>>
      /\ Size = 0 /\ local[w].list = bucket /\ bucket # Null
  BY LocalTypes DEF BecomeHead, At, StoreInv, RegistersOf
<1>2. PICK e \in Cells \ DOMAIN cell :
        /\ NewEntry(w, e, Null)
        /\ list' = [list EXCEPT ![bucket].head = e]
        /\ local' = [local EXCEPT ![w].pc = "alone", ![w].cell = e]
  BY <1>1 DEF BecomeHead
<1> DEFINE r == [local[w] EXCEPT !.pc = "alone", !.cell = e]
           ends == [list[bucket] EXCEPT !.head = e]
<1>3. r \in LocalRec /\ local' = [local EXCEPT ![w] = r]
  BY <1>1, <1>2 DEF LocalRec, Pcs
<1>4. r.pc = "alone" /\ r.cmd = local[w].cmd /\ r.list = bucket /\ r.cell = e
  BY <1>1 DEF LocalRec
<1>5. list[bucket] \in ListRec
  BY <1>1 DEF StoreInv, TypeOK
<1>6. list' = [list EXCEPT ![bucket] = ends] /\ ends.length = list[bucket].length /\ ends.head = e
  BY <1>2, <1>5 DEF ListRec
<1> HIDE DEF r, ends
<1>7. Enters(w, e, Null, r, ends)
  BY <1>1, <1>2, <1>3, <1>4, <1>6 DEF Enters
<1> QED
  BY <1>3, <1>7, NewEntryStep

LEMMA BecomeTailStep ==
  ASSUME StoreInv, TypeInv', NEW w \in Workers, BecomeTail(w)
  PROVE  StoreInv'
<1>0. PICK order \in [1 .. Size -> DOMAIN cell] :
        Chained(order) /\ Anchored(order) /\ \A v \in Workers : RegistersOf(v, order)
  BY DEF StoreInv
<1>1. /\ local[w].pc = "last" /\ local[w] \in LocalRec /\ UNCHANGED <<status, bucket, doc>>
      /\ Size # 0 /\ local[w].list = bucket /\ bucket # Null
      /\ local[w].cell = list[bucket].tail
  <2>1. /\ local[w].pc = "last" /\ local[w] \in LocalRec /\ UNCHANGED <<status, bucket, doc>>
    BY LocalTypes DEF BecomeTail, At, StoreInv
  <2>2. ~ NoTail
    BY <2>1, LookupsAreQuiet DEF Counting
  <2>3. Size > 0 /\ local[w].list = bucket /\ bucket # Null /\ local[w].cell = order[Size]
    BY <1>0, <2>1 DEF RegistersOf
  <2> QED
    BY <1>0, <2>1, <2>2, <2>3 DEF Anchored
<1>2. PICK e \in Cells \ DOMAIN cell :
        /\ NewEntry(w, e, list[bucket].tail)
        /\ list' = [list EXCEPT ![bucket].tail = e]
        /\ local' = [local EXCEPT ![w].pc = "link", ![w].cell = e]
  BY <1>1 DEF BecomeTail
<1> DEFINE r == [local[w] EXCEPT !.pc = "link", !.cell = e]
           ends == [list[bucket] EXCEPT !.tail = e]
<1>3. r \in LocalRec /\ local' = [local EXCEPT ![w] = r]
  BY <1>1, <1>2 DEF LocalRec, Pcs
<1>4. r.pc = "link" /\ r.cmd = local[w].cmd /\ r.list = bucket /\ r.cell = e
  BY <1>1 DEF LocalRec
<1>5. list[bucket] \in ListRec
  BY <1>1 DEF StoreInv, TypeOK
<1>6. /\ list' = [list EXCEPT ![bucket] = ends] /\ ends.length = list[bucket].length
      /\ ends.head = list[bucket].head /\ ends.tail = e
  BY <1>2, <1>5 DEF ListRec
<1> HIDE DEF r, ends
<1>7. Enters(w, e, list[bucket].tail, r, ends)
  BY <1>1, <1>2, <1>3, <1>4, <1>6 DEF Enters
<1> QED
  BY <1>3, <1>7, NewEntryStep

LEMMA BecomeOnlyTailStep ==
  ASSUME StoreInv, TypeInv', NEW w \in Workers, BecomeOnlyTail(w)
  PROVE  StoreInv'
<1> DEFINE r == [local[w] EXCEPT !.pc = "link"]
           e == local[w].cell
           ends == [list[bucket] EXCEPT !.tail = e]
<1>1. PICK order \in [1 .. Size -> DOMAIN cell] :
        Chained(order) /\ Anchored(order) /\ \A v \in Workers : RegistersOf(v, order)
  BY DEF StoreInv
<1>2. /\ local[w].pc = "alone" /\ local[w].cmd = "add" /\ local[w] \in LocalRec
      /\ UNCHANGED <<status, bucket, cell, doc>>
      /\ bucket # Null /\ local[w].list = bucket /\ Size = 1 /\ e = order[1]
      /\ bucket \in DOMAIN list /\ list[bucket] \in ListRec
  BY <1>1, LocalTypes DEF BecomeOnlyTail, At, StoreInv, StepOf, RegistersOf, TypeOK
<1>3. local' = [local EXCEPT ![w] = r] /\ list' = [list EXCEPT ![bucket] = ends]
  BY <1>2 DEF BecomeOnlyTail, Goto
<1>4. r \in LocalRec
  BY <1>2 DEF LocalRec, Pcs
<1>5. /\ r.pc = "link" /\ r.cmd = local[w].cmd /\ r.list = local[w].list /\ r.cell = e
  BY <1>2 DEF LocalRec
<1>6. local'[w] = r /\ \A v \in Workers : v # w => local'[v] = local[v]
  BY <1>3, <1>4, NewRegisters DEF StoreInv
<1>7. /\ list'[bucket] = ends /\ bucket \in DOMAIN list' /\ ends.tail = e
      /\ ends.head = list[bucket].head /\ ends.length = list[bucket].length
  BY <1>2, <1>3 DEF ListRec
<1> HIDE DEF r, ends, e
<1>8. \A v \in Workers : v # w => local[v].pc = "idle" /\ local[v].cmd = "none"
  BY <1>2, OthersAreIdle DEF Change
<1>9. TypeOK' /\ StepOf(w)'
  BY DEF TypeInv
<1>10. OwnDocuments'
  <2>1. \A x \in DOMAIN cell : cell[x].doc \in DOMAIN doc
    BY <1>2, <1>8 DEF StoreInv, OwnDocuments
  <2> QED
    BY <1>2, <2>1 DEF StoreInv, OwnDocuments
<1>11. Size' = Size
  BY <1>2 DEF Size
<1>12. Chained(order)'
  <2>1. \A i \in 1 .. Size : i = Size
    BY <1>2
  <2> QED
    BY <1>1, <1>2, <1>11, <2>1 DEF Chained
<1>13. Anchored(order)'
  <2>1. /\ \A v \in Workers : local[v].pc \in Counting => v = w
        /\ \A v \in Workers : local'[v].pc \in Counting => v = w
        /\ local[w].pc \in Counting /\ local'[w].pc \in Counting
        /\ local'[w].cmd = local[w].cmd
    BY <1>2, <1>5, <1>6, <1>8 DEF Counting
  <2> QED
    BY <1>1, <1>2, <1>7, <1>11, <2>1 DEF Anchored
<1>14. RegistersOf(w, order)'
  BY <1>2, <1>5, <1>6, <1>11 DEF RegistersOf
<1> QED
  BY <1>2, <1>3, <1>4, <1>5, <1>9, <1>10, <1>12, <1>13, <1>14, ChangeStep DEF Change

LEMMA LinkEntryStep ==
  ASSUME StoreInv, NEW w \in Workers, LinkEntry(w)
  PROVE  StoreInv'
<1>1. PICK e : e = local[w].cell
  OBVIOUS
<1> DEFINE r == [local[w] EXCEPT !.pc = "count"]
<1>2. PICK order \in [1 .. Size -> DOMAIN cell] :
        Chained(order) /\ Anchored(order) /\ \A v \in Workers : RegistersOf(v, order)
  BY DEF StoreInv
<1>3. /\ local[w].pc = "link" /\ local[w].cmd = "add" /\ local[w] \in LocalRec
      /\ bucket # Null /\ local[w].list = bucket /\ Size > 0 /\ e = order[Size]
      /\ Size \in Nat
  BY <1>1, <1>2, LocalTypes, SizeIsNatural DEF LinkEntry, At, StoreInv, StepOf, RegistersOf
<1>4. \A v \in Workers : v # w => local[v].pc = "idle" /\ local[v].cmd = "none"
  BY <1>3, OthersAreIdle DEF Change
<1>5. /\ e \in DOMAIN cell /\ Size \in 1 .. Size
      /\ cell[e].prev = IF Size = 1 THEN Null ELSE order[Size - 1]
      /\ Size # 1 => Size - 1 \in 1 .. Size /\ order[Size - 1] \in DOMAIN cell
  BY <1>2, <1>3 DEF Chained
<1>6. /\ local' = [local EXCEPT ![w] = r]
      /\ UNCHANGED <<status, bucket, list, doc, history>>
      /\ Size = 1 => cell' = cell
      /\ Size # 1 => cell' = [cell EXCEPT ![order[Size - 1]].next = e]
  <2>1. \A x \in DOMAIN cell : x # Null
    BY DocAssumption DEF StoreInv, TypeOK
  <2> QED
    BY <1>1, <1>3, <1>5, <2>1 DEF LinkEntry, Goto, Reads
<1>7. r \in LocalRec
  BY <1>3 DEF LocalRec, Pcs
<1>8. /\ local' \in [Workers -> LocalRec]
      /\ local'[w] = r
      /\ \A v \in Workers : v # w => local'[v] = local[v]
  BY <1>6, <1>7, NewRegisters DEF StoreInv
<1>9. /\ r.pc = "count" /\ r.cmd = local[w].cmd /\ r.user = local[w].user
      /\ r.list = local[w].list
  BY <1>3 DEF LocalRec
<1> HIDE DEF r
<1>10. Linking /\ ~ Linking'
  BY <1>3, <1>4, <1>8, <1>9 DEF Linking
<1>11. /\ DOMAIN cell' = DOMAIN cell
       /\ \A x \in DOMAIN cell :
            /\ cell'[x] \in CellRec
            /\ cell'[x].prev = cell[x].prev /\ cell'[x].doc = cell[x].doc
            /\ cell'[x].next = IF Size # 1 /\ x = order[Size - 1] THEN e ELSE cell[x].next
  <2>1. \A x \in DOMAIN cell : cell[x] \in CellRec
    BY DEF StoreInv, TypeOK
  <2>2. CASE Size = 1
    BY <1>6, <2>1, <2>2
  <2>3. CASE Size # 1
    <3> DEFINE p == order[Size - 1]
               new == [cell[p] EXCEPT !.next = e]
    <3>1. /\ new \in CellRec /\ new.prev = cell[p].prev /\ new.doc = cell[p].doc
          /\ new.next = e /\ p \in DOMAIN cell
      <4>1. cell[p] \in CellRec /\ e \in Cells
        BY <1>5, <2>1, <2>3 DEF StoreInv, TypeOK
      <4> QED
        BY <1>5, <2>3, <4>1 DEF CellRec
    <3>2. cell' = [cell EXCEPT ![p] = new]
      BY <1>6, <2>3
    <3> HIDE DEF new, p
    <3>3. /\ DOMAIN cell' = DOMAIN cell
          /\ \A x \in DOMAIN cell : cell'[x] = IF x = p THEN new ELSE cell[x]
      BY <3>2
    <3> QED
      BY <2>1, <2>3, <3>1, <3>3 DEF p
  <2> QED
    BY <2>2, <2>3
<1>12. Size' = Size
  BY <1>11 DEF Size
<1>13. TypeOK'
  BY <1>6, <1>8, <1>11 DEF StoreInv, TypeOK
<1>14. OwnDocuments'
  <2>1. \A x \in DOMAIN cell : cell[x].doc \in DOMAIN doc
    BY <1>3, <1>4 DEF StoreInv, OwnDocuments
  <2> QED
    BY <1>6, <1>11, <2>1 DEF StoreInv, OwnDocuments
<1>15. StepOf(w)'
  BY <1>3, <1>8, <1>9 DEF StepOf, Change
<1>16. Chained(order)'
  <2>1. ASSUME NEW i \in 1 .. Size
        PROVE  cell'[order[i]].next = IF i = Size THEN Null ELSE order[i + 1]
    <3>1. order[i] \in DOMAIN cell
      BY <1>2
    <3>2. cell[order[i]].next = IF i = Size \/ i = Size - 1 THEN Null ELSE order[i + 1]
      BY <1>2, <1>10 DEF Chained
    <3>3. Size # 1 => (order[i] = order[Size - 1] <=> i = Size - 1)
      BY <1>2, <1>5 DEF Chained
    <3>4. CASE i = Size - 1
      <4>1. Size # 1 /\ i # Size /\ i + 1 = Size
        BY <1>3, <3>4
      <4> QED
        BY <1>3, <1>11, <3>1, <3>3, <3>4, <4>1
    <3>5. CASE i # Size - 1
      BY <1>11, <3>1, <3>2, <3>3, <3>5
    <3> QED
      BY <3>4, <3>5
  <2>2. \A i \in 1 .. Size : cell'[order[i]].prev = IF i = 1 THEN Null ELSE order[i - 1]
    BY <1>2, <1>11 DEF Chained
  <2> QED
    BY <1>2, <1>10, <1>11, <1>12, <2>1, <2>2 DEF Chained
<1>17. Anchored(order)'
  <2>1. /\ \A v \in Workers : local[v].pc \in Counting => v = w
        /\ \A v \in Workers : local'[v].pc \in Counting => v = w
        /\ local[w].pc \in Counting /\ local'[w].pc \in Counting
        /\ local'[w].cmd = local[w].cmd
    BY <1>3, <1>4, <1>8, <1>9 DEF Counting
  <2>2. ~ NoTail
    BY <1>3, <1>4 DEF NoTail
  <2> QED
    BY <1>2, <1>6, <1>12, <2>1, <2>2 DEF Anchored
<1>18. RegistersOf(w, order)'
  BY <1>3, <1>6, <1>8, <1>9 DEF RegistersOf
<1> QED
  BY <1>3, <1>6, <1>7, <1>9, <1>13, <1>14, <1>15, <1>16, <1>17, <1>18, ChangeStep DEF Change

-----------------------------------------------------------------------------
(* The length.                                                             *)

LEMMA LoadLengthStep ==
  ASSUME StoreInv, NEW w \in Workers, LoadLength(w)
  PROVE  StoreInv'
<1>1. PICK order \in [1 .. Size -> DOMAIN cell] :
        Chained(order) /\ Anchored(order) /\ \A v \in Workers : RegistersOf(v, order)
  BY DEF StoreInv
<1> DEFINE length == list[bucket].length
           r == [local[w] EXCEPT !.pc = "resize", !.length = length]
<1>2. /\ local[w].pc = "count" /\ local[w].cmd \in Change /\ local[w] \in LocalRec
      /\ bucket # Null /\ local[w].list = bucket
      /\ length \in 0 .. UInt - 1
  BY <1>1, LocalTypes DEF LoadLength, At, StoreInv, StepOf, RegistersOf, Anchored, TypeOK, ListRec
<1>3. local' = [local EXCEPT ![w] = r] /\ Reads
  BY <1>2 DEF LoadLength
<1> HIDE DEF length
<1>4. r \in LocalRec
  BY <1>2 DEF LocalRec, Pcs
<1>5. /\ local' \in [Workers -> LocalRec]
      /\ local'[w] = r
      /\ \A v \in Workers : v # w => local'[v] = local[v]
  BY <1>3, <1>4, NewRegisters DEF StoreInv
<1>6. /\ r.pc = "resize" /\ r.cmd = local[w].cmd /\ r.user = local[w].user
      /\ r.list = local[w].list /\ r.length = length
  BY <1>2 DEF LocalRec
<1> HIDE DEF r
<1>7. TypeOK'
  BY <1>3, <1>5 DEF StoreInv, TypeOK, Reads
<1>8. EditorsHoldMutexes'
  <2>1. \A x : Editing(x)' = Editing(x)
    BY <1>2, <1>5, <1>6 DEF Editing
  <2> QED
    BY <1>3, <2>1 DEF StoreInv, EditorsHoldMutexes, Reads
<1>9. ChangesAlone'
  BY <1>2, <1>5, <1>6 DEF StoreInv, ChangesAlone, Busy
<1>10. StepOf(w)'
  BY <1>2, <1>5, <1>6 DEF StepOf, Change
<1>11. RegistersOf(w, order)'
  BY <1>2, <1>3, <1>5, <1>6 DEF RegistersOf, Reads, length
<1> QED
  BY <1>1, <1>2, <1>3, <1>5, <1>6, <1>7, <1>8, <1>9, <1>10, <1>11, QuietStep
     DEF Reads, Counting

(* What is smaller than the modulus stays.                                 *)
LEMMA SmallModulo ==
  \A u \in Nat \ {0}, x \in Nat : x < u => x % u = x
OBVIOUS

LEMMA StoreLengthStep ==
  ASSUME StoreInv, Countable, NEW w \in Workers, StoreLength(w)
  PROVE  StoreInv'
<1>1. PICK order \in [1 .. Size -> DOMAIN cell] :
        Chained(order) /\ Anchored(order) /\ \A v \in Workers : RegistersOf(v, order)
  BY DEF StoreInv
<1> DEFINE change == IF local[w].cmd = "add" THEN 1 ELSE -1
           r == [local[w] EXCEPT !.pc = "reply", !.reply = "ok"]
<1>2. /\ local[w].pc = "resize" /\ local[w].cmd \in Change /\ local[w] \in LocalRec
      /\ bucket # Null /\ local[w].list = bucket /\ bucket \in DOMAIN list
      /\ local[w].length = list[bucket].length
      /\ local[w].length = IF local[w].cmd = "add" THEN Size - 1 ELSE Size + 1
  BY <1>1, LocalTypes
     DEF StoreLength, At, StoreInv, StepOf, RegistersOf, Anchored, Counting
<1>3. Size \in Nat /\ Size < UInt
  <2>1. Size <= Cardinality(Cells) /\ Cardinality(Cells) \in Nat
    BY FS_Subset, FS_CardinalityType, DocAssumption DEF Size, StoreInv, TypeOK
  <2> QED
    BY <2>1, SizeIsNatural, DocAssumption DEF Countable
<1>4. (local[w].length + change) % UInt = Size
  <2>1. local[w].length + change = Size
    BY <1>2, <1>3 DEF Change
  <2> QED
    BY <1>3, <2>1, SmallModulo, DocAssumption
<1>5. /\ list' = [list EXCEPT ![bucket].length = Size]
      /\ local' = [local EXCEPT ![w] = r]
      /\ UNCHANGED <<status, bucket, cell, doc, history>>
  BY <1>2, <1>4 DEF StoreLength, Answer
<1>6. r \in LocalRec
  BY <1>2 DEF LocalRec, Pcs
<1>7. /\ local' \in [Workers -> LocalRec]
      /\ local'[w] = r
      /\ \A v \in Workers : v # w => local'[v] = local[v]
  BY <1>5, <1>6, NewRegisters DEF StoreInv
<1>8. r.pc = "reply" /\ r.cmd = local[w].cmd /\ r.user = local[w].user
  BY <1>2 DEF LocalRec
<1> HIDE DEF r
<1>9. /\ DOMAIN list' = DOMAIN list
      /\ list'[bucket] \in ListRec /\ list'[bucket].length = Size
      /\ list'[bucket].head = list[bucket].head /\ list'[bucket].tail = list[bucket].tail
      /\ \A x \in DOMAIN list : x # bucket => list'[x] = list[x]
  <2>1. list[bucket] \in ListRec /\ Size \in 0 .. UInt - 1
    BY <1>2, <1>3, DocAssumption DEF StoreInv, TypeOK
  <2> QED
    BY <1>2, <1>5, <2>1 DEF ListRec
<1>10. TypeOK'
  <2>1. \A x \in DOMAIN list' : list'[x] \in ListRec
    BY <1>9 DEF StoreInv, TypeOK
  <2> QED
    BY <1>5, <1>7, <1>9, <2>1 DEF StoreInv, TypeOK
<1>11. \A v \in Workers : v # w => local[v].pc = "idle" /\ local[v].cmd = "none"
  BY <1>2, OthersAreIdle
<1>12. OwnDocuments'
  <2>1. \A x \in DOMAIN cell : cell[x].doc \in DOMAIN doc
    BY <1>2, <1>11 DEF StoreInv, OwnDocuments
  <2> QED
    BY <1>5, <2>1 DEF StoreInv, OwnDocuments
<1>13. Size' = Size /\ (Linking' <=> Linking)
  BY <1>2, <1>5, <1>7, <1>8, <1>11 DEF Size, Linking
<1>14. Chained(order)'
  BY <1>1, <1>5, <1>13 DEF Chained
<1>15. Anchored(order)'
  <2>1. \A v \in Workers : local'[v].pc \notin Counting
    BY <1>7, <1>8, <1>11 DEF Counting
  <2>2. ~ NoTail
    BY <1>2, <1>11 DEF NoTail
  <2> QED
    BY <1>1, <1>2, <1>5, <1>9, <1>13, <2>1, <2>2 DEF Anchored
<1>16. RegistersOf(w, order)' /\ StepOf(w)'
  BY <1>2, <1>7, <1>8 DEF RegistersOf, StepOf, Change
<1> QED
  BY <1>2, <1>5, <1>6, <1>8, <1>10, <1>12, <1>14, <1>15, <1>16, ChangeStep

-----------------------------------------------------------------------------
(* The initial state.                                                      *)

LEMMA InitStore ==
  ASSUME Countable, Init
  PROVE  StoreInv
<1> DEFINE n     == Cardinality(Stored)
           keys  == SetToSeq(Stored)
           docs  == SetToSeq(Docs)
           cells == SetToSeq(Cells)
           l     == CHOOSE x \in Lists : TRUE
           order == [i \in 1 .. n |-> cells[i]]
<1>1. /\ n \in Nat /\ n <= Cardinality(Cells) /\ n <= Cardinality(Docs)
      /\ Cardinality(Cells) \in Nat /\ Cardinality(Docs) \in Nat /\ n < UInt /\ UInt \in Nat
  BY FS_CardinalityType, DocAssumption DEF Countable
<1>2. /\ \A i \in 1 .. n : keys[i] \in Keys /\ docs[i] \in Docs /\ cells[i] \in Cells
      /\ \A i, j \in 1 .. n : docs[i] = docs[j] => i = j
      /\ \A i, j \in 1 .. n : cells[i] = cells[j] => i = j
  <2>1. /\ keys \in [1 .. n -> Stored]
        /\ docs \in [1 .. Cardinality(Docs) -> Docs]
        /\ cells \in [1 .. Cardinality(Cells) -> Cells]
        /\ \A i, j \in 1 .. Cardinality(Docs) : docs[i] = docs[j] => i = j
        /\ \A i, j \in 1 .. Cardinality(Cells) : cells[i] = cells[j] => i = j
    BY SetAsSeq, DocAssumption
  <2>2. 1 .. n \subseteq 1 .. Cardinality(Docs) /\ 1 .. n \subseteq 1 .. Cardinality(Cells)
    BY <1>1
  <2> HIDE DEF n, keys, docs, cells
  <2>3. Stored \subseteq Keys
    BY DocAssumption
  <2> QED
    BY <2>1, <2>2, <2>3
<1>3. /\ status = "running"
      /\ bucket = (IF n = 0 THEN Null ELSE l)
      /\ list = [x \in (IF n = 0 THEN {} ELSE {l}) |->
               [length |-> n, head |-> cells[1], tail |-> cells[n]]]
      /\ doc = [d \in {docs[i] : i \in 1 .. n} |-> [collaborators |-> <<>>, mutex |-> Nobody]]
      /\ local = [w \in Workers |-> Idle]
      /\ history = [acknowledged |-> Stored, overlapped |-> FALSE, removed |-> FALSE]
  BY DEF Init
<1>4. n # 0 => l \in Lists
  <2>1. n # 0 => Stored # {}
    BY FS_EmptySet
  <2> QED
    BY <2>1, DocAssumption
<1>5. \A i \in 1 .. n :
        /\ cells[i] \in DOMAIN cell
        /\ cell[cells[i]] =
             [next |-> IF i = n THEN Null ELSE cells[i + 1],
              prev |-> IF i = 1 THEN Null ELSE cells[i - 1],
              key  |-> keys[i], doc |-> docs[i]]
  BY InitEntries
<1>6. \A e \in DOMAIN cell : \E i \in 1 .. n : e = cells[i]
  BY InitEntries
<1>7. Size = n
  <2>1. order \in Bijection(1 .. n, DOMAIN cell)
    BY <1>2, <1>5, <1>6 DEF Bijection, Injection, Surjection, IsInjective
  <2>2. IsFiniteSet(1 .. n) /\ Cardinality(1 .. n) = n
    BY <1>1, FS_Interval, SMTT(30)
  <2> HIDE DEF n, order
  <2> QED
    BY <2>1, <2>2, FS_Bijection DEF ExistsBijection, Size
<1> HIDE DEF n, keys, docs, cells, l
<1>8. \A w \in Workers : local[w].pc = "idle" /\ local[w].cmd = "none"
  BY <1>3 DEF Idle
<1>9. TypeOK
  BY InitTyped DEF TypeInv
<1>10. Runs /\ EditorsHoldMutexes /\ ChangesAlone
  BY <1>3, <1>8 DEF Runs, EditorsHoldMutexes, ChangesAlone, Editing, Change
<1>11. \A w \in Workers : StepOf(w)
  BY <1>8 DEF StepOf, Change
<1>12. OwnDocuments
  <2>1. ASSUME NEW i \in 1 .. n
        PROVE  cell[cells[i]].doc = docs[i] /\ docs[i] \in DOMAIN doc
    <3>1. cell[cells[i]] =
            [next |-> IF i = n THEN Null ELSE cells[i + 1],
             prev |-> IF i = 1 THEN Null ELSE cells[i - 1],
             key  |-> keys[i], doc |-> docs[i]]
      BY <1>5
    <3>2. docs[i] \in DOMAIN doc
      BY <1>3
    <3> QED
      BY <3>1, <3>2
  <2> QED
    BY <1>2, <1>6, <2>1 DEF OwnDocuments
<1>13. order \in [1 .. Size -> DOMAIN cell] /\ \A i \in 1 .. n : order[i] = cells[i]
  BY <1>5, <1>7
<1> HIDE DEF order
<1>14. Chained(order)
  <2>1. \A i, j \in 1 .. Size : order[i] = order[j] => i = j
    BY <1>2, <1>7, <1>13
  <2>2. \A e \in DOMAIN cell : \E i \in 1 .. Size : order[i] = e
    BY <1>6, <1>7, <1>13
  <2>3. \A i \in 1 .. Size : cell[order[i]].prev = IF i = 1 THEN Null ELSE order[i - 1]
    <3> SUFFICES ASSUME NEW i \in 1 .. n
                 PROVE  cell[order[i]].prev = IF i = 1 THEN Null ELSE order[i - 1]
      BY <1>7
    <3>1. i # 1 => i - 1 \in 1 .. n
      BY <1>1
    <3>2. /\ cell[order[i]].next = IF i = n THEN Null ELSE cells[i + 1]
          /\ cell[order[i]].prev = IF i = 1 THEN Null ELSE cells[i - 1]
      <4>1. order[i] = cells[i]
        BY <1>13
      <4>2. cell[cells[i]] =
              [next |-> IF i = n THEN Null ELSE cells[i + 1],
               prev |-> IF i = 1 THEN Null ELSE cells[i - 1],
               key  |-> keys[i], doc |-> docs[i]]
        BY <1>5
      <4> QED
        BY <4>1, <4>2
    <3> QED
      BY <1>13, <3>1, <3>2
  <2>4. ~ Linking
    BY <1>8 DEF Linking
  <2>5. \A i \in 1 .. Size : cell[order[i]].next = IF i = Size THEN Null ELSE order[i + 1]
    <3> SUFFICES ASSUME NEW i \in 1 .. n
                 PROVE  cell[order[i]].next = IF i = n THEN Null ELSE order[i + 1]
      BY <1>7
    <3>1. i # n => i + 1 \in 1 .. n
      BY <1>1
    <3>2. /\ cell[order[i]].next = IF i = n THEN Null ELSE cells[i + 1]
          /\ cell[order[i]].prev = IF i = 1 THEN Null ELSE cells[i - 1]
      <4>1. order[i] = cells[i]
        BY <1>13
      <4>2. cell[cells[i]] =
              [next |-> IF i = n THEN Null ELSE cells[i + 1],
               prev |-> IF i = 1 THEN Null ELSE cells[i - 1],
               key  |-> keys[i], doc |-> docs[i]]
        BY <1>5
      <4> QED
        BY <4>1, <4>2
    <3> QED
      BY <1>13, <3>1, <3>2
  <2> QED
    BY <1>13, <2>1, <2>2, <2>3, <2>4, <2>5 DEF Chained
<1>15. Anchored(order)
  <2>1. bucket = Null => n = 0
    BY <1>3, <1>4, DocAssumption
  <2>2. bucket # Null =>
          /\ n # 0 /\ bucket \in DOMAIN list
          /\ list[bucket] = [length |-> n, head |-> cells[1], tail |-> cells[n]]
    BY <1>3
  <2>3. n # 0 => 1 \in 1 .. n /\ n \in 1 .. n
    BY <1>1
  <2>4. \A w \in Workers : local[w].pc \notin Counting
    BY <1>8 DEF Counting
  <2> QED
    BY <1>7, <1>13, <2>1, <2>2, <2>3, <2>4 DEF Anchored
<1>16. \A w \in Workers : RegistersOf(w, order)
  BY <1>8 DEF RegistersOf
<1> QED
  BY <1>9, <1>10, <1>11, <1>12, <1>13, <1>14, <1>15, <1>16 DEF StoreInv

-----------------------------------------------------------------------------
(* The theorem on adds and removes that are run alone.                     *)

LEMMA NextStore ==
  ASSUME Countable, StoreInv, TypeInv, TypeInv', ~ history'.overlapped, [Next]_vars
  PROVE  StoreInv'
<1>1. CASE UNCHANGED vars
  <2>1. PICK order \in [1 .. Size -> DOMAIN cell] :
          Chained(order) /\ Anchored(order) /\ \A v \in Workers : RegistersOf(v, order)
    BY DEF StoreInv
  <2>2. UNCHANGED <<status, bucket, list, cell, doc, local, history>>
    BY <1>1 DEF vars
  <2>3. Chained(order)' /\ Anchored(order)'
    BY <2>1, <2>2, ShapeKept
  <2>4. \A v \in Workers : RegistersOf(v, order)'
    BY <2>1, <2>2, RegistersKept
  <2>5. TypeOK' /\ Runs' /\ EditorsHoldMutexes' /\ ChangesAlone' /\ OwnDocuments'
    BY <2>2 DEF StoreInv, TypeOK, Runs, EditorsHoldMutexes, Editing, ChangesAlone, Busy,
                OwnDocuments
  <2>6. \A v \in Workers : StepOf(v)'
    BY <2>2 DEF StoreInv, StepOf
  <2>7. order \in [1 .. Size' -> DOMAIN cell']
    BY <2>3 DEF Chained
  <2> QED
    BY <2>3, <2>4, <2>5, <2>6, <2>7 DEF StoreInv
<1>2. ASSUME NEW w \in Workers,
             Receive(w) \/ ReceiveUnparsable(w) \/ ReceiveTruncated(w) \/ Reply(w)
      PROVE  StoreInv'
  BY <1>2, ReceiveStep, ReceiveUnparsableStep, ReceiveTruncatedStep, ReplyStep
<1>3. ASSUME NEW w \in Workers, Lookup(w) \/ UseDocument(w) \/ Session(w)
      PROVE  StoreInv'
  BY <1>3, ReadBucketStep, ReadLengthStep, GetSingleStep, IterateStep, UseDocumentStep, SessionStep
     DEF Lookup
<1>4. ASSUME NEW w \in Workers, Removal(w) \/ Addition(w) \/ LoadLength(w) \/ StoreLength(w)
      PROVE  StoreInv'
  BY <1>4, LocateEntryStep, FreeDocumentStep, UnlinkEntryStep, TestBucketStep, CreateListStep,
     FetchListStep, TestLengthStep, BecomeHeadStep, BecomeOnlyTailStep, ReadTailStep,
     BecomeTailStep, LinkEntryStep, LoadLengthStep, StoreLengthStep
     DEF Removal, Addition
<1> QED
  BY <1>1, <1>2, <1>3, <1>4 DEF Next, Run

-----------------------------------------------------------------------------
(* Commands that are run at once, as long as nothing is removed: the       *)
(* inductive invariant.  Entries and documents are only ever added, so     *)
(* what pointed to one still does; an entry that was lost from the list by *)
(* adds that got in each other's way is still allocated.                   *)

(* The entries that no "add" has still to count.                           *)
Counted == DOMAIN cell \ {local[w].cell : w \in {v \in Workers : local[v].pc \in Counting}}

(* Pointers lead to what is allocated.  A list that has a length has ends, *)
(* and no length is more than the entries that were counted.               *)
Grown ==
  /\ \A e \in DOMAIN cell :
       /\ cell[e].next \in DOMAIN cell \cup {Null} /\ cell[e].prev \in DOMAIN cell \cup {Null}
       /\ cell[e].doc \in DOMAIN doc
  /\ \A l \in DOMAIN list :
       /\ list[l].head \in DOMAIN cell \cup {Null} /\ list[l].tail \in DOMAIN cell \cup {Null}
       /\ list[l].length > 0 => list[l].head \in DOMAIN cell /\ list[l].tail \in DOMAIN cell
       /\ list[l].length <= Cardinality(Counted)

(* Every "add" has an entry of its own.                                    *)
OwnEntries ==
  \A v, w \in Workers :
    v # w /\ local[v].pc \in Counting /\ local[w].pc \in Counting => local[v].cell # local[w].cell

(* What each worker has in its registers.                                  *)
Holds(w) ==
  LET r == local[w] IN
  /\ r.cmd # "remove"
  /\ r.pc \in {"single", "behind", "last"} => list[r.list].length > 0
  /\ r.pc = "iterate" => r.cell \in DOMAIN cell \cup {Null}
  /\ r.pc \in {"use", "lock", "load", "store", "unlock"} => r.doc \in DOMAIN doc
  /\ r.cmd = "add" /\ r.pc \in Unlisted => r.doc \in DOMAIN doc
  /\ r.pc \in Counting \cup {"last"} => r.cell \in DOMAIN cell
  /\ r.pc \in Counting => list[r.list].head \in DOMAIN cell
  /\ r.pc \in {"link", "count", "resize"} => list[r.list].tail \in DOMAIN cell
  /\ r.pc = "resize" => r.length <= Cardinality(Counted)

GrowInv ==
  /\ Runs
  /\ EditorsHoldMutexes
  /\ Grown
  /\ OwnEntries
  /\ \A w \in Workers : Holds(w)

LEMMA CountedIsFinite ==
  ASSUME TypeInv
  PROVE  /\ IsFiniteSet(DOMAIN cell) /\ IsFiniteSet(Counted)
         /\ Cardinality(Counted) \in Nat /\ Cardinality(Cells) \in Nat
<1>1. IsFiniteSet(DOMAIN cell)
  BY FS_Subset, DocAssumption DEF TypeInv, TypeOK
<1>2. IsFiniteSet(Counted)
  BY <1>1, FS_Subset DEF Counted
<1> QED
  BY <1>1, <1>2, FS_CardinalityType, DocAssumption

(* What the others rely on if nothing is freed.                            *)
Keeps ==
  /\ DOMAIN doc \subseteq DOMAIN doc' /\ DOMAIN cell \subseteq DOMAIN cell'
  /\ DOMAIN list \subseteq DOMAIN list'
  /\ \A l \in DOMAIN list :
       /\ list[l].head \in DOMAIN cell => list'[l].head \in DOMAIN cell'
       /\ list[l].tail \in DOMAIN cell => list'[l].tail \in DOMAIN cell'
       /\ list[l].length > 0 => list'[l].length > 0
  /\ \A n \in Nat : n <= Cardinality(Counted) => n <= Cardinality(Counted)'

LEMMA GrowStep ==
  ASSUME TypeInv, TypeInv', GrowInv, NEW w \in Workers,
         \A v \in Workers : v # w => local'[v] = local[v],
         status' = status, Keeps, EditorsHoldMutexes', Grown', OwnEntries', Holds(w)'
  PROVE  GrowInv'
<1>1. ASSUME NEW v \in Workers, v # w PROVE Holds(v)'
  <2>1. local'[v] = local[v] /\ Holds(v) /\ local[v].length \in Nat
    BY <1>1, LocalTypes, DocAssumption DEF GrowInv, TypeInv
  <2>2. /\ local[v].pc \in {"single", "behind", "last"} \cup Counting => local[v].list \in DOMAIN list
    BY DEF TypeInv, PointersOf, Counting
  <2>3. local[v].pc \in {"link", "count", "resize"} => local[v].pc \in Counting
    BY DEF Counting
  <2> QED
    BY <2>1, <2>2, <2>3 DEF Holds, Keeps
<1>2. Runs'
  BY DEF GrowInv, Runs
<1> QED
  BY <1>1, <1>2 DEF GrowInv

(* A step that reads, and does not begin or end to count or to edit.       *)
LEMMA GrowRead ==
  ASSUME TypeInv, TypeInv', GrowInv, NEW w \in Workers,
         \A v \in Workers : v # w => local'[v] = local[v],
         Reads,
         local'[w].pc \in Counting <=> local[w].pc \in Counting,
         local[w].pc \in Counting => local'[w].cell = local[w].cell,
         local[w].pc \notin {"load", "store", "unlock"},
         local'[w].pc \notin {"load", "store", "unlock"},
         Holds(w)'
  PROVE  GrowInv'
<1>1. Counted' = Counted
  <2>1. \A v \in Workers :
          /\ local'[v].pc \in Counting <=> local[v].pc \in Counting
          /\ local[v].pc \in Counting => local'[v].cell = local[v].cell
    OBVIOUS
  <2> QED
    BY <2>1 DEF Counted, Reads
<1>2. Keeps /\ Grown' /\ OwnEntries'
  BY <1>1 DEF Keeps, Grown, OwnEntries, GrowInv, Reads
<1>3. EditorsHoldMutexes'
  BY MutexKept DEF GrowInv, Reads
<1> QED
  BY <1>2, <1>3, GrowStep DEF Reads

LEMMA MissGrows ==
  ASSUME TypeInv, TypeInv', GrowInv, NEW w \in Workers, Miss(w), Reads,
         local[w].pc \in {"bucket", "length", "single", "iterate"}
  PROVE  GrowInv'
<1>1. local[w].cmd # "remove"
  BY DEF GrowInv, Holds
<1>2. Answer(w, "nil")
  BY <1>1 DEF Miss
<1>3. /\ local'[w].pc = "reply" /\ local'[w].cmd = local[w].cmd
      /\ \A v \in Workers : v # w => local'[v] = local[v]
  BY <1>2, AnswerTyped
<1>4. Holds(w)'
  BY <1>1, <1>3 DEF Holds, Unlisted, Counting
<1> QED
  BY <1>3, <1>4, GrowRead DEF Counting

(* What a lookup leaves in the registers.                                  *)
LEMMA HitRegisters ==
  ASSUME TypeInv, NEW w \in Workers, NEW e \in DOMAIN cell, Hit(w, e),
         local[w].pc \in {"single", "iterate"}
  PROVE  /\ local'[w].pc \in {"use", "locate", "lock"}
         /\ local'[w].cmd = local[w].cmd /\ local'[w].doc = cell[e].doc
         /\ \A v \in Workers : v # w => local'[v] = local[v]
<1> USE DEF TypeInv
<1> DEFINE pc == CASE local[w].cmd = "get"    -> "use"
                   [] local[w].cmd = "remove" -> "locate"
                   [] OTHER                   -> "lock"
           d == cell[e].doc
           r == [local[w] EXCEPT !.pc = pc, !.doc = d]
<1>1. pc \in {"use", "locate", "lock"} /\ pc \in Pcs
  BY DEF Pcs
<1>2. d \in Docs /\ local[w] \in LocalRec
  BY LocalTypes DEF TypeOK, CellRec
<1>3. local' = [local EXCEPT ![w] = r]
  BY DEF Hit
<1> HIDE DEF pc, d
<1>4. r \in LocalRec /\ r.pc = pc /\ r.cmd = local[w].cmd /\ r.doc = d
  BY <1>1, <1>2 DEF LocalRec
<1>5. local'[w] = r /\ \A v \in Workers : v # w => local'[v] = local[v]
  BY <1>3, <1>4, NewRegisters
<1> QED
  BY <1>1, <1>4, <1>5 DEF d

LEMMA HitGrows ==
  ASSUME TypeInv, TypeInv', GrowInv, NEW w \in Workers, NEW e \in DOMAIN cell, Hit(w, e), Reads,
         local[w].pc \in {"single", "iterate"}
  PROVE  GrowInv'
<1>1. /\ local'[w].pc \in {"use", "locate", "lock"}
      /\ local'[w].cmd = local[w].cmd /\ local'[w].doc = cell[e].doc
      /\ \A v \in Workers : v # w => local'[v] = local[v]
  BY HitRegisters
<1>2. cell[e].doc \in DOMAIN doc /\ local[w].cmd # "remove"
  BY DEF GrowInv, Grown, Holds
<1>3. Holds(w)'
  BY <1>1, <1>2 DEF Holds, Reads, Unlisted, Counting
<1> QED
  BY <1>1, <1>3, GrowRead DEF Counting

LEMMA LookupGrows ==
  ASSUME TypeInv, TypeInv', GrowInv, NEW w \in Workers, Lookup(w)
  PROVE  GrowInv'
<1>1. /\ local[w] \in LocalRec /\ Holds(w) /\ local[w].cmd # "remove"
  BY LocalTypes DEF TypeInv, GrowInv, Holds
<1>2. CASE ReadBucket(w)
  <2>1. CASE bucket = Null
    BY <1>2, <2>1, MissGrows DEF ReadBucket, At
  <2>2. CASE bucket # Null
    <3> DEFINE r == [local[w] EXCEPT !.pc = "length", !.list = bucket]
    <3>1. bucket \in Lists /\ "length" \in Pcs
      BY <2>2 DEF TypeInv, TypeOK, Pcs
    <3>2. r \in LocalRec
      BY <1>1, <3>1 DEF LocalRec
    <3>3. local' = [local EXCEPT ![w] = r] /\ Reads /\ local[w].pc = "bucket"
      BY <1>2, <2>2 DEF ReadBucket, At
    <3>4. /\ local'[w] = r /\ r.pc = "length" /\ r.cmd = local[w].cmd
          /\ \A v \in Workers : v # w => local'[v] = local[v]
      BY <1>1, <3>2, <3>3, NewRegisters DEF LocalRec, TypeInv
    <3> HIDE DEF r
    <3>5. Holds(w)'
      BY <1>1, <3>3, <3>4 DEF Holds, Unlisted, Counting
    <3> QED
      BY <3>3, <3>4, <3>5, GrowRead DEF Counting
  <2> QED
    BY <2>1, <2>2
<1>3. CASE ReadLength(w)
  <2> DEFINE l == list[local[w].list]
  <2>1. /\ local[w].pc = "length" /\ Reads /\ local[w].list \in DOMAIN list
        /\ l.length \in Nat /\ l.head \in DOMAIN cell \cup {Null} /\ l.head \in Cells \cup {Null}
    BY <1>3, DocAssumption
       DEF ReadLength, At, TypeInv, PointersOf, TypeOK, ListRec, GrowInv, Grown
  <2>2. CASE l.length = 0
    BY <1>3, <2>1, <2>2, MissGrows DEF ReadLength
  <2>3. CASE l.length = 1
    <3>1. Goto(w, "single") /\ "single" \in Pcs
      BY <1>3, <2>3 DEF ReadLength, Pcs
    <3>2. /\ local'[w].pc = "single" /\ local'[w].cmd = local[w].cmd
          /\ local'[w].list = local[w].list
          /\ \A v \in Workers : v # w => local'[v] = local[v]
      BY <3>1, GotoTyped
    <3>3. Holds(w)'
      BY <1>1, <2>1, <2>3, <3>2 DEF Holds, Unlisted, Reads, Counting
    <3> QED
      BY <2>1, <3>2, <3>3, GrowRead DEF Counting
  <2>4. CASE l.length # 0 /\ l.length # 1
    <3> DEFINE h == l.head
               r == [local[w] EXCEPT !.pc = "iterate", !.cell = h]
    <3>1. local' = [local EXCEPT ![w] = r] /\ "iterate" \in Pcs
      BY <1>3, <2>4 DEF ReadLength, Pcs
    <3>2. h \in DOMAIN cell \cup {Null} /\ h \in Cells \cup {Null}
      BY <2>1
    <3> HIDE DEF h
    <3>3. r \in LocalRec
      BY <1>1, <3>1, <3>2 DEF LocalRec
    <3>4. /\ local'[w] = r /\ r.pc = "iterate" /\ r.cmd = local[w].cmd /\ r.cell = h
          /\ \A v \in Workers : v # w => local'[v] = local[v]
      BY <1>1, <3>1, <3>3, NewRegisters DEF LocalRec, TypeInv
    <3> HIDE DEF r
    <3>5. Holds(w)'
      BY <1>1, <2>1, <3>2, <3>4 DEF Holds, Unlisted, Reads, Counting
    <3> QED
      BY <2>1, <3>4, <3>5, GrowRead DEF Counting
  <2> QED
    BY <2>2, <2>3, <2>4
<1>4. CASE GetSingle(w)
  <2> DEFINE l == list[local[w].list]
             e == IF l.length \div 2 > 0 THEN l.head ELSE l.tail
  <2>1. /\ local[w].pc = "single" /\ local[w].list \in DOMAIN list /\ l.length > 0
        /\ l.length # 0
    BY <1>1, <1>4 DEF GetSingle, At, TypeInv, PointersOf, Holds
  <2>2. e \in DOMAIN cell /\ Alive(e)
    BY <2>1 DEF GrowInv, Grown, Alive
  <2>3. IF cell[e].key = local[w].key THEN Hit(w, e) /\ Reads ELSE Miss(w) /\ Reads
    BY <1>4, <2>1, <2>2 DEF GetSingle
  <2> QED
    BY <2>1, <2>2, <2>3, HitGrows, MissGrows
<1>5. CASE Iterate(w)
  <2> DEFINE e == local[w].cell
             r == [local[w] EXCEPT !.cell = cell[e].next, !.index = @ + 1]
  <2>1. local[w].pc = "iterate" /\ (e # Null => e \in DOMAIN cell /\ Alive(e))
    BY <1>1, <1>5 DEF Iterate, At, Holds, GrowInv, Grown, Alive
  <2>2. CASE e = Null
    BY <1>5, <2>1, <2>2, MissGrows DEF Iterate
  <2>3. CASE e # Null /\ cell[e].key = local[w].key
    BY <1>5, <2>1, <2>3, HitGrows DEF Iterate
  <2>4. CASE e # Null /\ cell[e].key # local[w].key
    <3> DEFINE n == cell[e].next
               i == local[w].index + 1
    <3>1. n \in Cells \cup {Null} /\ n \in DOMAIN cell \cup {Null} /\ i \in Nat
      BY <1>1, <2>1, <2>4 DEF TypeInv, TypeOK, CellRec, LocalRec, GrowInv, Grown
    <3>2. r = [local[w] EXCEPT !.cell = n, !.index = i]
      BY <1>1 DEF LocalRec
    <3>3. local' = [local EXCEPT ![w] = r] /\ Reads
      BY <1>5, <2>1, <2>4 DEF Iterate
    <3> HIDE DEF n, i, r, e
    <3>4. r \in LocalRec
      BY <1>1, <3>1, <3>2 DEF LocalRec
    <3>5. /\ local'[w] = r /\ r.pc = local[w].pc /\ r.cmd = local[w].cmd /\ r.cell = n
          /\ \A v \in Workers : v # w => local'[v] = local[v]
      BY <1>1, <3>2, <3>3, <3>4, NewRegisters DEF LocalRec, TypeInv
    <3>6. Holds(w)'
      BY <1>1, <2>1, <3>1, <3>3, <3>5 DEF Holds, Unlisted, Counting, Reads
    <3> QED
      BY <2>1, <3>3, <3>5, <3>6, GrowRead DEF Counting
  <2> QED
    BY <2>2, <2>3, <2>4
<1> QED
  BY <1>2, <1>3, <1>4, <1>5 DEF Lookup

LEMMA TestsGrow ==
  ASSUME TypeInv, TypeInv', GrowInv, NEW w \in Workers,
         \/ TestBucket(w) \/ FetchList(w) \/ TestLength(w) \/ ReadTail(w) \/ LoadLength(w)
         \/ UseDocument(w)
  PROVE  GrowInv'
<1>1. /\ local[w] \in LocalRec /\ Holds(w) /\ local[w].cmd # "remove"
  BY LocalTypes DEF TypeInv, GrowInv, Holds
<1>2. CASE TestBucket(w)
  <2>1. PICK pc \in {"create", "fetch"} : Goto(w, pc)
    BY <1>2 DEF TestBucket
  <2>2. Reads /\ local[w].pc = "bucket" /\ local[w].cmd = "add" /\ pc \in Pcs
    BY <1>2, <2>1 DEF TestBucket, At, Pcs
  <2>3. /\ local'[w].pc = pc /\ local'[w].cmd = local[w].cmd /\ local'[w].doc = local[w].doc
        /\ \A v \in Workers : v # w => local'[v] = local[v]
    BY <2>1, <2>2, GotoTyped
  <2>4. Holds(w)'
    BY <1>1, <2>1, <2>2, <2>3 DEF Holds, Unlisted, Counting, Reads
  <2> QED
    BY <2>1, <2>2, <2>3, <2>4, GrowRead DEF Counting
<1>3. CASE FetchList(w)
  <2> DEFINE r == [local[w] EXCEPT !.pc = "append", !.list = bucket]
  <2>1. /\ local' = [local EXCEPT ![w] = r] /\ Reads /\ local[w].pc = "fetch"
        /\ bucket \in Lists \cup {Null} /\ "append" \in Pcs
    BY <1>3 DEF FetchList, At, TypeInv, TypeOK, Pcs
  <2>2. r \in LocalRec
    BY <1>1, <2>1 DEF LocalRec
  <2>3. /\ local'[w] = r /\ r.pc = "append" /\ r.cmd = local[w].cmd /\ r.doc = local[w].doc
        /\ \A v \in Workers : v # w => local'[v] = local[v]
    BY <1>1, <2>1, <2>2, NewRegisters DEF LocalRec, TypeInv
  <2> HIDE DEF r
  <2>4. Holds(w)'
    BY <1>1, <2>1, <2>3 DEF Holds, Unlisted, Counting, Reads
  <2> QED
    BY <2>1, <2>3, <2>4, GrowRead DEF Counting
<1>4. CASE TestLength(w)
  <2> DEFINE l == list[local[w].list]
  <2>1. PICK pc \in {"first", "behind"} : Goto(w, pc) /\ (pc = "behind" => l.length # 0)
    BY <1>4 DEF TestLength
  <2>2. /\ Reads /\ local[w].pc = "append" /\ pc \in Pcs /\ local[w].list \in DOMAIN list
        /\ l.length \in Nat
    BY <1>4, <2>1, DocAssumption
       DEF TestLength, At, Pcs, TypeInv, PointersOf, TypeOK, ListRec
  <2>3. /\ local'[w].pc = pc /\ local'[w].cmd = local[w].cmd /\ local'[w].doc = local[w].doc
        /\ local'[w].list = local[w].list
        /\ \A v \in Workers : v # w => local'[v] = local[v]
    BY <2>1, <2>2, GotoTyped
  <2>4. Holds(w)'
    BY <1>1, <2>1, <2>2, <2>3 DEF Holds, Unlisted, Counting, Reads
  <2> QED
    BY <2>1, <2>2, <2>3, <2>4, GrowRead DEF Counting
<1>5. CASE ReadTail(w)
  <2> DEFINE t == list[local[w].list].tail
             r == [local[w] EXCEPT !.pc = "last", !.cell = t]
  <2>1. /\ local' = [local EXCEPT ![w] = r] /\ Reads /\ local[w].pc = "behind"
        /\ local[w].list \in DOMAIN list /\ "last" \in Pcs
    BY <1>5 DEF ReadTail, At, TypeInv, PointersOf, Pcs
  <2>2. t \in DOMAIN cell /\ t \in Cells \cup {Null} /\ list[local[w].list].length > 0
    BY <1>1, <2>1 DEF TypeInv, TypeOK, ListRec, Holds, GrowInv, Grown
  <2> HIDE DEF t
  <2>3. r \in LocalRec
    BY <1>1, <2>1, <2>2 DEF LocalRec
  <2>4. /\ local'[w] = r /\ r.pc = "last" /\ r.cmd = local[w].cmd /\ r.cell = t
        /\ r.list = local[w].list /\ r.doc = local[w].doc
        /\ \A v \in Workers : v # w => local'[v] = local[v]
    BY <1>1, <2>1, <2>3, NewRegisters DEF LocalRec, TypeInv
  <2> HIDE DEF r
  <2>5. Holds(w)'
    BY <1>1, <2>1, <2>2, <2>4 DEF Holds, Unlisted, Counting, Reads
  <2> QED
    BY <2>1, <2>4, <2>5, GrowRead DEF Counting
<1>6. CASE LoadLength(w)
  <2> DEFINE n == list[local[w].list].length
             r == [local[w] EXCEPT !.pc = "resize", !.length = n]
  <2>1. /\ local' = [local EXCEPT ![w] = r] /\ Reads /\ local[w].pc = "count"
        /\ local[w].list \in DOMAIN list
    BY <1>6 DEF LoadLength, At, TypeInv, PointersOf
  <2>2. n \in 0 .. UInt - 1 /\ "resize" \in Pcs /\ n <= Cardinality(Counted)
    BY <2>1 DEF TypeInv, TypeOK, ListRec, Pcs, GrowInv, Grown
  <2> HIDE DEF n
  <2>3. r \in LocalRec
    BY <1>1, <2>2, ZenonT(60) DEF LocalRec
  <2>4. /\ local'[w] = r /\ r.pc = "resize" /\ r.cmd = local[w].cmd /\ r.length = n
        /\ r.list = local[w].list /\ r.cell = local[w].cell
        /\ \A v \in Workers : v # w => local'[v] = local[v]
    BY <1>1, <2>1, <2>3, NewRegisters DEF LocalRec, TypeInv
  <2> HIDE DEF r
  <2>5. Counted' = Counted
    <3>1. \A v \in Workers : /\ local'[v].pc \in Counting <=> local[v].pc \in Counting
                             /\ local'[v].cell = local[v].cell
      BY <2>1, <2>4 DEF Counting
    <3> QED
      BY <2>1, <3>1 DEF Counted, Reads
  <2>6. Holds(w)'
    BY <1>1, <2>1, <2>2, <2>4, <2>5 DEF Holds, Unlisted, Counting, Reads
  <2> QED
    BY <2>1, <2>4, <2>6, GrowRead DEF Counting
<1>7. CASE UseDocument(w)
  <2>1. local[w].pc = "use" /\ local[w].doc \in DOMAIN doc
    BY <1>1, <1>7 DEF UseDocument, At, Holds
  <2>2. Answer(w, "contents") /\ Reads
    BY <1>7, <2>1 DEF UseDocument
  <2>3. /\ local'[w].pc = "reply" /\ local'[w].cmd = local[w].cmd
        /\ \A v \in Workers : v # w => local'[v] = local[v]
    BY <2>1, <2>2, AnswerTyped
  <2>4. Holds(w)'
    BY <1>1, <2>3 DEF Holds, Unlisted, Counting
  <2> QED
    BY <2>1, <2>2, <2>3, <2>4, GrowRead DEF Counting
<1> QED
  BY <1>2, <1>3, <1>4, <1>5, <1>6, <1>7

(* A new entry that is still to be counted: nothing else counts.           *)
LEMMA CountedOfNew ==
  ASSUME TypeInv, GrowInv, NEW w \in Workers, NEW e \in Cells \ DOMAIN cell,
         DOMAIN cell' = DOMAIN cell \cup {e},
         local[w].pc \notin Counting, local'[w].pc \in Counting, local'[w].cell = e,
         \A v \in Workers : v # w => local'[v] = local[v]
  PROVE  Counted' = Counted /\ OwnEntries'
<1>1. \A v \in Workers : local[v].pc \in Counting => local[v].cell \in DOMAIN cell
  BY DEF GrowInv, Holds
<1>2. OwnEntries'
  BY <1>1 DEF GrowInv, OwnEntries
<1>3. ASSUME NEW x PROVE x \in Counted' <=> x \in Counted
  BY <1>1 DEF Counted
<1> QED
  BY <1>2, <1>3

(* An entry that has been counted.                                         *)
LEMMA CountedOneMore ==
  ASSUME TypeInv, GrowInv, NEW w \in Workers, cell' = cell,
         local[w].pc \in Counting, local'[w].pc \notin Counting,
         \A v \in Workers : v # w => local'[v] = local[v]
  PROVE  /\ Cardinality(Counted)' = Cardinality(Counted) + 1 /\ OwnEntries'
         /\ Cardinality(Counted) + 1 <= Cardinality(Cells)
<1> DEFINE e == local[w].cell
<1>1. e \in DOMAIN cell
  BY DEF GrowInv, Holds
<1>2. OwnEntries'
  BY DEF GrowInv, OwnEntries
<1>3. ASSUME NEW x PROVE x \in Counted' <=> x \in Counted \cup {e}
  <2>1. CASE x = e
    BY <1>1, <2>1 DEF Counted, GrowInv, OwnEntries
  <2>2. CASE x # e
    BY <2>2 DEF Counted
  <2> QED
    BY <2>1, <2>2
<1>4. Counted' = Counted \cup {e} /\ e \notin Counted
  BY <1>1, <1>3 DEF Counted
<1>5. Cardinality(Counted \cup {e}) = Cardinality(Counted) + 1
  BY <1>4, CountedIsFinite, FS_AddElement
<1>6. Cardinality(Counted \cup {e}) <= Cardinality(Cells)
  <2>1. Counted \cup {e} \subseteq Cells
    BY <1>1 DEF Counted, TypeInv, TypeOK
  <2> QED
    BY <2>1, FS_Subset, DocAssumption
<1> QED
  BY <1>2, <1>4, <1>5, <1>6

LEMMA CreateListGrows ==
  ASSUME TypeInv, TypeInv', GrowInv, NEW w \in Workers, CreateList(w)
  PROVE  GrowInv'
<1>1. PICK n \in Lists \ DOMAIN list :
        /\ list' = [x \in DOMAIN list \cup {n} |->
                      IF x = n THEN [length |-> 0, head |-> Null, tail |-> Null] ELSE list[x]]
        /\ Goto(w, "fetch")
  BY DEF CreateList
<1>2. /\ local[w].pc = "create" /\ "fetch" \in Pcs /\ Holds(w)
      /\ UNCHANGED <<status, cell, doc, history>>
  BY DEF CreateList, At, Pcs, GrowInv
<1>3. /\ local'[w].pc = "fetch" /\ local'[w].cmd = local[w].cmd /\ local'[w].doc = local[w].doc
      /\ \A v \in Workers : v # w => local'[v] = local[v]
  BY <1>1, <1>2, GotoTyped
<1>4. /\ DOMAIN list' = DOMAIN list \cup {n}
      /\ \A l \in DOMAIN list : list'[l] = list[l]
      /\ list'[n].length = 0 /\ list'[n].head = Null /\ list'[n].tail = Null
  BY <1>1
<1>5. Counted' = Counted /\ OwnEntries'
  <2>1. \A v \in Workers : /\ local'[v].pc \in Counting <=> local[v].pc \in Counting
                           /\ local[v].pc \in Counting => local'[v].cell = local[v].cell
    BY <1>2, <1>3 DEF Counting
  <2> QED
    BY <1>2, <2>1 DEF Counted, OwnEntries, GrowInv
<1>6. Keeps
  BY <1>2, <1>4, <1>5 DEF Keeps
<1>7. Grown'
  BY <1>2, <1>4, <1>5, CountedIsFinite DEF Grown, GrowInv
<1>8. EditorsHoldMutexes'
  BY <1>2, <1>3, MutexKept DEF GrowInv
<1>9. Holds(w)'
  BY <1>2, <1>3 DEF Holds, Unlisted, Counting
<1> QED
  BY <1>2, <1>3, <1>5, <1>6, <1>7, <1>8, <1>9, GrowStep

(* The list that an "add" appends to.                                      *)
LEMMA BecomeHeadGrows ==
  ASSUME TypeInv, TypeInv', GrowInv, NEW w \in Workers, BecomeHead(w)
  PROVE  GrowInv'
<1> DEFINE l == local[w].list
<1>1. /\ local[w].pc = "first" /\ local[w].cmd = "add" /\ l \in DOMAIN list
      /\ UNCHANGED <<status, bucket, doc, history>> /\ local[w] \in LocalRec /\ Holds(w)
      /\ local[w].doc \in DOMAIN doc
  BY LocalTypes DEF BecomeHead, At, TypeInv, StepOf, PointersOf, GrowInv, Holds, Unlisted
<1>2. PICK e \in Cells \ DOMAIN cell :
        /\ NewEntry(w, e, Null) /\ list' = [list EXCEPT ![l].head = e]
        /\ local' = [local EXCEPT ![w].pc = "alone", ![w].cell = e]
  BY DEF BecomeHead
<1>3. /\ DOMAIN cell' = DOMAIN cell \cup {e}
      /\ cell'[e].next = Null /\ cell'[e].prev = Null /\ cell'[e].doc = local[w].doc
      /\ \A x \in DOMAIN cell : cell'[x] = cell[x]
  <2>1. /\ local[w].cmd = "add" /\ local[w].pc \in Unlisted /\ Null \in Cells \cup {Null}
        /\ e \in Cells \ DOMAIN cell /\ NewEntry(w, e, Null)
    BY <1>1, <1>2 DEF Unlisted
  <2>2. /\ DOMAIN cell' = DOMAIN cell \cup {e}
        /\ cell'[e] = [next |-> Null, prev |-> Null, key |-> local[w].key, doc |-> local[w].doc]
        /\ \A x \in DOMAIN cell : cell'[x] = cell[x]
    BY <2>1, NewEntryTyped
  <2> QED
    BY <2>2
<1> DEFINE r == [local[w] EXCEPT !.pc = "alone", !.cell = e]
<1>4. local' = [local EXCEPT ![w] = r] /\ r \in LocalRec
  BY <1>1, <1>2 DEF LocalRec, Pcs
<1>5. /\ local'[w] = r /\ r.pc = "alone" /\ r.cmd = local[w].cmd /\ r.cell = e /\ r.list = l
      /\ \A v \in Workers : v # w => local'[v] = local[v]
  BY <1>1, <1>4, NewRegisters DEF TypeInv, LocalRec
<1> HIDE DEF r
<1>6. /\ DOMAIN list' = DOMAIN list /\ list'[l].head = e
      /\ list'[l].tail = list[l].tail /\ list'[l].length = list[l].length
      /\ \A x \in DOMAIN list : x # l => list'[x] = list[x]
  <2>1. list[l] \in ListRec
    BY <1>1 DEF TypeInv, TypeOK
  <2> QED
    BY <1>1, <1>2, <2>1 DEF ListRec
<1> HIDE DEF l
<1>7. Counted' = Counted /\ OwnEntries'
  BY <1>1, <1>3, <1>5, CountedOfNew DEF Counting
<1>8. Keeps
  BY <1>1, <1>3, <1>6, <1>7 DEF Keeps
<1>9. Grown'
  BY <1>1, <1>3, <1>6, <1>7 DEF Grown, GrowInv
<1>10. EditorsHoldMutexes'
  BY <1>1, <1>5, MutexKept DEF GrowInv
<1>11. Holds(w)'
  BY <1>1, <1>3, <1>5, <1>6 DEF Holds, Unlisted, Counting
<1> QED
  BY <1>1, <1>5, <1>7, <1>8, <1>9, <1>10, <1>11, GrowStep

LEMMA BecomeTailGrows ==
  ASSUME TypeInv, TypeInv', GrowInv, NEW w \in Workers, BecomeTail(w)
  PROVE  GrowInv'
<1> DEFINE l == local[w].list
           p == local[w].cell
<1>1. /\ local[w].pc = "last" /\ local[w].cmd = "add" /\ l \in DOMAIN list
      /\ UNCHANGED <<status, bucket, doc, history>> /\ local[w] \in LocalRec /\ Holds(w)
      /\ local[w].doc \in DOMAIN doc /\ p \in DOMAIN cell /\ p \in Cells \cup {Null}
      /\ list[l].length > 0
  BY LocalTypes DEF BecomeTail, At, TypeInv, StepOf, PointersOf, GrowInv, Holds, Unlisted
<1>2. PICK e \in Cells \ DOMAIN cell :
        /\ NewEntry(w, e, p) /\ list' = [list EXCEPT ![l].tail = e]
        /\ local' = [local EXCEPT ![w].pc = "link", ![w].cell = e]
  BY DEF BecomeTail
<1>3. /\ DOMAIN cell' = DOMAIN cell \cup {e}
      /\ cell'[e].next = Null /\ cell'[e].prev = p /\ cell'[e].doc = local[w].doc
      /\ \A x \in DOMAIN cell : cell'[x] = cell[x]
  <2>1. /\ local[w].cmd = "add" /\ local[w].pc \in Unlisted /\ p \in Cells \cup {Null}
        /\ e \in Cells \ DOMAIN cell /\ NewEntry(w, e, p)
    BY <1>1, <1>2 DEF Unlisted
  <2>2. /\ DOMAIN cell' = DOMAIN cell \cup {e}
        /\ cell'[e] = [next |-> Null, prev |-> p, key |-> local[w].key, doc |-> local[w].doc]
        /\ \A x \in DOMAIN cell : cell'[x] = cell[x]
    BY <2>1, NewEntryTyped
  <2> QED
    BY <2>2
<1> DEFINE r == [local[w] EXCEPT !.pc = "link", !.cell = e]
<1>4. local' = [local EXCEPT ![w] = r] /\ r \in LocalRec
  BY <1>1, <1>2 DEF LocalRec, Pcs
<1>5. /\ local'[w] = r /\ r.pc = "link" /\ r.cmd = local[w].cmd /\ r.cell = e /\ r.list = l
      /\ \A v \in Workers : v # w => local'[v] = local[v]
  BY <1>1, <1>4, NewRegisters DEF TypeInv, LocalRec
<1> HIDE DEF r
<1>6. /\ DOMAIN list' = DOMAIN list /\ list'[l].tail = e
      /\ list'[l].head = list[l].head /\ list'[l].length = list[l].length
      /\ \A x \in DOMAIN list : x # l => list'[x] = list[x]
      /\ list[l].head \in DOMAIN cell
  <2>1. list[l] \in ListRec /\ list[l].head \in DOMAIN cell
    BY <1>1 DEF TypeInv, TypeOK, GrowInv, Grown
  <2> QED
    BY <1>1, <1>2, <2>1 DEF ListRec
<1> HIDE DEF l, p
<1>7. Counted' = Counted /\ OwnEntries'
  BY <1>1, <1>3, <1>5, CountedOfNew DEF Counting
<1>8. Keeps
  BY <1>1, <1>3, <1>6, <1>7 DEF Keeps
<1>9. Grown'
  BY <1>1, <1>3, <1>6, <1>7 DEF Grown, GrowInv
<1>10. EditorsHoldMutexes'
  BY <1>1, <1>5, MutexKept DEF GrowInv
<1>11. Holds(w)'
  BY <1>1, <1>3, <1>5, <1>6 DEF Holds, Unlisted, Counting
<1> QED
  BY <1>1, <1>5, <1>7, <1>8, <1>9, <1>10, <1>11, GrowStep

LEMMA BecomeOnlyTailGrows ==
  ASSUME TypeInv, TypeInv', GrowInv, NEW w \in Workers, BecomeOnlyTail(w)
  PROVE  GrowInv'
<1> DEFINE l == local[w].list
           e == local[w].cell
<1>1. /\ local[w].pc = "alone" /\ l \in DOMAIN list /\ Goto(w, "link") /\ "link" \in Pcs
      /\ UNCHANGED <<status, bucket, cell, doc, history>> /\ Holds(w) /\ local[w].cmd = "add"
      /\ list' = [list EXCEPT ![l].tail = e]
      /\ e \in DOMAIN cell /\ list[l].head \in DOMAIN cell
  BY DEF BecomeOnlyTail, At, TypeInv, StepOf, PointersOf, GrowInv, Holds, Counting, Pcs
<1>2. /\ local'[w].pc = "link" /\ local'[w].cmd = local[w].cmd /\ local'[w].list = l
      /\ local'[w].cell = e /\ \A v \in Workers : v # w => local'[v] = local[v]
  BY <1>1, GotoTyped
<1>3. /\ DOMAIN list' = DOMAIN list /\ list'[l].tail = e
      /\ list'[l].head = list[l].head /\ list'[l].length = list[l].length
      /\ \A x \in DOMAIN list : x # l => list'[x] = list[x]
  <2>1. list[l] \in ListRec
    BY <1>1 DEF TypeInv, TypeOK
  <2> QED
    BY <1>1, <2>1 DEF ListRec
<1> HIDE DEF l, e
<1>4. Counted' = Counted /\ OwnEntries'
  <2>1. \A v \in Workers : /\ local'[v].pc \in Counting <=> local[v].pc \in Counting
                           /\ local[v].pc \in Counting => local'[v].cell = local[v].cell
    BY <1>1, <1>2 DEF Counting, e
  <2> QED
    BY <1>1, <2>1 DEF Counted, OwnEntries, GrowInv
<1>5. Keeps
  BY <1>1, <1>3, <1>4 DEF Keeps
<1>6. Grown'
  BY <1>1, <1>3, <1>4 DEF Grown, GrowInv
<1>7. EditorsHoldMutexes'
  BY <1>1, <1>2, MutexKept DEF GrowInv
<1>8. Holds(w)'
  BY <1>1, <1>2, <1>3 DEF Holds, Unlisted, Counting
<1> QED
  BY <1>1, <1>2, <1>4, <1>5, <1>6, <1>7, <1>8, GrowStep

LEMMA LinkEntryGrows ==
  ASSUME TypeInv, TypeInv', GrowInv, NEW w \in Workers, LinkEntry(w)
  PROVE  GrowInv'
<1> DEFINE l == local[w].list
           e == local[w].cell
           p == cell[e].prev
<1>1. /\ local[w].pc = "link" /\ l \in DOMAIN list /\ Holds(w) /\ "count" \in Pcs
      /\ e \in DOMAIN cell /\ list[l].head \in DOMAIN cell /\ list[l].tail \in DOMAIN cell
      /\ local[w].cmd # "remove"
  BY DEF LinkEntry, At, TypeInv, PointersOf, GrowInv, Holds, Counting, Pcs
<1>2. p \in DOMAIN cell \cup {Null}
  BY <1>1 DEF GrowInv, Grown
<1>3. /\ Goto(w, "count") /\ UNCHANGED <<status, bucket, list, doc, history>>
      /\ DOMAIN cell' = DOMAIN cell
      /\ \A x \in DOMAIN cell :
           /\ cell'[x].prev = cell[x].prev /\ cell'[x].doc = cell[x].doc
           /\ cell'[x].next = cell[x].next \/ cell'[x].next = e
  <2>1. CASE p = Null
    BY <1>1, <2>1 DEF LinkEntry, Reads
  <2>2. CASE p # Null
    <3>1. /\ cell' = [cell EXCEPT ![p].next = e] /\ p \in DOMAIN cell /\ Goto(w, "count")
          /\ UNCHANGED <<status, bucket, list, doc, history>>
      BY <1>1, <1>2, <2>2 DEF LinkEntry
    <3>2. cell[p] \in CellRec
      BY <3>1 DEF TypeInv, TypeOK
    <3> HIDE DEF e, p
    <3> QED
      BY <3>1, <3>2 DEF CellRec
  <2> QED
    BY <2>1, <2>2
<1>4. /\ local'[w].pc = "count" /\ local'[w].cmd = local[w].cmd /\ local'[w].list = l
      /\ local'[w].cell = e /\ \A v \in Workers : v # w => local'[v] = local[v]
  BY <1>1, <1>3, GotoTyped
<1> HIDE DEF l, e, p
<1>5. Counted' = Counted /\ OwnEntries'
  <2>1. \A v \in Workers : /\ local'[v].pc \in Counting <=> local[v].pc \in Counting
                           /\ local[v].pc \in Counting => local'[v].cell = local[v].cell
    BY <1>1, <1>4 DEF Counting, e
  <2> QED
    BY <1>3, <2>1 DEF Counted, OwnEntries, GrowInv
<1>6. Keeps
  BY <1>3, <1>5 DEF Keeps
<1>7. Grown'
  BY <1>1, <1>3, <1>5 DEF Grown, GrowInv
<1>8. EditorsHoldMutexes'
  BY <1>1, <1>3, <1>4, MutexKept DEF GrowInv
<1>9. Holds(w)'
  BY <1>1, <1>3, <1>4 DEF Holds, Unlisted, Counting
<1> QED
  BY <1>1, <1>3, <1>4, <1>5, <1>6, <1>7, <1>8, <1>9, GrowStep

(* A length that is stored was loaded before it was increased, so it may   *)
(* take back what others have counted, but it is never 0 again.            *)
LEMMA StoreLengthGrows ==
  ASSUME Countable, TypeInv, TypeInv', GrowInv, NEW w \in Workers, StoreLength(w)
  PROVE  GrowInv'
<1> DEFINE l == local[w].list
           m == local[w].length
<1>1. /\ local[w].pc = "resize" /\ l \in DOMAIN list /\ Holds(w) /\ Answer(w, "ok")
      /\ UNCHANGED <<status, bucket, cell, doc, history>> /\ local[w].cmd = "add"
      /\ list[l].head \in DOMAIN cell /\ list[l].tail \in DOMAIN cell
      /\ m \in Nat /\ m <= Cardinality(Counted)
  <2>1. /\ local[w].pc = "resize" /\ l \in DOMAIN list /\ Holds(w) /\ Answer(w, "ok")
        /\ UNCHANGED <<status, bucket, cell, doc, history>>
    BY DEF StoreLength, At, TypeInv, PointersOf, GrowInv
  <2>2. local[w].cmd = "add"
    BY <2>1 DEF TypeInv, StepOf, Holds, Change
  <2>3. m \in Nat
    BY LocalTypes, DocAssumption DEF TypeInv
  <2> QED
    BY <2>1, <2>2, <2>3 DEF Holds, Counting
<1>2. /\ local'[w].pc = "reply" /\ local'[w].cmd = local[w].cmd
      /\ \A v \in Workers : v # w => local'[v] = local[v]
  BY <1>1, AnswerTyped
<1>3. /\ Cardinality(Counted)' = Cardinality(Counted) + 1 /\ OwnEntries'
      /\ Cardinality(Counted) + 1 <= Cardinality(Cells)
      /\ Cardinality(Counted) \in Nat /\ Cardinality(Cells) \in Nat
  BY <1>1, <1>2, CountedOneMore, CountedIsFinite DEF Counting
<1>4. (m + 1) % UInt = m + 1
  <2>1. m + 1 \in Nat /\ m + 1 < UInt
    BY <1>1, <1>3, DocAssumption DEF Countable
  <2> QED
    BY <2>1, SmallModulo, DocAssumption
<1>5. list' = [list EXCEPT ![l].length = m + 1]
  BY <1>1, <1>4 DEF StoreLength
<1>6. /\ DOMAIN list' = DOMAIN list /\ list'[l].length = m + 1
      /\ list'[l].head = list[l].head /\ list'[l].tail = list[l].tail
      /\ \A x \in DOMAIN list : x # l => list'[x] = list[x]
  <2>1. list[l] \in ListRec
    BY <1>1 DEF TypeInv, TypeOK
  <2> HIDE DEF m
  <2> QED
    BY <1>1, <1>5, <2>1 DEF ListRec
<1> HIDE DEF l, m
<1>7. /\ m + 1 > 0 /\ m + 1 <= Cardinality(Counted)'
      /\ \A n \in Nat : n <= Cardinality(Counted) => n <= Cardinality(Counted)'
  BY <1>1, <1>3
<1>8. Keeps
  BY <1>1, <1>6, <1>7 DEF Keeps
<1>9. Grown'
  <2>1. \A x \in DOMAIN list : list[x].length \in Nat
    BY DocAssumption DEF TypeInv, TypeOK, ListRec
  <2>2. ASSUME NEW x \in DOMAIN list
        PROVE  list'[x].length <= Cardinality(Counted)'
    BY <1>6, <1>7, <2>1 DEF GrowInv, Grown
  <2> QED
    BY <1>1, <1>6, <2>2 DEF Grown, GrowInv
<1>10. EditorsHoldMutexes'
  BY <1>1, <1>2, MutexKept DEF GrowInv
<1>11. Holds(w)'
  BY <1>1, <1>2 DEF Holds, Unlisted, Counting
<1> QED
  BY <1>1, <1>2, <1>3, <1>8, <1>9, <1>10, <1>11, GrowStep

LEMMA SessionGrows ==
  ASSUME TypeInv, TypeInv', GrowInv, NEW w \in Workers, Session(w)
  PROVE  GrowInv'
<1>1. /\ TypeOK /\ EditorsHoldMutexes /\ StepOf(w) /\ Holds(w) /\ local[w].doc \in DOMAIN doc
  <2>1. local[w].pc \in {"lock", "load", "store", "unlock"}
    BY DEF Session, LockDocument, LoadCollaborators, StoreCollaborators, UnlockDocument, At
  <2> QED
    BY <2>1 DEF TypeInv, GrowInv, Holds
<1>2. PICK r \in LocalRec : Edits(w, r)
  BY <1>1, SessionEdits
<1>3. /\ local'[w] = r
      /\ \A v \in Workers : v # w => local'[v] = local[v]
  BY <1>1, <1>2, NewRegisters DEF Edits
<1>4. /\ UNCHANGED <<status, bucket, list, cell, history>>
      /\ local[w].pc \in {"lock", "load", "store", "unlock"}
      /\ r.pc \in {"load", "store", "unlock", "reply"}
      /\ r.cmd = local[w].cmd /\ r.doc = local[w].doc
      /\ DOMAIN doc' = DOMAIN doc
  BY <1>2 DEF Edits
<1>5. EditorsHoldMutexes'
  BY <1>1, <1>2, EditsHoldMutexes
<1>6. Counted' = Counted /\ OwnEntries'
  <2>1. \A v \in Workers : /\ local'[v].pc \in Counting <=> local[v].pc \in Counting
                           /\ local[v].pc \in Counting => local'[v].cell = local[v].cell
    BY <1>3, <1>4 DEF Counting
  <2> QED
    BY <1>4, <2>1 DEF Counted, OwnEntries, GrowInv
<1>7. Keeps
  BY <1>4, <1>6 DEF Keeps
<1>8. Grown'
  BY <1>4, <1>6 DEF Grown, GrowInv
<1>9. Holds(w)'
  BY <1>1, <1>3, <1>4 DEF Holds, Unlisted, Counting
<1> QED
  BY <1>3, <1>4, <1>5, <1>6, <1>7, <1>8, <1>9, GrowStep

(* No worker removes anything.                                             *)
LEMMA RemovalGrows ==
  ASSUME TypeInv, GrowInv, NEW w \in Workers, Removal(w)
  PROVE  FALSE
<1>1. local[w].pc \in {"locate", "freeDoc", "unlink"}
  BY DEF Removal, LocateEntry, FreeDocument, UnlinkEntry, At
<1> QED
  BY <1>1 DEF TypeInv, StepOf, GrowInv, Holds

LEMMA ReceiveGrows ==
  ASSUME TypeInv, TypeInv', GrowInv, ~ history'.removed, NEW w \in Workers, Receive(w)
  PROVE  GrowInv'
<1>1. PICK r \in LocalRec :
        /\ local' = [local EXCEPT ![w] = r]
        /\ r.pc = "bucket" /\ r.cmd \in Commands
        /\ Record(w, r.cmd)
        /\ r.cmd = "add" => r.doc \in Docs \ DOMAIN doc /\ documentCreate(r.doc)
        /\ r.cmd # "add" => doc' = doc
  BY ReceivedCommand
<1>2. local'[w] = r /\ \A v \in Workers : v # w => local'[v] = local[v]
  BY <1>1, NewRegisters DEF TypeInv
<1>3. UNCHANGED <<status, bucket, list, cell>> /\ local[w].pc = "idle"
  BY DEF Receive, At
<1>4. r.cmd # "remove"
  BY <1>1, RecordTyped
<1>5. /\ DOMAIN doc \subseteq DOMAIN doc' /\ \A d \in DOMAIN doc : doc'[d] = doc[d]
      /\ r.cmd = "add" => r.doc \in DOMAIN doc'
      /\ \A d \in DOMAIN doc' \ DOMAIN doc : d = r.doc /\ doc'[d].mutex = Nobody
  BY <1>1 DEF documentCreate
<1>6. EditorsHoldMutexes'
  <2>1. \A d : Editing(d)' = Editing(d)
    BY <1>1, <1>2, <1>3 DEF Editing
  <2>2. ASSUME NEW d \in DOMAIN doc' \ DOMAIN doc
        PROVE  Editing(d) = {}
    BY <2>2 DEF GrowInv, Holds, Editing
  <2> QED
    BY <1>5, <2>1, <2>2 DEF GrowInv, EditorsHoldMutexes
<1>7. Counted' = Counted /\ OwnEntries'
  <2>1. \A v \in Workers : /\ local'[v].pc \in Counting <=> local[v].pc \in Counting
                           /\ local[v].pc \in Counting => local'[v].cell = local[v].cell
    BY <1>1, <1>2, <1>3 DEF Counting
  <2> QED
    BY <1>3, <2>1 DEF Counted, OwnEntries, GrowInv
<1>8. Keeps
  BY <1>3, <1>5, <1>7 DEF Keeps
<1>9. Grown'
  BY <1>3, <1>5, <1>7 DEF Grown, GrowInv
<1>10. Holds(w)'
  BY <1>1, <1>2, <1>4, <1>5 DEF Holds, Counting
<1> QED
  BY <1>2, <1>3, <1>6, <1>7, <1>8, <1>9, <1>10, GrowStep

(* A command that is answered at once, and an answer that is sent.         *)
LEMMA RequestGrows ==
  ASSUME TypeInv, TypeInv', GrowInv, NEW w \in Workers, ReceiveUnparsable(w) \/ Reply(w)
  PROVE  GrowInv'
<1>1. UNCHANGED <<status, bucket, list, cell, doc>> /\ local[w].pc \in {"idle", "reply"}
  BY DEF ReceiveUnparsable, Reply, At
<1>2. PICK r \in LocalRec :
        /\ local' = [local EXCEPT ![w] = r]
        /\ r.pc \in {"idle", "reply"} /\ r.cmd \in {"add", "none"}
  <2>1. CASE ReceiveUnparsable(w)
    <3>1. PICK k \in Keys :
            local' = [local EXCEPT ![w] =
              [Idle EXCEPT !.pc = "reply", !.cmd = "add", !.key = k, !.reply = "nil"]]
      BY <2>1, Zenon DEF ReceiveUnparsable
    <3> DEFINE x == [Idle EXCEPT !.pc = "reply", !.cmd = "add", !.key = k, !.reply = "nil"]
    <3>2. "add" \in Commands
      BY <2>1 DEF ReceiveUnparsable
    <3>3. x \in LocalRec
      BY <3>2, IdleIsTyped, ZenonT(60) DEF LocalRec, Pcs
    <3>4. x.pc = "reply" /\ x.cmd = "add"
      BY IdleIsTyped DEF LocalRec
    <3> QED
      BY <3>1, <3>3, <3>4
  <2>2. CASE Reply(w)
    BY <2>2, IdleIsTyped DEF Reply
  <2> QED
    BY <2>1, <2>2
<1>3. local'[w] = r /\ \A v \in Workers : v # w => local'[v] = local[v]
  BY <1>2, NewRegisters DEF TypeInv
<1>4. EditorsHoldMutexes'
  BY <1>1, <1>2, <1>3, MutexKept DEF GrowInv
<1>5. Counted' = Counted /\ OwnEntries'
  <2>1. \A v \in Workers : /\ local'[v].pc \in Counting <=> local[v].pc \in Counting
                           /\ local[v].pc \in Counting => local'[v].cell = local[v].cell
    BY <1>1, <1>2, <1>3 DEF Counting
  <2> QED
    BY <1>1, <2>1 DEF Counted, OwnEntries, GrowInv
<1>6. Keeps /\ Grown'
  BY <1>1, <1>5 DEF Keeps, Grown, GrowInv
<1>7. Holds(w)'
  BY <1>2, <1>3 DEF Holds, Counting, Unlisted
<1> QED
  BY <1>1, <1>3, <1>4, <1>5, <1>6, <1>7, GrowStep

(* The server ends: nothing else changes.                                  *)
LEMMA ReceiveTruncatedGrows ==
  ASSUME GrowInv, NEW w \in Workers, ReceiveTruncated(w)
  PROVE  GrowInv'
<1>1. status' = "noContents" /\ UNCHANGED <<bucket, list, cell, doc, local, history>>
  BY DEF ReceiveTruncated, Stop
<1>2. Counted' = Counted /\ \A d : Editing(d)' = Editing(d)
  BY <1>1 DEF Counted, Editing
<1>3. Runs' /\ EditorsHoldMutexes' /\ OwnEntries'
  BY <1>1, <1>2 DEF GrowInv, Runs, EditorsHoldMutexes, OwnEntries
<1>4. Grown'
  BY <1>1, <1>2 DEF GrowInv, Grown
<1>5. ASSUME NEW v \in Workers PROVE Holds(v)'
  BY <1>1, <1>2 DEF GrowInv, Holds
<1> QED
  BY <1>3, <1>4, <1>5 DEF GrowInv

LEMMA InitGrown ==
  ASSUME Countable, Init
  PROVE  GrowInv
<1>1. StoreInv
  BY InitStore
<1>2. /\ \A w \in Workers : local[w].pc = "idle" /\ local[w].cmd = "none"
      /\ \A l \in DOMAIN list : l = bucket
  BY DEF Init, Idle
<1>3. bucket # Null <=> bucket \in DOMAIN list
  BY <1>1, DocAssumption DEF StoreInv, TypeOK
<1>4. PICK order \in [1 .. Size -> DOMAIN cell] : Chained(order) /\ Anchored(order)
  BY <1>1 DEF StoreInv
<1>5. Size \in Nat
  BY <1>1, SizeIsNatural
<1>6. Counted = DOMAIN cell
  BY <1>2 DEF Counted, Counting
<1>7. ~ Linking /\ ~ NoTail
  BY <1>2 DEF Linking, NoTail
<1>8. ASSUME NEW e \in DOMAIN cell
      PROVE  /\ cell[e].next \in DOMAIN cell \cup {Null} /\ cell[e].prev \in DOMAIN cell \cup {Null}
             /\ cell[e].doc \in DOMAIN doc
  <2>1. PICK i \in 1 .. Size : order[i] = e
    BY <1>4 DEF Chained
  <2>2. (i # 1 => i - 1 \in 1 .. Size) /\ (i # Size => i + 1 \in 1 .. Size)
    BY <1>5
  <2>3. cell[e].next \in DOMAIN cell \cup {Null} /\ cell[e].prev \in DOMAIN cell \cup {Null}
    BY <1>4, <1>7, <2>1, <2>2 DEF Chained
  <2> QED
    BY <1>1, <1>2, <2>3 DEF StoreInv, OwnDocuments
<1>9. ASSUME NEW l \in DOMAIN list
      PROVE  /\ list[l].head \in DOMAIN cell /\ list[l].tail \in DOMAIN cell
             /\ list[l].length <= Cardinality(Counted)
  <2>1. l = bucket /\ bucket # Null
    BY <1>2, <1>3, <1>9
  <2>2. \A w \in Workers : local[w].pc \notin Counting
    BY <1>2 DEF Counting
  <2>3. list[bucket].length # 0
    <3> DEFINE n == Cardinality(Stored)
               x == CHOOSE x \in Lists : TRUE
    <3>1. n # 0 /\ bucket = x
      BY <2>1 DEF Init
    <3>2. \E h, t : list = [y \in (IF n = 0 THEN {} ELSE {x}) |->
                               [length |-> n, head |-> h, tail |-> t]]
      BY DEF Init
    <3> HIDE DEF n, x
    <3> QED
      BY <3>1, <3>2
  <2> QED
    BY <1>4, <1>5, <1>6, <1>7, <2>1, <2>2, <2>3 DEF Anchored, Size
<1>10. Grown
  BY <1>8, <1>9 DEF Grown
<1>11. OwnEntries /\ \A w \in Workers : Holds(w)
  BY <1>2 DEF OwnEntries, Holds, Counting, Unlisted
<1> QED
  BY <1>1, <1>10, <1>11 DEF GrowInv, StoreInv

LEMMA NextGrows ==
  ASSUME Countable, GrowInv, TypeInv, TypeInv', ~ history'.removed, [Next]_vars
  PROVE  GrowInv'
<1>1. CASE UNCHANGED vars
  BY <1>1 DEF vars, GrowInv, Runs, EditorsHoldMutexes, Editing, Grown, Counted, OwnEntries, Holds
<1>2. ASSUME NEW w \in Workers,
             Receive(w) \/ ReceiveUnparsable(w) \/ ReceiveTruncated(w) \/ Reply(w)
      PROVE  GrowInv'
  BY <1>2, ReceiveGrows, RequestGrows, ReceiveTruncatedGrows
<1>3. ASSUME NEW w \in Workers, Lookup(w) \/ UseDocument(w) \/ Session(w) \/ Removal(w)
      PROVE  GrowInv'
  BY <1>3, LookupGrows, TestsGrow, SessionGrows, RemovalGrows
<1>4. ASSUME NEW w \in Workers, Addition(w) \/ LoadLength(w) \/ StoreLength(w)
      PROVE  GrowInv'
  BY <1>4, TestsGrow, CreateListGrows, BecomeHeadGrows, BecomeTailGrows, BecomeOnlyTailGrows,
     LinkEntryGrows, StoreLengthGrows
     DEF Addition
<1> QED
  BY <1>1, <1>2, <1>3, <1>4 DEF Next, Run

-----------------------------------------------------------------------------
(* The theorems on what holds until a remove comes between other commands. *)

(* What has overlapped or has been removed stays so.                       *)
LEMMA HistoryGrows ==
  ASSUME TypeInv, [Next]_vars
  PROVE  /\ history.overlapped => history'.overlapped
         /\ history.removed => history'.removed
<1>1. CASE history' = history
  BY <1>1
<1>2. CASE \E w \in Workers, c \in {"add", "get", "remove", "start", "end"} : Record(w, c)
  BY <1>2, RecordTyped
<1>3. CASE \E w \in Workers : Reply(w)
  <2>1. history \in HistoryRec
    BY DEF TypeInv, TypeOK
  <2> QED
    BY <1>3, <2>1 DEF Reply, HistoryRec
<1>4. ASSUME NEW w \in Workers, Receive(w) \/ ReceiveUnparsable(w) \/ ReceiveTruncated(w)
      PROVE  \/ history' = history
             \/ \E c \in {"add", "get", "remove", "start", "end"} : Record(w, c)
  BY <1>4, ReceivedCommand, DocAssumption DEF ReceiveUnparsable, ReceiveTruncated, Stop
<1>5. ASSUME NEW w \in Workers, Run(w), ~ Reply(w)
      PROVE  history' = history
  <2>1. CASE Lookup(w) \/ UseDocument(w)
    BY <2>1 DEF Lookup, ReadBucket, ReadLength, GetSingle, Iterate, UseDocument, Reads, Stop
  <2>2. CASE Session(w)
    BY <2>2 DEF Session, LockDocument, LoadCollaborators, StoreCollaborators, UnlockDocument,
                Reads, Stop
  <2>3. CASE Removal(w)
    BY <2>3 DEF Removal, LocateEntry, FreeDocument, UnlinkEntry, Reads, Stop
  <2>4. CASE Addition(w) \/ LoadLength(w) \/ StoreLength(w)
    BY <2>4 DEF Addition, TestBucket, CreateList, FetchList, TestLength, BecomeHead,
                BecomeOnlyTail, ReadTail, BecomeTail, LinkEntry, LoadLength, StoreLength,
                Reads, Stop
  <2> QED
    BY <1>5, <2>1, <2>2, <2>3, <2>4 DEF Run
<1>6. CASE UNCHANGED vars
  BY <1>6 DEF vars
<1> QED
  BY <1>1, <1>2, <1>3, <1>4, <1>5, <1>6 DEF Next

(* What holds always, until commands overlap, and until a remove is sent.  *)
HistoryInv ==
  /\ TypeInv
  /\ ~ history.overlapped => StoreInv
  /\ ~ history.removed => GrowInv

LEMMA HistoryStep ==
  ASSUME Countable, HistoryInv, [Next]_vars
  PROVE  HistoryInv'
BY NextTyped, NextStore, NextGrows, HistoryGrows DEF HistoryInv

LEMMA HistoryInvariance ==
  ASSUME Countable
  PROVE  Spec => []HistoryInv
<1>1. Init => HistoryInv
  BY InitTyped, InitStore, InitGrown DEF HistoryInv
<1>2. HistoryInv /\ [Next]_vars => HistoryInv'
  BY HistoryStep
<1> QED
  BY <1>1, <1>2, PTL DEF Spec

(* Without a remove, whatever runs at once, and with one, as long as adds  *)
(* and removes are run alone, no command trips the assertion of a list or  *)
(* uses a document or an entry that was freed.                             *)
THEOREM CommandsNeverStop ==
  ASSUME Countable
  PROVE  Spec => []NeverStops
<1>1. HistoryInv => NeverStops
  BY DEF HistoryInv, StoreInv, GrowInv, NeverStops, Harmless
<1> QED
  BY <1>1, HistoryInvariance, PTL

(* As long, the mutex of a document is held by the one worker that edits   *)
(* its collaborators, and is free if nobody does.                          *)
THEOREM EditorHoldsMutex ==
  ASSUME Countable
  PROVE  Spec => []MutexHeldByEditor
<1>1. HistoryInv => MutexHeldByEditor
  BY DEF HistoryInv, StoreInv, GrowInv, MutexHeldByEditor, Harmless
<1> QED
  BY <1>1, HistoryInvariance, PTL

(* The entries in the order of the list.                                   *)
Order == CHOOSE order \in [1 .. Size -> DOMAIN cell] : Chained(order)

(* The p-th entry is the oldest one with the key k.                        *)
First(p, k) ==
  /\ p \in 1 .. Size
  /\ cell[Order[p]].key = k
  /\ \A i \in 1 .. Size : cell[Order[i]].key = k => p <= i

(* What the registers of a command say of the documents of its key,        *)
(* between the step that found it out and the one that takes effect.       *)
Found(r) ==
  /\ r.pc = "idle" => r = Idle
  /\ r.pc = "reply" <=> r.reply # "none"
  /\ r.pc = "iterate" => \A i \in 1 .. Size : i <= r.index => cell[Order[i]].key # r.key
  /\ r.pc \in {"use", "lock", "load", "store"} =>
       \E p \in 1 .. Size : First(p, r.key) /\ cell[Order[p]].doc = r.doc
  /\ r.pc = "locate" => First(r.index + 1, r.key)
  /\ r.pc = "freeDoc" => \E p \in 1 .. Size : First(p, r.key) /\ r.cell = Order[p]
  /\ r.pc = "store" => r.copy = doc[r.doc].collaborators
  /\ r.pc = "unlink" => cell[r.cell].doc \notin DOMAIN doc
  /\ r.cmd = "add" /\ r.pc \in Unlisted \cup {"alone", "link"} =>
       doc[r.doc].collaborators = <<>>
  /\ r.pc \in {"alone", "link"} => cell[r.cell].key = r.key /\ cell[r.cell].doc = r.doc

FindingsOf(w) == Found(local[w])

Findings == \A w \in Workers : FindingsOf(w)

-----------------------------------------------------------------------------
(* There is one order that the entries have.                               *)

Linked(c, n, order) ==
  /\ order \in [1 .. n -> DOMAIN c]
  /\ \A i, j \in 1 .. n : order[i] = order[j] => i = j
  /\ \A e \in DOMAIN c : \E i \in 1 .. n : order[i] = e
  /\ \A i \in 1 .. n : c[order[i]].prev = IF i = 1 THEN Null ELSE order[i - 1]

LEMMA OneOrder ==
  ASSUME NEW c, NEW n \in Nat, Null \notin DOMAIN c,
         NEW a, NEW b, Linked(c, n, a), Linked(c, n, b)
  PROVE  a = b
<1> DEFINE S == {m \in Nat : m + 1 <= n => a[m + 1] = b[m + 1]}
<1>1. \A i \in 1 .. n : a[i] \in DOMAIN c /\ b[i] \in DOMAIN c
  BY DEF Linked
<1>2. 0 \in S
  <2> SUFFICES ASSUME 1 <= n PROVE a[1] = b[1]
    OBVIOUS
  <2>1. 1 \in 1 .. n
    OBVIOUS
  <2>2. PICK j \in 1 .. n : b[j] = a[1]
    BY <1>1, <2>1 DEF Linked
  <2>3. c[a[1]].prev = Null
    BY <2>1 DEF Linked
  <2>4. CASE j = 1
    BY <2>2, <2>4
  <2>5. CASE j # 1
    <3>1. j - 1 \in 1 .. n
      BY <2>5
    <3>2. c[b[j]].prev = b[j - 1]
      BY <2>5 DEF Linked
    <3> QED
      BY <1>1, <2>2, <2>3, <3>1, <3>2
  <2> QED
    BY <2>4, <2>5
<1>3. ASSUME NEW m \in S
      PROVE  m + 1 \in S
  <2>1. PICK k : k = m + 1
    OBVIOUS
  <2> SUFFICES ASSUME k + 1 <= n PROVE a[k + 1] = b[k + 1]
    BY <2>1
  <2>2. PICK l : l = k + 1
    OBVIOUS
  <2>3. k \in 1 .. n /\ l \in 1 .. n /\ l # 1 /\ l - 1 = k
    BY <2>1, <2>2
  <2>4. a[k] = b[k]
    BY <2>1, <2>3
  <2>5. PICK j \in 1 .. n : b[j] = a[l]
    BY <1>1, <2>3 DEF Linked
  <2>6. c[a[l]].prev = a[k]
    BY <2>3 DEF Linked
  <2>7. j # 1
    <3> SUFFICES ASSUME j = 1 PROVE FALSE
      OBVIOUS
    <3>1. c[b[j]].prev = Null
      BY DEF Linked
    <3> QED
      BY <1>1, <2>3, <2>5, <2>6, <3>1
  <2>8. PICK i : i = j - 1
    OBVIOUS
  <2>9. i \in 1 .. n
    BY <2>7, <2>8
  <2>10. c[b[j]].prev = b[i]
    BY <2>7, <2>8 DEF Linked
  <2>11. b[i] = b[k]
    BY <2>4, <2>5, <2>6, <2>10
  <2>12. i = k
    BY <2>3, <2>9, <2>11 DEF Linked
  <2>13. j = l
    BY <2>2, <2>8, <2>12
  <2> QED
    BY <2>2, <2>5, <2>13
<1> HIDE DEF S
<1>4. \A m \in Nat : m \in S
  BY <1>2, <1>3, NatSetInduction
<1>5. ASSUME NEW i \in 1 .. n
      PROVE  a[i] = b[i]
  <2>1. PICK m : m = i - 1
    OBVIOUS
  <2>2. m \in Nat /\ m + 1 = i
    BY <2>1
  <2>3. m + 1 <= n => a[m + 1] = b[m + 1]
    BY <1>4, <2>2 DEF S
  <2> QED
    BY <2>2, <2>3
<1>6. a \in [1 .. n -> DOMAIN c] /\ b \in [1 .. n -> DOMAIN c]
  BY DEF Linked
<1> QED
  BY <1>5, <1>6

(* What is known of the order.                                             *)
Ordered ==
  /\ Size \in Nat /\ Cardinality(Cells) \in Nat /\ Size <= Cardinality(Cells)
  /\ Order \in [1 .. Size -> DOMAIN cell]
  /\ Chained(Order)
  /\ Anchored(Order)
  /\ \A w \in Workers : RegistersOf(w, Order)
  /\ Linked(cell, Size, Order)
  /\ Null \notin DOMAIN cell

LEMMA StoreIsOrdered == StoreInv => Ordered
<1> SUFFICES ASSUME StoreInv PROVE Ordered
  OBVIOUS
<1>1. PICK order \in [1 .. Size -> DOMAIN cell] :
        Chained(order) /\ Anchored(order) /\ \A v \in Workers : RegistersOf(v, order)
  BY DEF StoreInv
<1>2. Order \in [1 .. Size -> DOMAIN cell] /\ Chained(Order)
  BY <1>1 DEF Order
<1>3. Size \in Nat /\ Null \notin DOMAIN cell
  BY SizeIsNatural, DocAssumption DEF StoreInv, TypeOK
<1>4. \A o : Chained(o) => Linked(cell, Size, o)
  BY DEF Chained, Linked
<1>5. Order = order
  BY <1>1, <1>2, <1>3, <1>4, OneOrder
<1>6. Cardinality(Cells) \in Nat /\ Size <= Cardinality(Cells)
  BY DocAssumption, FS_CardinalityType, FS_Subset DEF StoreInv, TypeOK, Size
<1> QED
  BY <1>1, <1>2, <1>3, <1>4, <1>5, <1>6 DEF Ordered

-----------------------------------------------------------------------------
(* The store: what is gathered along the order.                            *)

(* The entry that is just being appended is not linked to yet.             *)
Visible == IF Linking /\ Size > 1 THEN Size - 1 ELSE Size

Places(k) ==
  {i \in 1 .. Visible : cell[Order[i]].doc \in DOMAIN doc /\ cell[Order[i]].key = k}

Contents == [i \in 1 .. Size |-> doc[cell[Order[i]].doc].collaborators]

LEMMA ReachesOrder ==
  ASSUME Ordered
  PROVE  \A i \in 1 .. Cardinality(Cells) :
           /\ i <= Visible => Reachable[i] = Order[i]
           /\ i > Visible => Reachable[i] \notin DOMAIN cell
<1> DEFINE N == Cardinality(Cells)
           start == IF bucket = Null THEN Null ELSE list[bucket].head
           F(f) == [i \in 1 .. N |->
                      IF i = 1 THEN start
                      ELSE IF f[i - 1] \in DOMAIN cell THEN cell[f[i - 1]].next
                      ELSE Null]
           at == CHOOSE f : f = F(f)
           h == [i \in 1 .. N |->
                   IF i <= Visible THEN Order[i] ELSE IF i = 1 THEN start ELSE Null]
<1>1. /\ N \in Nat /\ Size \in Nat /\ Visible \in Nat /\ Visible <= Size
      /\ Size >= 1 => Visible >= 1
      /\ Null \notin DOMAIN cell
      /\ \A i \in 1 .. Size : Order[i] \in DOMAIN cell
  BY DEF Ordered, Visible
<1>2. Reachable = at
  BY DEF Reachable
<1>3. Size > 0 => start = Order[1]
  BY DEF Ordered, Anchored
<1>4. Size = 0 => DOMAIN cell = {}
  <2>1. \A e \in DOMAIN cell : \E i \in 1 .. Size : Order[i] = e
    BY DEF Ordered, Linked
  <2>2. Size = 0 => 1 .. Size = {}
    OBVIOUS
  <2> QED
    BY <2>1, <2>2
<1>5. \A i \in 1 .. Size : cell[Order[i]].next = IF i >= Visible THEN Null ELSE Order[i + 1]
  BY <1>1 DEF Ordered, Chained, Visible
<1> HIDE DEF start
<1>6. ASSUME NEW i \in 1 .. N
      PROVE  h[i] = IF i = 1 THEN start
                    ELSE IF h[i - 1] \in DOMAIN cell THEN cell[h[i - 1]].next
                    ELSE Null
  <2>1. CASE i = 1
    <3>1. h[i] = IF 1 <= Visible THEN Order[1] ELSE start
      BY <2>1
    <3>2. 1 <= Visible => start = Order[1]
      BY <1>1, <1>3
    <3> QED
      BY <2>1, <3>1, <3>2
  <2>2. CASE i # 1
    <3>1. PICK j : j = i - 1
      OBVIOUS
    <3>2. j \in 1 .. N /\ i - 1 = j /\ i = j + 1 /\ j \in Nat
      BY <1>1, <2>2, <3>1
    <3>3. CASE j < Visible
      <4>1. h[i] = Order[i] /\ h[j] = Order[j] /\ j \in 1 .. Size
        BY <1>1, <3>2, <3>3
      <4>2. cell[Order[j]].next = Order[i]
        BY <1>1, <1>5, <3>2, <3>3, <4>1
      <4> HIDE DEF h
      <4> QED
        BY <1>1, <2>2, <3>2, <4>1, <4>2
    <3>4. CASE j = Visible
      <4>1. h[i] = Null /\ h[j] = Order[j] /\ j \in 1 .. Size
        BY <1>1, <2>2, <3>2, <3>4
      <4>2. cell[Order[j]].next = Null
        BY <1>1, <1>5, <3>4, <4>1
      <4> HIDE DEF h
      <4> QED
        BY <1>1, <2>2, <3>2, <4>1, <4>2
    <3>5. CASE j > Visible
      <4>1. h[i] = Null /\ h[j] = IF j = 1 THEN start ELSE Null
        BY <1>1, <2>2, <3>2, <3>5
      <4>2. h[j] \notin DOMAIN cell
        <5>1. CASE j = 1
          <6>1. Size = 0
            BY <1>1, <3>2, <3>5, <5>1
          <6> QED
            BY <1>4, <6>1
        <5>2. CASE j # 1
          BY <1>1, <4>1, <5>2
        <5> QED
          BY <5>1, <5>2
      <4> HIDE DEF h
      <4> QED
        BY <2>2, <3>2, <4>1, <4>2
    <3> QED
      BY <1>1, <3>2, <3>3, <3>4, <3>5
  <2> QED
    BY <2>1, <2>2
<1>7. h = F(h)
  <2> HIDE DEF h
  <2>1. F(h) = [i \in 1 .. N |-> h[i]]
    BY <1>6
  <2>2. h = [i \in 1 .. N |-> h[i]]
    BY DEF h
  <2> QED
    BY <2>1, <2>2
<1>8. at = F(at)
  <2> HIDE DEF h
  <2> QED
    BY <1>7, Zenon
<1>9. \A i \in 1 .. N : at[i] = IF i = 1 THEN start
                                ELSE IF at[i - 1] \in DOMAIN cell THEN cell[at[i - 1]].next
                                ELSE Null
  <2> HIDE DEF at
  <2> QED
    BY <1>8
<1> HIDE DEF at
<1> DEFINE S == {m \in Nat : m + 1 <= N => at[m + 1] = h[m + 1]}
<1>10. 0 \in S
  <2> SUFFICES ASSUME 1 <= N PROVE at[1] = h[1]
    OBVIOUS
  <2>1. 1 \in 1 .. N
    BY <1>1
  <2> HIDE DEF h
  <2> QED
    BY <1>6, <1>9, <2>1
<1>11. ASSUME NEW m \in S
       PROVE  m + 1 \in S
  <2>1. PICK k : k = m + 1
    OBVIOUS
  <2> SUFFICES ASSUME k + 1 <= N PROVE at[k + 1] = h[k + 1]
    BY <2>1
  <2>2. PICK l : l = k + 1
    OBVIOUS
  <2> HIDE DEF h
  <2>3. l \in 1 .. N /\ l - 1 = k /\ l # 1
    BY <1>1, <2>1, <2>2
  <2>4. at[k] = h[k]
    BY <1>1, <2>1
  <2> QED
    BY <1>6, <1>9, <2>2, <2>3, <2>4
<1> HIDE DEF S
<1>12. \A m \in Nat : m \in S
  BY <1>10, <1>11, NatSetInduction
<1>13. ASSUME NEW i \in 1 .. N
       PROVE  at[i] = h[i]
  <2>1. PICK m : m = i - 1
    OBVIOUS
  <2>2. m \in Nat /\ m + 1 = i
    BY <1>1, <2>1
  <2>3. m + 1 <= N => at[m + 1] = h[m + 1]
    BY <1>12, <2>2 DEF S
  <2> QED
    BY <1>1, <2>2, <2>3
<1>14. ASSUME NEW i \in 1 .. N, i > Visible
       PROVE  h[i] \notin DOMAIN cell
  <2>1. CASE i = 1
    <3>1. Size = 0
      BY <1>1, <1>14, <2>1
    <3> QED
      BY <1>4, <3>1
  <2>2. CASE i # 1
    BY <1>1, <1>14, <2>2
  <2> QED
    BY <2>1, <2>2
<1>15. \A i \in 1 .. N : i <= Visible => h[i] = Order[i]
  OBVIOUS
<1> HIDE DEF h
<1> QED
  BY <1>2, <1>13, <1>14, <1>15

LEMMA StoreOfGathers ==
  ASSUME Ordered, NEW k
  PROVE  \E g : /\ Gathers(Places(k), Contents, Cardinality(Cells), g)
                /\ StoreOf(k) = g[Cardinality(Cells)]
<1> DEFINE N == Cardinality(Cells)
           r == Reachable
           F(f) == [i \in 0 .. N |->
                      IF i = 0 THEN <<>>
                      ELSE IF Alive(r[i]) /\ cell[r[i]].key = k
                        THEN Append(f[i - 1], doc[cell[r[i]].doc].collaborators)
                      ELSE f[i - 1]]
           from == CHOOSE f : f = F(f)
<1>1. N \in Nat /\ Size \in Nat /\ Visible \in Nat /\ Visible <= Size
  BY DEF Ordered, Visible
<1>2. StoreOf(k) = from[N]
  BY DEF StoreOf
<1>3. ASSUME NEW i \in 1 .. N
      PROVE  /\ Alive(r[i]) /\ cell[r[i]].key = k <=> i \in Places(k)
             /\ i \in Places(k) => doc[cell[r[i]].doc].collaborators = Contents[i]
  <2>1. CASE i <= Visible
    <3>1. r[i] = Order[i] /\ i \in 1 .. Visible /\ i \in 1 .. Size
      BY <1>1, <2>1, ReachesOrder
    <3>2. Order[i] \in DOMAIN cell
      BY <3>1 DEF Ordered
    <3> HIDE DEF r
    <3> QED
      BY <3>1, <3>2 DEF Alive, Places, Contents
  <2>2. CASE i > Visible
    <3>1. r[i] \notin DOMAIN cell /\ i \notin 1 .. Visible
      BY <1>1, <2>2, ReachesOrder
    <3> HIDE DEF r
    <3> QED
      BY <3>1 DEF Alive, Places
  <2> QED
    BY <1>1, <2>1, <2>2
<1> HIDE DEF r
<1>4. PICK g : Gathers(Places(k), Contents, N, g)
  BY <1>1, GathersExist
<1> DEFINE h == [i \in 0 .. N |-> g[i]]
<1>5. ASSUME NEW i \in 0 .. N
      PROVE  h[i] = IF i = 0 THEN <<>>
                    ELSE IF Alive(r[i]) /\ cell[r[i]].key = k
                      THEN Append(h[i - 1], doc[cell[r[i]].doc].collaborators)
                    ELSE h[i - 1]
  <2>1. CASE i = 0
    BY <1>1, <1>4, <2>1 DEF Gathers
  <2>2. CASE i # 0
    <3>1. i \in 1 .. N /\ i - 1 \in 0 .. N
      BY <1>1, <2>2
    <3>2. h[i] = g[i] /\ h[i - 1] = g[i - 1]
      BY <3>1
    <3>3. g[i] = IF i \in Places(k) THEN Append(g[i - 1], Contents[i]) ELSE g[i - 1]
      BY <1>4, <3>1 DEF Gathers
    <3> HIDE DEF h
    <3> QED
      BY <1>3, <2>2, <3>1, <3>2, <3>3
  <2> QED
    BY <2>1, <2>2
<1>6. h = F(h)
  <2> HIDE DEF h
  <2>1. F(h) = [i \in 0 .. N |-> h[i]]
    BY <1>5
  <2>2. h = [i \in 0 .. N |-> h[i]]
    BY DEF h
  <2> QED
    BY <2>1, <2>2, Zenon
<1>7. from = F(from)
  <2> HIDE DEF h
  <2> QED
    BY <1>6, Zenon
<1>8. /\ from[0] = <<>>
      /\ \A i \in 1 .. N : from[i] = IF Alive(r[i]) /\ cell[r[i]].key = k
                                       THEN Append(from[i - 1], doc[cell[r[i]].doc].collaborators)
                                     ELSE from[i - 1]
  <2> HIDE DEF from
  <2>1. 0 \in 0 .. N /\ \A i \in 1 .. N : i \in 0 .. N /\ i # 0
    BY <1>1
  <2> QED
    BY <1>7, <2>1
<1> HIDE DEF from
<1>9. Gathers(Places(k), Contents, N, from)
  BY <1>3, <1>8 DEF Gathers
<1> QED
  BY <1>2, <1>9

(* The same, as a fact of a state.                                         *)
Gathered ==
  \A k \in Keys : \E g : /\ Gathers(Places(k), Contents, Cardinality(Cells), g)
                         /\ Store[k] = g[Cardinality(Cells)]

LEMMA StoreIsGathered == StoreInv => Gathered
<1> SUFFICES ASSUME StoreInv, NEW k \in Keys
             PROVE  \E g : /\ Gathers(Places(k), Contents, Cardinality(Cells), g)
                           /\ Store[k] = g[Cardinality(Cells)]
  BY DEF Gathered
<1>1. Store[k] = StoreOf(k)
  BY DEF Store
<1> QED
  BY <1>1, StoreIsOrdered, StoreOfGathers

-----------------------------------------------------------------------------
(* What becomes of the store of a key.                                     *)

LEMMA ContentsAreTyped ==
  ASSUME StoreInv, NEW k
  PROVE  /\ ValuesAreIn(Places(k), Contents, Cardinality(Cells), Seq(Users))
         /\ Visible \in Nat /\ Visible <= Size /\ Size \in Nat
         /\ Cardinality(Cells) \in Nat /\ Size <= Cardinality(Cells)
<1>1. Ordered /\ TypeOK
  BY StoreIsOrdered DEF StoreInv
<1>2. Visible \in Nat /\ Visible <= Size /\ Size \in Nat
  BY <1>1 DEF Ordered, Visible
<1>3. ASSUME NEW i \in Places(k)
      PROVE  Contents[i] \in Seq(Users)
  <2>1. i \in 1 .. Size /\ cell[Order[i]].doc \in DOMAIN doc
    BY <1>2 DEF Places
  <2>2. doc[cell[Order[i]].doc] \in DocRec
    BY <1>1, <2>1 DEF TypeOK
  <2> QED
    BY <2>1, <2>2 DEF Contents, DocRec
<1> QED
  BY <1>1, <1>2, <1>3 DEF Ordered, ValuesAreIn

LEMMA SameOrder ==
  ASSUME StoreInv, StoreInv', cell' = cell
  PROVE  Size' = Size /\ Order' = Order
<1>1. Ordered
  BY StoreIsOrdered
<1>2. Ordered'
  BY StoreIsOrdered, PTL
<1>3. Size' = Size
  BY DEF Size
<1>4. Linked(cell, Size, Order) /\ Linked(cell', Size', Order') /\ Size \in Nat /\ Null \notin DOMAIN cell
  BY <1>1, <1>2 DEF Ordered
<1>5. Linked(cell, Size, Order')
  BY <1>3, <1>4
<1> QED
  BY <1>3, <1>4, <1>5, OneOrder

(* The gatherings before and after a step.                                 *)
LEMMA TwoGatherings ==
  ASSUME StoreInv, StoreInv', NEW k \in Keys
  PROVE  /\ \E g : /\ Gathers(Places(k), Contents, Cardinality(Cells), g)
                   /\ Store[k] = g[Cardinality(Cells)]
         /\ \E h : /\ Gathers(Places(k)', Contents', Cardinality(Cells), h)
                   /\ Store'[k] = h[Cardinality(Cells)]
<1>1. Gathered
  BY StoreIsGathered
<1>2. Gathered'
  BY StoreIsGathered, PTL
<1> QED
  BY <1>1, <1>2 DEF Gathered

LEMMA StoreSame ==
  ASSUME StoreInv, StoreInv', NEW k \in Keys,
         SameValues(Places(k), Places(k)', Contents, Contents', Cardinality(Cells))
  PROVE  Store'[k] = Store[k]
<1> DEFINE N == Cardinality(Cells)
<1>1. N \in Nat /\ N \in 0 .. N
  BY ContentsAreTyped
<1>2. PICK g : Gathers(Places(k), Contents, N, g) /\ Store[k] = g[N]
  BY TwoGatherings
<1>3. PICK h : Gathers(Places(k)', Contents', N, h) /\ Store'[k] = h[N]
  BY TwoGatherings
<1>4. g[N] = h[N]
  BY <1>1, <1>2, <1>3, GathersSame
<1> QED
  BY <1>2, <1>3, <1>4

LEMMA StoreNone ==
  ASSUME StoreInv, NEW k \in Keys, \A i \in 1 .. Cardinality(Cells) : i \notin Places(k)
  PROVE  Store[k] = <<>>
<1> DEFINE N == Cardinality(Cells)
<1>1. N \in Nat /\ 0 \in 0 .. N
  BY ContentsAreTyped
<1>2. PICK g : Gathers(Places(k), Contents, N, g) /\ Store[k] = g[N]
  BY StoreIsGathered DEF Gathered
<1>3. \A i \in 1 .. N : i > 0 => i \notin Places(k)
  OBVIOUS
<1>4. g[N] = g[0]
  BY <1>1, <1>2, <1>3, GathersNothing
<1> QED
  BY <1>2, <1>4 DEF Gathers

LEMMA StoreSome ==
  ASSUME StoreInv, NEW k \in Keys, NEW p \in 1 .. Cardinality(Cells),
         FirstOf(Places(k), p, Cardinality(Cells))
  PROVE  Store[k] # <<>>
<1> DEFINE N == Cardinality(Cells)
           J == Places(k) \ {p}
<1>1. N \in Nat /\ ValuesAreIn(Places(k), Contents, N, Seq(Users))
  BY ContentsAreTyped
<1>2. PICK g : Gathers(Places(k), Contents, N, g) /\ Store[k] = g[N]
  BY StoreIsGathered DEF Gathered
<1>3. PICK h : Gathers(J, Contents, N, h)
  BY <1>1, GathersExist
<1>4. HeadLost(Places(k), J, Contents, Contents, p, N)
  BY DEF HeadLost
<1> HIDE DEF J
<1>5. g[N] # <<>>
  BY <1>1, <1>2, <1>3, <1>4, GathersTail
<1> QED
  BY <1>2, <1>5

LEMMA StoreTail ==
  ASSUME StoreInv, StoreInv', NEW k \in Keys, NEW p \in 1 .. Cardinality(Cells),
         FirstOf(Places(k), p, Cardinality(Cells)),
         HeadLost(Places(k), Places(k)', Contents, Contents', p, Cardinality(Cells))
  PROVE  Store[k] # <<>> /\ Store'[k] = Tail(Store[k])
<1> DEFINE N == Cardinality(Cells)
<1>1. N \in Nat /\ ValuesAreIn(Places(k), Contents, N, Seq(Users))
  BY ContentsAreTyped
<1>2. PICK g : Gathers(Places(k), Contents, N, g) /\ Store[k] = g[N]
  BY TwoGatherings
<1>3. PICK h : Gathers(Places(k)', Contents', N, h) /\ Store'[k] = h[N]
  BY TwoGatherings
<1>4. g[N] # <<>> /\ h[N] = Tail(g[N])
  BY <1>1, <1>2, <1>3, GathersTail
<1> QED
  BY <1>2, <1>3, <1>4

LEMMA StoreChanged ==
  ASSUME StoreInv, StoreInv', NEW k \in Keys, NEW p \in 1 .. Cardinality(Cells),
         FirstOf(Places(k), p, Cardinality(Cells)),
         HeadChanged(Places(k), Places(k)', Contents, Contents', p, Cardinality(Cells)),
         Contents'[p] \in Seq(Users)
  PROVE  Store[k] # <<>> /\ Store'[k] = [Store[k] EXCEPT ![1] = Contents'[p]]
<1> DEFINE N == Cardinality(Cells)
<1>1. N \in Nat /\ ValuesAreIn(Places(k), Contents, N, Seq(Users))
  BY ContentsAreTyped
<1>2. PICK g : Gathers(Places(k), Contents, N, g) /\ Store[k] = g[N]
  BY TwoGatherings
<1>3. PICK h : Gathers(Places(k)', Contents', N, h) /\ Store'[k] = h[N]
  BY TwoGatherings
<1>4. g[N] # <<>> /\ h[N] = [g[N] EXCEPT ![1] = Contents'[p]]
  BY <1>1, <1>2, <1>3, GathersChanged
<1> QED
  BY <1>2, <1>3, <1>4

(* The first collaborators are those of the first place.                   *)
LEMMA StoreHead ==
  ASSUME StoreInv, NEW k \in Keys, NEW p \in 1 .. Cardinality(Cells),
         FirstOf(Places(k), p, Cardinality(Cells))
  PROVE  Store[k][1] = Contents[p]
<1> DEFINE N == Cardinality(Cells)
<1>1. N \in Nat /\ ValuesAreIn(Places(k), Contents, N, Seq(Users))
  BY ContentsAreTyped
<1>2. PICK g : Gathers(Places(k), Contents, N, g) /\ Store[k] = g[N]
  BY StoreIsGathered DEF Gathered
<1>3. HeadChanged(Places(k), Places(k), Contents, Contents, p, N) /\ Contents[p] \in Seq(Users)
  BY <1>1 DEF HeadChanged, FirstOf, ValuesAreIn
<1>4. g[N] # <<>> /\ g[N] = [g[N] EXCEPT ![1] = Contents[p]]
  BY <1>1, <1>2, <1>3, GathersChanged
<1>5. g[N] \in Seq(Seq(Users))
  BY <1>1, <1>2, GathersTyped
<1>6. 1 \in DOMAIN g[N]
  BY <1>4, <1>5, EmptySeq, LenProperties
<1>7. g[N][1] = Contents[p]
  BY <1>4, <1>6
<1> QED
  BY <1>2, <1>7

(* What is behind all places of the key is appended.                       *)
AddedLast(k, p) ==
  /\ \A i \in 1 .. Cardinality(Cells) : i < p =>
       /\ i \in Places(k) <=> i \in Places(k)'
       /\ i \in Places(k) => Contents[i] = Contents'[i]
  /\ \A i \in 1 .. Cardinality(Cells) : i >= p => i \notin Places(k)
  /\ p \in Places(k)'
  /\ \A i \in 1 .. Cardinality(Cells) : i > p => i \notin Places(k)'

LEMMA StoreAppended ==
  ASSUME StoreInv, StoreInv', NEW k \in Keys, NEW p \in 1 .. Cardinality(Cells),
         AddedLast(k, p)
  PROVE  Store'[k] = Append(Store[k], Contents'[p])
<1> DEFINE N == Cardinality(Cells)
<1>1. N \in Nat
  BY ContentsAreTyped
<1>2. PICK g : Gathers(Places(k), Contents, N, g) /\ Store[k] = g[N]
  BY TwoGatherings
<1>3. PICK h : Gathers(Places(k)', Contents', N, h) /\ Store'[k] = h[N]
  BY TwoGatherings
<1>4. /\ \A i \in 1 .. N : i < p => (i \in Places(k) <=> i \in Places(k)')
                                     /\ (i \in Places(k) => Contents[i] = Contents'[i])
      /\ \A i \in 1 .. N : i >= p => i \notin Places(k)
      /\ p \in Places(k)' /\ \A i \in 1 .. N : i > p => i \notin Places(k)'
  BY DEF AddedLast
<1>5. h[N] = Append(g[N], Contents'[p])
  BY <1>1, <1>2, <1>3, <1>4, GathersLast, SMTT(30)
<1> QED
  BY <1>2, <1>3, <1>5

LEMMA StoreMoved ==
  ASSUME StoreInv, StoreInv', NEW k \in Keys,
         NEW p \in 1 .. Cardinality(Cells),
         MovedUp(Places(k), Places(k)', Contents, Contents', p, Cardinality(Cells))
  PROVE  Store'[k] = Store[k]
<1> DEFINE N == Cardinality(Cells)
<1>1. N \in Nat
  BY ContentsAreTyped
<1>2. PICK g : Gathers(Places(k), Contents, N, g) /\ Store[k] = g[N]
  BY TwoGatherings
<1>3. PICK h : Gathers(Places(k)', Contents', N, h) /\ Store'[k] = h[N]
  BY TwoGatherings
<1>4. h[N] = g[N]
  BY <1>1, <1>2, <1>3, GathersMoved
<1> QED
  BY <1>2, <1>3, <1>4

-----------------------------------------------------------------------------
(* The steps of DocSpec.                                                   *)

LEMMA AnswerOf ==
  ASSUME NEW w \in Workers, NEW a, a = local[w].reply,
         local[w].pc \notin {"unlock", "unlink", "alone", "count", "resize", "link"}
  PROVE  Answers[w] = a
BY DEF Answers, InEffect

LEMMA AnswerInEffect ==
  ASSUME NEW w \in Workers, InEffect(w)
  PROVE  Answers[w] = "ok"
BY DEF Answers

(* The step of w leaves the other workers and its own arguments alone.     *)
Frame(w) ==
  /\ \A v \in Workers : v # w => local'[v] = local[v]
  /\ local'[w].cmd = local[w].cmd
  /\ local'[w].key = local[w].key
  /\ local'[w].user = local[w].user

LEMMA FrameKept ==
  ASSUME NEW w \in Workers, Frame(w),
         cell' = cell \/ \A v \in Workers : v # w => local[v].pc # "link"
  PROVE  /\ Requests' = Requests
         /\ \A v \in Workers : v # w => Answers'[v] = Answers[v]
<1>1. ASSUME NEW v \in Workers
      PROVE  local'[v].cmd = local[v].cmd /\ local'[v].key = local[v].key
             /\ local'[v].user = local[v].user
  BY DEF Frame
<1>2. Requests' = Requests
  BY <1>1 DEF Requests
<1>3. ASSUME NEW v \in Workers, v # w
      PROVE  Answers'[v] = Answers[v]
  <2>1. local'[v] = local[v]
    BY <1>3 DEF Frame
  <2>2. InEffect(v)' <=> InEffect(v)
    <3>1. CASE cell' = cell
      BY <2>1, <3>1 DEF InEffect
    <3>2. CASE local[v].pc # "link"
      BY <2>1, <3>2 DEF InEffect
    <3> QED
      BY <1>3, <3>1, <3>2
  <2> QED
    BY <2>1, <2>2 DEF Answers
<1> QED
  BY <1>2, <1>3

(* A step that only the worker knows of.                                   *)
Unseen == UNCHANGED <<Store, Requests, Answers>>

LEMMA Stutters ==
  ASSUME NEW w \in Workers, Store' = Store, Requests' = Requests,
         \A v \in Workers : v # w => Answers'[v] = Answers[v],
         Answers'[w] = Answers[w]
  PROVE  Unseen
<1>1. \A v \in Workers : Answers'[v] = Answers[v]
  OBVIOUS
<1>2. Answers = [v \in Workers |-> Answers[v]] /\ Answers' = [v \in Workers |-> Answers'[v]]
  BY DEF Answers
<1>3. Answers' = Answers
  BY <1>1, <1>2
<1> QED
  BY <1>3 DEF Unseen

(* The step at which a command takes effect.                               *)
LEMMA Executes ==
  ASSUME NEW w \in Workers, NEW c, NEW k \in Keys, NEW u,
         local[w].cmd = c, local[w].key = k, local[w].user = u, c # "none",
         Store' = [Store EXCEPT ![k] = Serial!Effect(c, Store[k], u)],
         Requests' = Requests,
         \A v \in Workers : v # w => Answers'[v] = Answers[v],
         Answers[w] = "none", Answers'[w] = Serial!Result(c, Store[k])
  PROVE  Serial!Execute(w)
<1>1. Requests[w] = [cmd |-> c, key |-> k, user |-> u]
  BY DEF Requests
<1>2. Requests[w] # Serial!NoRequest
  <2>1. Requests[w].cmd # "none"
    BY <1>1
  <2>2. Serial!NoRequest.cmd = "none"
    BY DEF Serial!NoRequest
  <2> QED
    BY <2>1, <2>2
<1>3. Answers' = [Answers EXCEPT ![w] = Serial!Result(c, Store[k])]
  <2>1. Answers = [v \in Workers |-> Answers[v]] /\ Answers' = [v \in Workers |-> Answers'[v]]
    BY DEF Answers
  <2> DEFINE x == Serial!Result(c, Store[k])
  <2> HIDE DEF x
  <2>2. Answers'[w] = x
    BY DEF x
  <2>3. Answers' = [Answers EXCEPT ![w] = x]
    BY <2>1, <2>2
  <2> QED
    BY <2>3 DEF x
<1>4. Requests[w].cmd = c /\ Requests[w].key = k /\ Requests[w].user = u
  BY <1>1
<1> QED
  BY <1>2, <1>3, <1>4 DEF Serial!Execute

-----------------------------------------------------------------------------
(* Steps that leave entries and collaborators as they are.                 *)

SameDocs ==
  \A e \in DOMAIN cell :
    /\ cell[e].doc \in DOMAIN doc' <=> cell[e].doc \in DOMAIN doc
    /\ cell[e].doc \in DOMAIN doc =>
         doc'[cell[e].doc].collaborators = doc[cell[e].doc].collaborators

LEMMA StoreKept ==
  ASSUME StoreInv, StoreInv', cell' = cell, Visible' = Visible, SameDocs
  PROVE  Store' = Store
<1>1. Ordered /\ Size' = Size /\ Order' = Order
  BY StoreIsOrdered, SameOrder
<1>2. Visible <= Size /\ Visible \in Nat /\ Size \in Nat
  BY <1>1 DEF Ordered, Visible
<1>3. ASSUME NEW i \in 1 .. Visible
      PROVE  /\ i \in 1 .. Size /\ Order[i] \in DOMAIN cell
             /\ cell[Order[i]].doc \in DOMAIN doc' <=> cell[Order[i]].doc \in DOMAIN doc
             /\ cell[Order[i]].doc \in DOMAIN doc =>
                  doc'[cell[Order[i]].doc].collaborators = doc[cell[Order[i]].doc].collaborators
  <2>1. i \in 1 .. Size /\ Order[i] \in DOMAIN cell
    BY <1>1, <1>2 DEF Ordered
  <2> QED
    BY <2>1 DEF SameDocs
<1>4. ASSUME NEW k \in Keys
      PROVE  Store'[k] = Store[k]
  <2>1. \A i : i \in Places(k) <=> i \in Places(k)'
    BY <1>1, <1>3 DEF Places
  <2>2. \A i \in Places(k) : Contents[i] = Contents'[i]
    BY <1>1, <1>3 DEF Places, Contents
  <2>3. SameValues(Places(k), Places(k)', Contents, Contents', Cardinality(Cells))
    BY <2>1, <2>2 DEF SameValues
  <2> QED
    BY <2>3, StoreSame
<1>5. Store = [k \in Keys |-> Store[k]] /\ Store' = [k \in Keys |-> Store'[k]]
  BY DEF Store
<1> QED
  BY <1>4, <1>5

(* A worker that does nothing has found out nothing.                       *)
LEMMA IdleFindings ==
  ASSUME NEW v \in Workers, FindingsOf(v), ~ Busy(v), local'[v] = local[v]
  PROVE  FindingsOf(v)'
<1>1. local'[v] = Idle
  BY DEF FindingsOf, Found, Unlisted, Busy
<1>2. Idle.pc = "idle" /\ Idle.cmd = "none" /\ Idle.reply = "none"
  BY DEF Idle
<1> QED
  BY <1>1, <1>2 DEF FindingsOf, Found, Unlisted, Idle

Quiet(w) ==
  /\ Frame(w)
  /\ cell' = cell /\ DOMAIN doc' = DOMAIN doc
  /\ \A d \in DOMAIN doc : doc'[d].collaborators = doc[d].collaborators
  /\ local'[w].pc = "link" <=> local[w].pc = "link"

(* The findings of a worker are those of the entries and collaborators.    *)
LEMMA FindingsKept ==
  ASSUME StoreInv, StoreInv', NEW v \in Workers, FindingsOf(v), local'[v] = local[v],
         cell' = cell, DOMAIN doc' = DOMAIN doc,
         \A d \in DOMAIN doc :
           \/ doc'[d].collaborators = doc[d].collaborators
           \/ local[v].cmd # "add" /\ (local[v].pc = "store" => local[v].doc # d)
  PROVE  FindingsOf(v)'
<1>1. Ordered /\ Size' = Size /\ Order' = Order
  BY StoreIsOrdered, SameOrder
<1>2. \A p, k : First(p, k)' <=> First(p, k)
  BY <1>1 DEF First
<1> DEFINE r == local[v]
<1>3. r.pc \in {"store"} => r.doc \in DOMAIN doc
  BY <1>1 DEF Ordered, RegistersOf
<1>4. r.cmd = "add" /\ r.pc \in Unlisted => r.doc \in DOMAIN doc
  BY <1>1 DEF Ordered, RegistersOf, Unlisted
<1>5. r.cmd = "add" /\ r.pc \in {"alone", "link"} => r.doc \in DOMAIN doc
  <2> SUFFICES ASSUME r.cmd = "add", r.pc \in {"alone", "link"} PROVE r.doc \in DOMAIN doc
    OBVIOUS
  <2>1. r.cell \in DOMAIN cell /\ r.doc = cell[r.cell].doc
    <3>1. r.cell = Order[Size] /\ Size > 0 /\ Size \in Nat
      BY <1>1 DEF Ordered, RegistersOf
    <3>2. Size \in 1 .. Size
      BY <3>1
    <3>3. r.cell \in DOMAIN cell
      BY <1>1, <3>1, <3>2 DEF Ordered
    <3> QED
      BY <3>3 DEF FindingsOf, Found, Unlisted
  <2>2. \A x \in Workers : x # v => ~ Busy(x)
    BY DEF StoreInv, ChangesAlone, Change
  <2>3. \A x \in Workers : local[x].pc # "unlink"
    BY <2>2 DEF Busy
  <2> QED
    BY <2>1, <2>3 DEF StoreInv, OwnDocuments
<1>6. r.pc = "store" => doc'[r.doc].collaborators = doc[r.doc].collaborators
  BY <1>3
<1>7. r.cmd = "add" /\ r.pc \in Unlisted \cup {"alone", "link"} =>
        doc'[r.doc].collaborators = doc[r.doc].collaborators
  BY <1>4, <1>5
<1> QED
  BY <1>1, <1>2, <1>6, <1>7 DEF FindingsOf, Found, Unlisted

LEMMA QuietKeeps ==
  ASSUME StoreInv, StoreInv', Findings, NEW w \in Workers, Quiet(w)
  PROVE  /\ Store' = Store /\ Requests' = Requests
         /\ \A v \in Workers : v # w => Answers'[v] = Answers[v]
         /\ \A v \in Workers : v # w => FindingsOf(v)'
         /\ Size' = Size /\ Order' = Order
<1>1. Size' = Size /\ Order' = Order
  BY SameOrder DEF Quiet
<1>2. Linking' <=> Linking
  BY DEF Linking, Quiet, Frame
<1>3. Visible' = Visible
  BY <1>1, <1>2 DEF Visible
<1>4. SameDocs
  BY DEF SameDocs, Quiet
<1>5. Store' = Store
  BY <1>3, <1>4, StoreKept DEF Quiet
<1>6. ASSUME NEW v \in Workers, v # w
      PROVE  FindingsOf(v)'
  <2>1. local'[v] = local[v] /\ FindingsOf(v)
    BY <1>6 DEF Quiet, Frame, Findings
  <2> QED
    BY <2>1, FindingsKept DEF Quiet
<1> QED
  BY <1>1, <1>5, <1>6, FrameKept DEF Quiet

(* What is to be shown of a step.                                          *)
Simulated == Findings' /\ (Unseen \/ Serial!Next)

LEMMA QuietSimulated ==
  ASSUME StoreInv, StoreInv', Findings, NEW w \in Workers, Quiet(w),
         FindingsOf(w)', Answers'[w] = Answers[w]
  PROVE  Simulated
<1>1. Findings'
  BY QuietKeeps DEF Findings
<1>2. Unseen
  BY QuietKeeps, Stutters
<1> QED
  BY <1>1, <1>2 DEF Simulated

(* A command takes effect that changes nothing.                            *)
LEMMA AnswerSimulated ==
  ASSUME StoreInv, StoreInv', Findings, NEW w \in Workers, Quiet(w),
         FindingsOf(w)', Busy(w), NEW c, NEW k, NEW u,
         local[w].cmd = c, local[w].key = k, local[w].user = u,
         Serial!Effect(c, Store[k], u) = Store[k],
         Answers[w] = "none", Answers'[w] = Serial!Result(c, Store[k])
  PROVE  Simulated
<1>1. Findings'
  BY QuietKeeps DEF Findings
<1>2. k \in Keys
  BY LocalTypes DEF StoreInv
<1>3. c # "none"
  BY DEF StoreInv, StepOf, Busy
<1>4. Store' = [Store EXCEPT ![k] = Serial!Effect(c, Store[k], u)]
  <2>1. Store = [x \in Keys |-> Store[x]]
    BY DEF Store
  <2>2. Store = [Store EXCEPT ![k] = Store[k]]
    BY <2>1
  <2> QED
    BY <2>2, QuietKeeps
<1>5. Requests' = Requests /\ \A v \in Workers : v # w => Answers'[v] = Answers[v]
  BY QuietKeeps
<1>6. Serial!Execute(w)
  BY <1>2, <1>3, <1>4, <1>5, Executes
<1> QED
  BY <1>1, <1>6 DEF Simulated, Serial!Next

-----------------------------------------------------------------------------
(* Steps that only read the entries and collaborators.                     *)

LEMMA NewFields ==
  ASSUME TypeOK, NEW w \in Workers, NEW r, local' = [local EXCEPT ![w] = r]
  PROVE  local'[w] = r /\ \A v \in Workers : v # w => local'[v] = local[v]
BY DEF TypeOK

(* The arguments of a command stay in the registers.                       *)
SameArguments(r, s) == r.cmd = s.cmd /\ r.key = s.key /\ r.user = s.user

LEMMA FoundKept ==
  ASSUME StoreInv, StoreInv', NEW w \in Workers, NEW r, Found(r), local'[w] = r,
         cell' = cell, DOMAIN doc' = DOMAIN doc,
         r.pc = "store" \/ r.cmd = "add" => doc' = doc
  PROVE  FindingsOf(w)'
<1>1. Size' = Size /\ Order' = Order
  BY SameOrder
<1>2. \A p, k : First(p, k)' <=> First(p, k)
  BY <1>1 DEF First
<1> QED
  BY <1>1, <1>2 DEF FindingsOf, Found, Unlisted

(* The steps of a command up to the one that takes effect.                 *)
Before ==
  {"bucket", "length", "single", "iterate", "use", "locate", "freeDoc", "lock", "load",
   "store", "create", "fetch", "append", "first", "behind", "last"}

LEMMA BeforeSimulated ==
  ASSUME StoreInv, StoreInv', Findings, NEW w \in Workers, NEW r,
         local' = [local EXCEPT ![w] = r], Found(r),
         SameArguments(r, local[w]), r.reply = local[w].reply,
         local[w].pc \in Before, r.pc \in Before,
         cell' = cell, DOMAIN doc' = DOMAIN doc,
         \A d \in DOMAIN doc : doc'[d].collaborators = doc[d].collaborators,
         r.pc = "store" \/ r.cmd = "add" => doc' = doc
  PROVE  Simulated
<1>1. local'[w] = r /\ \A v \in Workers : v # w => local'[v] = local[v]
  BY NewFields DEF StoreInv
<1>2. Quiet(w)
  BY <1>1 DEF Quiet, Frame, SameArguments, Before
<1>3. FindingsOf(w)'
  BY <1>1, FoundKept
<1>4. Answers'[w] = Answers[w]
  BY <1>1 DEF Answers, InEffect, Before
<1> QED
  BY <1>2, <1>3, <1>4, QuietSimulated

(* The steps after it.                                                     *)
LEMMA AfterSimulated ==
  ASSUME StoreInv, StoreInv', Findings, NEW w \in Workers, NEW r,
         local' = [local EXCEPT ![w] = r], Found(r),
         SameArguments(r, local[w]),
         local[w].pc \in {"unlock", "unlink", "count", "resize"},
         r.pc \in {"unlock", "unlink", "count", "resize"} \/ (r.pc = "reply" /\ r.reply = "ok"),
         cell' = cell, DOMAIN doc' = DOMAIN doc,
         \A d \in DOMAIN doc : doc'[d].collaborators = doc[d].collaborators,
         r.pc = "store" \/ r.cmd = "add" => doc' = doc
  PROVE  Simulated
<1>1. local'[w] = r /\ \A v \in Workers : v # w => local'[v] = local[v]
  BY NewFields DEF StoreInv
<1>2. Quiet(w)
  BY <1>1 DEF Quiet, Frame, SameArguments
<1>3. FindingsOf(w)'
  BY <1>1, FoundKept
<1>4. Answers'[w] = Answers[w]
  BY <1>1 DEF Answers, InEffect
<1> QED
  BY <1>2, <1>3, <1>4, QuietSimulated

(* The registers of a worker, of whom nothing is answered yet.             *)
LEMMA FoundBefore ==
  ASSUME StoreInv, Findings, NEW w \in Workers, local[w].pc \in Before
  PROVE  /\ local[w] \in LocalRec /\ Found(local[w]) /\ local[w].reply = "none"
         /\ Busy(w) /\ local[w].cmd \in {"add", "get", "remove", "start", "end"}
         /\ Answers[w] = "none"
<1>1. local[w] \in LocalRec /\ local[w].cmd \in Commands \cup {"none"}
  BY LocalTypes DEF StoreInv
<1>2. Found(local[w])
  BY DEF Findings, FindingsOf
<1>3. local[w].reply = "none"
  BY <1>2 DEF Found, Unlisted, Before
<1>4. Busy(w) /\ local[w].cmd # "none"
  BY DEF StoreInv, StepOf, Busy, Before
<1>5. Answers[w] = "none"
  BY <1>3 DEF Answers, InEffect, Before
<1> QED
  BY <1>1, <1>2, <1>3, <1>4, <1>5, DocAssumption

-----------------------------------------------------------------------------
(* The lookup.                                                             *)

LEMMA MissSimulated ==
  ASSUME StoreInv, StoreInv', Findings, NEW w \in Workers, Miss(w), Reads,
         local[w].pc \in {"bucket", "length", "single", "iterate"},
         local[w].cmd # "add", Store[local[w].key] = <<>>
  PROVE  Simulated
<1>1. /\ local[w] \in LocalRec /\ local[w].reply = "none" /\ Busy(w)
      /\ local[w].cmd \in {"add", "get", "remove", "start", "end"} /\ Answers[w] = "none"
  BY FoundBefore DEF Before
<1> DEFINE reply == IF local[w].cmd = "remove" THEN "ok" ELSE "nil"
           r == [local[w] EXCEPT !.pc = "reply", !.reply = reply]
<1>2. local' = [local EXCEPT ![w] = r]
  BY DEF Miss, Answer
<1>3. r.pc = "reply" /\ r.reply = reply /\ SameArguments(r, local[w])
  BY <1>1 DEF LocalRec, SameArguments
<1>4. reply # "none"
  OBVIOUS
<1> HIDE DEF r
<1>5. local'[w] = r /\ \A v \in Workers : v # w => local'[v] = local[v]
  BY <1>2, NewFields DEF StoreInv
<1>6. Found(r)
  <2> HIDE DEF reply
  <2> QED
    BY <1>3, <1>4 DEF Found, Unlisted
<1>7. FindingsOf(w)'
  BY <1>5, <1>6, FoundKept DEF Reads
<1>8. Quiet(w)
  BY <1>3, <1>5 DEF Quiet, Frame, SameArguments, Reads
<1>9. PICK c, k, u : c = local[w].cmd /\ k = local[w].key /\ u = local[w].user
  OBVIOUS
<1>10. Serial!Effect(c, Store[k], u) = Store[k]
  BY <1>1, <1>9 DEF Serial!Effect
<1>11. Serial!Result(c, Store[k]) = reply
  <2>1. Store[k] = <<>> /\ reply = IF c = "remove" THEN "ok" ELSE "nil"
    BY <1>9
  <2> HIDE DEF reply
  <2>2. c = "remove" => Serial!Result(c, Store[k]) = "ok"
    BY DEF Serial!Result
  <2>3. c \in {"get", "start", "end"} => Serial!Result(c, Store[k]) = "nil"
    BY <2>1 DEF Serial!Result
  <2> QED
    BY <1>1, <1>9, <2>1, <2>2, <2>3
<1>12. Answers'[w] = reply
  BY <1>3, <1>5 DEF Answers, InEffect
<1> QED
  BY <1>1, <1>7, <1>8, <1>9, <1>10, <1>11, <1>12, AnswerSimulated

(* No entry has the key.                                                   *)
LEMMA NoneFound ==
  ASSUME StoreInv, NEW k \in Keys,
         \A i \in 1 .. Size : cell[Order[i]].key # k
  PROVE  Store[k] = <<>>
<1>1. Visible \in Nat /\ Visible <= Size /\ Size \in Nat
  BY ContentsAreTyped
<1>2. \A i \in 1 .. Cardinality(Cells) : i \notin Places(k)
  BY <1>1 DEF Places
<1> QED
  BY <1>2, StoreNone

LEMMA ReadBucketSimulated ==
  ASSUME StoreInv, StoreInv', Findings, NEW w \in Workers, ReadBucket(w)
  PROVE  Simulated
<1>1. /\ local[w].pc = "bucket" /\ local[w].cmd # "add" /\ Reads
      /\ local[w] \in LocalRec /\ local[w].reply = "none" /\ local[w].key \in Keys
  BY FoundBefore, LocalTypes DEF ReadBucket, At, Before, StoreInv
<1>2. CASE bucket = Null
  <2>1. Size = 0
    BY <1>2, StoreIsOrdered DEF Ordered, Anchored
  <2>2. Store[local[w].key] = <<>>
    <3>1. \A i \in 1 .. Size : cell[Order[i]].key # local[w].key
      BY <2>1
    <3> QED
      BY <1>1, <3>1, NoneFound
  <2> QED
    BY <1>1, <1>2, <2>2, MissSimulated DEF ReadBucket
<1>3. CASE bucket # Null
  <2> DEFINE r == [local[w] EXCEPT !.pc = "length", !.list = bucket]
  <2>1. local' = [local EXCEPT ![w] = r]
    BY <1>3 DEF ReadBucket
  <2>2. r.pc = "length" /\ r.reply = "none" /\ SameArguments(r, local[w]) /\ r.cmd # "add"
    BY <1>1 DEF LocalRec, SameArguments
  <2> HIDE DEF r
  <2>3. Found(r)
    BY <2>2 DEF Found, Unlisted
  <2> QED
    BY <1>1, <2>1, <2>2, <2>3, BeforeSimulated DEF Before, Reads
<1> QED
  BY <1>2, <1>3

LEMMA ReadLengthSimulated ==
  ASSUME StoreInv, StoreInv', Findings, NEW w \in Workers, ReadLength(w)
  PROVE  Simulated
<1> DEFINE l == list[local[w].list]
<1>1. /\ local[w].pc = "length" /\ Reads /\ local[w].cmd # "add"
      /\ local[w] \in LocalRec /\ local[w].reply = "none" /\ local[w].key \in Keys
  BY FoundBefore, LocalTypes DEF ReadLength, At, Before, StoreInv, StepOf
<1>2. /\ Ordered /\ bucket # Null /\ local[w].list = bucket /\ local[w].index = 0
      /\ \A v \in Workers : local[v].pc \notin Counting
  BY <1>1, StoreIsOrdered, LookupsAreQuiet DEF Ordered, RegistersOf, Counting
<1>3. l.length = Size /\ Size \in Nat /\ (Size > 0 => l.head = Order[1])
  BY <1>2 DEF Ordered, Anchored
<1>4. CASE l.length = 0
  <2>1. \A i \in 1 .. Size : cell[Order[i]].key # local[w].key
    BY <1>3, <1>4
  <2>2. Store[local[w].key] = <<>>
    BY <1>1, <2>1, NoneFound
  <2> QED
    BY <1>1, <1>4, <2>2, MissSimulated DEF ReadLength
<1>5. CASE l.length = 1
  <2> DEFINE r == [local[w] EXCEPT !.pc = "single"]
  <2>1. local' = [local EXCEPT ![w] = r]
    BY <1>5 DEF ReadLength, Goto
  <2>2. r.pc = "single" /\ r.reply = "none" /\ SameArguments(r, local[w]) /\ r.cmd # "add"
    BY <1>1 DEF LocalRec, SameArguments
  <2> HIDE DEF r
  <2>3. Found(r)
    BY <2>2 DEF Found, Unlisted
  <2> QED
    BY <1>1, <2>1, <2>2, <2>3, BeforeSimulated DEF Before, Reads
<1>6. CASE l.length # 0 /\ l.length # 1
  <2> DEFINE r == [local[w] EXCEPT !.pc = "iterate", !.cell = l.head]
  <2>1. local' = [local EXCEPT ![w] = r]
    BY <1>6 DEF ReadLength
  <2>2. /\ r.pc = "iterate" /\ r.reply = "none" /\ SameArguments(r, local[w]) /\ r.cmd # "add"
        /\ r.index = 0
    BY <1>1, <1>2 DEF LocalRec, SameArguments
  <2> HIDE DEF r
  <2>3. Found(r)
    BY <2>2 DEF Found, Unlisted
  <2> QED
    BY <1>1, <2>1, <2>2, <2>3, BeforeSimulated DEF Before, Reads
<1> QED
  BY <1>4, <1>5, <1>6

(* The p-th entry is the one that the command looked for.                  *)
LEMMA HitSimulated ==
  ASSUME StoreInv, StoreInv', Findings, NEW w \in Workers, NEW p \in 1 .. Size,
         Hit(w, Order[p]), Reads, First(p, local[w].key), local[w].index + 1 = p,
         local[w].pc \in {"single", "iterate"}
  PROVE  Simulated
<1> DEFINE pc == CASE local[w].cmd = "get"    -> "use"
                   [] local[w].cmd = "remove" -> "locate"
                   [] OTHER                   -> "lock"
           d == cell[Order[p]].doc
           r == [local[w] EXCEPT !.pc = pc, !.doc = d]
<1>1. /\ local[w] \in LocalRec /\ local[w].reply = "none" /\ local[w].cmd # "add"
  BY FoundBefore DEF Before, StoreInv, StepOf
<1>2. local' = [local EXCEPT ![w] = r]
  BY DEF Hit
<1>3. pc \in {"use", "locate", "lock"}
  OBVIOUS
<1> HIDE DEF pc, d
<1>4. /\ r.pc = pc /\ r.reply = "none" /\ SameArguments(r, local[w])
      /\ r.index = local[w].index /\ r.doc = d
  BY <1>1 DEF LocalRec, SameArguments
<1> HIDE DEF r
<1>5. First(p, r.key) /\ cell[Order[p]].doc = r.doc /\ First(r.index + 1, r.key)
  BY <1>4 DEF SameArguments, d
<1>6. r.cmd # "add"
  BY <1>1, <1>4 DEF SameArguments
<1>7. Found(r)
  BY <1>3, <1>4, <1>5, <1>6 DEF Found, Unlisted
<1> QED
  BY <1>1, <1>2, <1>3, <1>4, <1>6, <1>7, BeforeSimulated DEF Before, Reads

LEMMA GetSingleSimulated ==
  ASSUME StoreInv, StoreInv', Findings, NEW w \in Workers, GetSingle(w)
  PROVE  Simulated
<1> DEFINE l == list[local[w].list]
           e == IF l.length \div 2 > 0 THEN l.head ELSE l.tail
<1>1. /\ local[w].pc = "single" /\ local[w].cmd # "add" /\ local[w].key \in Keys
  BY LocalTypes DEF GetSingle, At, StoreInv, StepOf
<1>2. /\ Ordered /\ bucket # Null /\ local[w].list = bucket /\ local[w].index = 0
      /\ \A v \in Workers : local[v].pc \notin Counting
      /\ \A x \in DOMAIN cell : cell[x].doc \in DOMAIN doc
      /\ Size = 1 /\ ~ NoTail
  BY <1>1, StoreIsOrdered, LookupsAreQuiet DEF Ordered, RegistersOf, Counting
<1>3. l.length = 1 /\ l.tail = Order[1] /\ Order[1] \in DOMAIN cell
  BY <1>2 DEF Ordered, Anchored
<1>4. e = Order[1]
  <2>1. ~ (1 \div 2 > 0)
    OBVIOUS
  <2> HIDE DEF l
  <2> QED
    BY <1>3, <2>1
<1>5. Reads /\ (IF cell[e].key = local[w].key THEN Hit(w, e) ELSE Miss(w))
  <2>1. l.length # 0 /\ Alive(Order[1])
    BY <1>2, <1>3 DEF Alive
  <2> QED
    BY <1>4, <2>1 DEF GetSingle
<1> HIDE DEF e, l
<1>6. CASE cell[Order[1]].key = local[w].key
  <2>1. PICK p : p = 1
    OBVIOUS
  <2>2. p \in 1 .. Size /\ local[w].index + 1 = p
    BY <1>2, <2>1
  <2>3. First(p, local[w].key)
    BY <1>2, <1>6, <2>1, <2>2 DEF First
  <2>4. Hit(w, Order[p]) /\ Reads
    BY <1>4, <1>5, <1>6, <2>1
  <2> QED
    BY <1>1, <2>2, <2>3, <2>4, HitSimulated
<1>7. CASE cell[Order[1]].key # local[w].key
  <2>1. \A i \in 1 .. Size : cell[Order[i]].key # local[w].key
    BY <1>2, <1>7
  <2>2. Store[local[w].key] = <<>>
    BY <1>1, <2>1, NoneFound
  <2> QED
    BY <1>1, <1>4, <1>5, <1>7, <2>2, MissSimulated
<1> QED
  BY <1>6, <1>7

LEMMA IterateSimulated ==
  ASSUME StoreInv, StoreInv', Findings, NEW w \in Workers, Iterate(w)
  PROVE  Simulated
<1> DEFINE e == local[w].cell
           i == local[w].index
           k == local[w].key
<1>1. /\ local[w].pc = "iterate" /\ local[w].cmd # "add" /\ k \in Keys
      /\ local[w] \in LocalRec /\ local[w].reply = "none" /\ Found(local[w])
  BY FoundBefore, LocalTypes DEF Iterate, At, StoreInv, StepOf, Before
<1>2. /\ Ordered
      /\ \A x \in DOMAIN cell : cell[x].doc \in DOMAIN doc
      /\ i \in 0 .. Size /\ e = IF i = Size THEN Null ELSE Order[i + 1]
  BY <1>1, StoreIsOrdered, LookupsAreQuiet DEF Ordered, RegistersOf, Counting
<1>3. Size \in Nat /\ Null \notin DOMAIN cell /\ \A j \in 1 .. Size : Order[j] \in DOMAIN cell
  BY <1>2 DEF Ordered
<1>4. \A j \in 1 .. Size : j <= i => cell[Order[j]].key # k
  BY <1>1 DEF Found, Unlisted
<1>5. CASE i = Size
  <2>1. e = Null
    BY <1>2, <1>5
  <2>2. \A j \in 1 .. Size : cell[Order[j]].key # k
    BY <1>3, <1>4, <1>5
  <2>3. Store[k] = <<>>
    BY <1>1, <2>2, NoneFound
  <2> QED
    BY <1>1, <2>1, <2>3, MissSimulated DEF Iterate
<1>6. CASE i # Size
  <2>1. PICK p : p = i + 1
    OBVIOUS
  <2>2. p \in 1 .. Size /\ i + 1 = p /\ e = Order[p]
    BY <1>2, <1>3, <1>6, <2>1
  <2>3. e # Null /\ Alive(e)
    BY <1>2, <1>3, <2>2 DEF Alive
  <2>4. CASE cell[e].key = k
    <3>1. Hit(w, e) /\ Reads
      BY <2>3, <2>4 DEF Iterate
    <3>2. First(p, k)
      <4>1. \A j \in 1 .. Size : cell[Order[j]].key = k => p <= j
        BY <1>2, <1>3, <1>4, <2>2
      <4> QED
        BY <2>2, <2>4, <4>1 DEF First
    <3>3. Hit(w, Order[p])
      BY <2>2, <3>1
    <3> QED
      BY <1>1, <2>2, <3>1, <3>2, <3>3, HitSimulated
  <2>5. CASE cell[e].key # k
    <3> DEFINE next == cell[e].next
               r == [local[w] EXCEPT !.cell = next, !.index = p]
    <3>1. Reads /\ local' = [local EXCEPT ![w] = r]
      <4>1. Reads /\ local' = [local EXCEPT ![w].cell = cell[e].next, ![w].index = @ + 1]
        BY <2>3, <2>5 DEF Iterate
      <4> QED
        BY <2>1, <4>1
    <3> HIDE DEF next
    <3>2. /\ r.pc = "iterate" /\ r.reply = "none" /\ SameArguments(r, local[w]) /\ r.index = p
      BY <1>1 DEF LocalRec, SameArguments
    <3> HIDE DEF r
    <3>3. \A j \in 1 .. Size : j <= p => cell[Order[j]].key # k
      BY <1>2, <1>3, <1>4, <2>2, <2>5
    <3>4. Found(r)
      BY <1>1, <3>2, <3>3 DEF Found, Unlisted, SameArguments
    <3> QED
      BY <1>1, <3>1, <3>2, <3>4, BeforeSimulated DEF Before, Reads, SameArguments
  <2> QED
    BY <2>4, <2>5
<1> QED
  BY <1>5, <1>6

-----------------------------------------------------------------------------
(* get.                                                                    *)

(* The place of the oldest entry with the key is one of the store.         *)
LEMMA FirstIsFirstPlace ==
  ASSUME StoreInv, NEW k \in Keys, NEW p, First(p, k), ~ Linking,
         cell[Order[p]].doc \in DOMAIN doc
  PROVE  /\ p \in 1 .. Cardinality(Cells) /\ FirstOf(Places(k), p, Cardinality(Cells))
         /\ Contents[p] = doc[cell[Order[p]].doc].collaborators
<1>1. Visible = Size /\ Size \in Nat /\ Cardinality(Cells) \in Nat /\ Size <= Cardinality(Cells)
  BY ContentsAreTyped DEF Visible
<1>2. p \in 1 .. Size /\ cell[Order[p]].key = k
      /\ \A i \in 1 .. Size : cell[Order[i]].key = k => p <= i
  BY DEF First
<1>3. p \in Places(k) /\ \A i \in Places(k) : p <= i
  BY <1>1, <1>2 DEF Places
<1>4. Contents[p] = doc[cell[Order[p]].doc].collaborators
  BY <1>2 DEF Contents
<1> QED
  BY <1>1, <1>2, <1>3, <1>4 DEF FirstOf

LEMMA UseDocumentSimulated ==
  ASSUME StoreInv, StoreInv', Findings, NEW w \in Workers, UseDocument(w)
  PROVE  Simulated
<1> DEFINE r == [local[w] EXCEPT !.pc = "reply", !.reply = "contents"]
<1>1. /\ local[w].pc = "use" /\ local[w].cmd = "get" /\ local[w].key \in Keys /\ Busy(w)
      /\ local[w] \in LocalRec /\ Found(local[w]) /\ Answers[w] = "none"
  BY FoundBefore, LocalTypes DEF UseDocument, At, StoreInv, StepOf, Before
<1>2. local[w].doc \in DOMAIN doc /\ ~ Linking
  BY <1>1, StoreIsOrdered, LookupsAreQuiet DEF Ordered, RegistersOf, Counting
<1>3. Reads /\ local' = [local EXCEPT ![w] = r]
  BY <1>2 DEF UseDocument, Answer
<1>4. r.pc = "reply" /\ r.reply = "contents" /\ SameArguments(r, local[w])
  BY <1>1 DEF LocalRec, SameArguments
<1> HIDE DEF r
<1>5. local'[w] = r /\ \A v \in Workers : v # w => local'[v] = local[v]
  BY <1>3, NewFields DEF StoreInv
<1>6. Found(r) /\ r.cmd # "add"
  BY <1>1, <1>4 DEF Found, Unlisted, SameArguments
<1>7. FindingsOf(w)'
  BY <1>3, <1>5, <1>6, FoundKept DEF Reads
<1>8. Quiet(w)
  BY <1>1, <1>3, <1>4, <1>5 DEF Quiet, Frame, SameArguments, Reads
<1>9. PICK c, k, u : c = local[w].cmd /\ k = local[w].key /\ u = local[w].user
  OBVIOUS
<1>10. Store[k] # <<>>
  <2>1. PICK p \in 1 .. Size : First(p, k) /\ cell[Order[p]].doc = local[w].doc
    BY <1>1, <1>9 DEF Found, Unlisted
  <2>2. p \in 1 .. Cardinality(Cells) /\ FirstOf(Places(k), p, Cardinality(Cells))
    BY <1>1, <1>2, <1>9, <2>1, FirstIsFirstPlace
  <2> QED
    BY <1>1, <1>9, <2>2, StoreSome
<1>11. Serial!Effect(c, Store[k], u) = Store[k]
  BY <1>1, <1>9 DEF Serial!Effect
<1>12. Serial!Result(c, Store[k]) = "contents"
  BY <1>1, <1>9, <1>10 DEF Serial!Result
<1>13. Answers'[w] = "contents"
  BY <1>4, <1>5 DEF Answers, InEffect
<1> QED
  BY <1>1, <1>7, <1>8, <1>9, <1>11, <1>12, <1>13, AnswerSimulated

-----------------------------------------------------------------------------
(* start and end.                                                          *)

LEMMA SessionQuiet ==
  ASSUME StoreInv, Findings, NEW w \in Workers, local[w].pc \in {"lock", "load", "store", "unlock"}
  PROVE  /\ local[w] \in LocalRec /\ Found(local[w]) /\ local[w].reply = "none"
         /\ local[w].cmd \in {"start", "end"} /\ local[w].doc \in DOMAIN doc
         /\ doc[local[w].doc] \in DocRec /\ ~ Linking
<1>1. local[w] \in LocalRec /\ Found(local[w]) /\ local[w].cmd \in {"start", "end"}
  BY LocalTypes DEF StoreInv, StepOf, Findings, FindingsOf
<1>2. local[w].reply = "none"
  BY <1>1 DEF Found, Unlisted
<1>3. local[w].doc \in DOMAIN doc /\ ~ Linking
  BY StoreIsOrdered, LookupsAreQuiet DEF Ordered, RegistersOf, Counting
<1> QED
  BY <1>1, <1>2, <1>3 DEF StoreInv, TypeOK

LEMMA LockSimulated ==
  ASSUME StoreInv, StoreInv', Findings, NEW w \in Workers, LockDocument(w)
  PROVE  Simulated
<1> DEFINE d == local[w].doc
           r == [local[w] EXCEPT !.pc = "load"]
<1>1. local[w].pc = "lock"
  BY DEF LockDocument, At
<1>2. /\ local[w] \in LocalRec /\ Found(local[w]) /\ local[w].reply = "none"
      /\ local[w].cmd \in {"start", "end"} /\ d \in DOMAIN doc /\ doc[d] \in DocRec
  BY <1>1, SessionQuiet
<1>3. doc' = [doc EXCEPT ![d].mutex = w] /\ local' = [local EXCEPT ![w] = r] /\ cell' = cell
  BY <1>2 DEF LockDocument, Goto
<1>4. /\ DOMAIN doc' = DOMAIN doc
      /\ \A x \in DOMAIN doc : doc'[x].collaborators = doc[x].collaborators
  BY <1>2, <1>3 DEF DocRec
<1>5. /\ r.pc = "load" /\ r.reply = "none" /\ SameArguments(r, local[w]) /\ r.doc = d
  BY <1>2 DEF LocalRec, SameArguments
<1> HIDE DEF r
<1>6. Found(r) /\ r.cmd # "add"
  BY <1>1, <1>2, <1>5 DEF Found, Unlisted, SameArguments
<1> QED
  BY <1>1, <1>2, <1>3, <1>4, <1>5, <1>6, BeforeSimulated DEF Before

LEMMA LoadSimulated ==
  ASSUME StoreInv, StoreInv', Findings, NEW w \in Workers, LoadCollaborators(w)
  PROVE  Simulated
<1> DEFINE d == local[w].doc
           copy == doc[d].collaborators
           r == [local[w] EXCEPT !.pc = "store", !.copy = copy]
<1>1. local[w].pc = "load"
  BY DEF LoadCollaborators, At
<1>2. /\ local[w] \in LocalRec /\ Found(local[w]) /\ local[w].reply = "none"
      /\ local[w].cmd \in {"start", "end"} /\ d \in DOMAIN doc
  BY <1>1, SessionQuiet
<1>3. Reads /\ local' = [local EXCEPT ![w] = r]
  BY <1>2 DEF LoadCollaborators
<1> HIDE DEF copy
<1>4. /\ r.pc = "store" /\ r.reply = "none" /\ SameArguments(r, local[w]) /\ r.doc = d
      /\ r.copy = copy
  BY <1>2 DEF LocalRec, SameArguments
<1> HIDE DEF r
<1>5. r.cmd # "add" /\ r.copy = doc[r.doc].collaborators
  BY <1>2, <1>4 DEF copy, SameArguments
<1>6. Found(r)
  BY <1>1, <1>2, <1>4, <1>5 DEF Found, Unlisted, SameArguments
<1> QED
  BY <1>1, <1>2, <1>3, <1>4, <1>5, <1>6, BeforeSimulated DEF Before, Reads

LEMMA UnlockSimulated ==
  ASSUME StoreInv, StoreInv', Findings, NEW w \in Workers, UnlockDocument(w)
  PROVE  Simulated
<1> DEFINE d == local[w].doc
           r == [local[w] EXCEPT !.pc = "reply", !.reply = "ok"]
<1>1. local[w].pc = "unlock"
  BY DEF UnlockDocument, At
<1>2. /\ local[w] \in LocalRec /\ Found(local[w])
      /\ local[w].cmd \in {"start", "end"} /\ d \in DOMAIN doc /\ doc[d] \in DocRec
  BY <1>1, SessionQuiet
<1>3. doc' = [doc EXCEPT ![d].mutex = Nobody] /\ local' = [local EXCEPT ![w] = r] /\ cell' = cell
  BY <1>2 DEF UnlockDocument, Answer
<1>4. /\ DOMAIN doc' = DOMAIN doc
      /\ \A x \in DOMAIN doc : doc'[x].collaborators = doc[x].collaborators
  BY <1>2, <1>3 DEF DocRec
<1>5. r.pc = "reply" /\ r.reply = "ok" /\ SameArguments(r, local[w])
  BY <1>2 DEF LocalRec, SameArguments
<1> HIDE DEF r
<1>6. Found(r) /\ r.cmd # "add"
  BY <1>2, <1>5 DEF Found, Unlisted, SameArguments
<1> QED
  BY <1>1, <1>2, <1>3, <1>4, <1>5, <1>6, AfterSimulated

(* Both modules mean the same removal.                                     *)
LEMMA SameRemoval ==
  ASSUME NEW s, NEW e
  PROVE  Serial!RemoveFirst(s, e) = RemoveFirst(s, e)
BY DEF RemoveFirst, RemoveAt, SelectInSeq, Min,
       Serial!RemoveFirst, Serial!RemoveAt, Serial!SelectInSeq, Serial!Min

(* The store changes under one key.                                        *)
LEMMA StoreUpdated ==
  ASSUME NEW k \in Keys, NEW x, Store'[k] = x,
         \A j \in Keys : j # k => Store'[j] = Store[j]
  PROVE  Store' = [Store EXCEPT ![k] = x]
<1>1. Store = [j \in Keys |-> Store[j]] /\ Store' = [j \in Keys |-> Store'[j]]
  BY DEF Store
<1> QED
  BY <1>1

LEMMA StoreCollaboratorsSimulated ==
  ASSUME StoreInv, StoreInv', Findings, NEW w \in Workers, StoreCollaborators(w)
  PROVE  Simulated
<1> DEFINE d == local[w].doc
           r == [local[w] EXCEPT !.pc = "unlock", !.copy = <<>>]
           N == Cardinality(Cells)
<1>1. local[w].pc = "store" /\ local[w].key \in Keys
  BY LocalTypes DEF StoreCollaborators, At, StoreInv
<1>2. /\ local[w] \in LocalRec /\ Found(local[w]) /\ local[w].reply = "none"
      /\ local[w].cmd \in {"start", "end"} /\ d \in DOMAIN doc /\ doc[d] \in DocRec /\ ~ Linking
  BY <1>1, SessionQuiet
<1>3. /\ doc' = [doc EXCEPT ![d].collaborators = Edited(w)]
      /\ local' = [local EXCEPT ![w] = r] /\ cell' = cell
  BY <1>2 DEF StoreCollaborators
<1>4. /\ DOMAIN doc' = DOMAIN doc
      /\ \A x \in DOMAIN doc : x # d => doc'[x] = doc[x]
      /\ doc'[d].collaborators = Edited(w)
  BY <1>2, <1>3 DEF DocRec
<1>5. r.pc = "unlock" /\ r.reply = "none" /\ SameArguments(r, local[w])
  BY <1>2 DEF LocalRec, SameArguments
<1> HIDE DEF r
<1>6. local'[w] = r /\ \A v \in Workers : v # w => local'[v] = local[v]
  BY <1>3, NewFields DEF StoreInv
<1>7. Found(r) /\ r.cmd # "add"
  BY <1>2, <1>5 DEF Found, Unlisted, SameArguments
<1>8. FindingsOf(w)'
  BY <1>3, <1>4, <1>5, <1>6, <1>7, FoundKept
<1>9. ASSUME NEW v \in Workers, v # w
      PROVE  FindingsOf(v)'
  <2>1. FindingsOf(v) /\ local'[v] = local[v]
    BY <1>6, <1>9 DEF Findings
  <2>2. local[v].cmd # "add"
    BY <1>1, <1>9 DEF StoreInv, ChangesAlone, Change, Busy
  <2>3. local[v].pc = "store" => local[v].doc # d
    <3> SUFFICES ASSUME local[v].pc = "store", local[v].doc = d PROVE FALSE
      OBVIOUS
    <3>1. v \in Editing(d) /\ w \in Editing(d)
      BY <1>1 DEF Editing
    <3> QED
      BY <1>2, <1>9, <3>1 DEF StoreInv, EditorsHoldMutexes
  <2>4. \A x \in DOMAIN doc :
          \/ doc'[x].collaborators = doc[x].collaborators
          \/ local[v].cmd # "add" /\ (local[v].pc = "store" => local[v].doc # x)
    BY <1>4, <2>2, <2>3
  <2> QED
    BY <1>3, <1>4, <2>1, <2>4, FindingsKept
<1>10. Findings'
  BY <1>8, <1>9 DEF Findings
<1>11. PICK c, k, u : c = local[w].cmd /\ k = local[w].key /\ u = local[w].user
  OBVIOUS
<1>12. PICK p \in 1 .. Size : First(p, k) /\ cell[Order[p]].doc = d
  BY <1>1, <1>2, <1>11 DEF Found, Unlisted
<1>13. p \in 1 .. N /\ FirstOf(Places(k), p, N) /\ Contents[p] = local[w].copy
  <2>1. p \in 1 .. N /\ FirstOf(Places(k), p, N) /\ Contents[p] = doc[d].collaborators
    BY <1>1, <1>2, <1>11, <1>12, FirstIsFirstPlace
  <2> QED
    BY <1>1, <1>2, <2>1 DEF Found, Unlisted
<1>14. Size' = Size /\ Order' = Order /\ Ordered
  BY <1>3, SameOrder, StoreIsOrdered
<1>15. Visible' = Visible /\ Visible = Size
  <2>1. ~ Linking'
    BY <1>2, <1>5, <1>6 DEF Linking
  <2> QED
    BY <1>2, <1>14, <2>1 DEF Visible
<1>16. \A j, i : i \in Places(j) <=> i \in Places(j)'
  BY <1>3, <1>4, <1>14, <1>15 DEF Places
<1>17. Contents'[p] = Edited(w)
  BY <1>3, <1>4, <1>12, <1>14 DEF Contents
<1>18. ASSUME NEW i \in 1 .. Size, i # p, cell[Order[i]].doc \in DOMAIN doc
       PROVE  Contents'[i] = Contents[i]
  <2>1. Order[i] # Order[p] /\ Order[i] \in DOMAIN cell /\ Order[p] \in DOMAIN cell
    BY <1>14, <1>18 DEF Ordered, Linked
  <2>2. cell[Order[i]].doc # d
    BY <1>12, <2>1 DEF StoreInv, OwnDocuments
  <2> QED
    BY <1>3, <1>4, <1>14, <1>18, <2>2 DEF Contents
<1>19. Edited(w) \in Seq(Users)
  BY <1>1, EditedIsTyped DEF StoreInv
<1>20. Store[k] # <<>> /\ Store'[k] = [Store[k] EXCEPT ![1] = Edited(w)]
  <2>1. HeadChanged(Places(k), Places(k)', Contents, Contents', p, N)
    <3>1. p \in Places(k)'
      BY <1>13, <1>16 DEF FirstOf
    <3>2. \A i \in Places(k) : i # p => Contents[i] = Contents'[i]
      BY <1>15, <1>18 DEF Places
    <3> QED
      BY <1>16, <3>1, <3>2 DEF HeadChanged
  <2> QED
    BY <1>1, <1>11, <1>13, <1>17, <1>19, <2>1, StoreChanged
<1>21. ASSUME NEW j \in Keys, j # k
       PROVE  Store'[j] = Store[j]
  <2>1. \A i \in Places(j) : i # p
    BY <1>12, <1>21 DEF Places, First
  <2>2. \A i \in Places(j) : Contents[i] = Contents'[i]
    BY <1>15, <1>18, <2>1 DEF Places
  <2>3. SameValues(Places(j), Places(j)', Contents, Contents', N)
    BY <1>16, <2>2 DEF SameValues
  <2> QED
    BY <2>3, StoreSame
<1>22. Store[k][1] = local[w].copy
  BY <1>1, <1>11, <1>13, StoreHead
<1>23. Serial!Effect(c, Store[k], u) = [Store[k] EXCEPT ![1] = Edited(w)]
  <2>1. CASE c = "start"
    <3>1. Edited(w) = Append(Store[k][1], u)
      BY <1>11, <1>22, <2>1 DEF Edited
    <3> QED
      BY <1>20, <2>1, <3>1 DEF Serial!Effect
  <2>2. CASE c = "end"
    <3>1. Edited(w) = Serial!RemoveFirst(Store[k][1], u)
      BY <1>11, <1>22, <2>2, SameRemoval DEF Edited
    <3> QED
      BY <1>20, <2>2, <3>1 DEF Serial!Effect
  <2> QED
    BY <1>2, <1>11, <2>1, <2>2
<1>24. Store' = [Store EXCEPT ![k] = Serial!Effect(c, Store[k], u)]
  BY <1>1, <1>11, <1>20, <1>21, <1>23, StoreUpdated
<1>25. Requests' = Requests /\ \A v \in Workers : v # w => Answers'[v] = Answers[v]
  BY <1>3, <1>5, <1>6, FrameKept DEF Frame, SameArguments
<1>26. Answers[w] = "none" /\ Answers'[w] = "ok"
  BY <1>1, <1>2, <1>5, <1>6 DEF Answers, InEffect
<1>27. Serial!Result(c, Store[k]) = "ok"
  BY <1>2, <1>11, <1>20 DEF Serial!Result
<1>28. Serial!Execute(w)
  BY <1>1, <1>2, <1>11, <1>24, <1>25, <1>26, <1>27, Executes
<1> QED
  BY <1>10, <1>28 DEF Simulated, Serial!Next

-----------------------------------------------------------------------------
(* remove and add: the steps that only read the entries.                   *)

LEMMA LocateEntrySimulated ==
  ASSUME StoreInv, StoreInv', Findings, NEW w \in Workers, LocateEntry(w)
  PROVE  Simulated
<1> DEFINE l == list[local[w].list]
           i == local[w].index
           e == IF i < l.length \div 2 THEN Walk(l.head, i, FALSE)
                                       ELSE Walk(l.tail, l.length - i - 1, TRUE)
<1>1. /\ local[w].pc = "locate" /\ local[w].cmd = "remove"
      /\ local[w] \in LocalRec /\ local[w].reply = "none" /\ Found(local[w])
  BY FoundBefore DEF LocateEntry, At, StoreInv, StepOf, Before
<1>2. /\ Ordered /\ Size \in Nat /\ i \in 0 .. Size - 1 /\ ~ Linking /\ ~ NoTail
      /\ bucket # Null /\ local[w].list = bucket
      /\ \A v \in Workers : local[v].pc \notin Counting
  BY <1>1, StoreIsOrdered, LookupsAreQuiet DEF Ordered, RegistersOf, Counting
<1>3. l.length = Size /\ l.head = Order[1] /\ l.tail = Order[Size]
  <2>1. Size > 0
    BY <1>2
  <2> QED
    BY <1>2, <2>1 DEF Ordered, Anchored
<1>4. e = Order[i + 1]
  <2>1. e = IF i < Size \div 2 THEN Walk(Order[1], i, FALSE)
                               ELSE Walk(Order[Size], Size - i - 1, TRUE)
    BY <1>3
  <2>2. /\ Walk(Order[1], i, FALSE) = Order[i + 1]
        /\ Walk(Order[Size], Size - i - 1, TRUE) = Order[i + 1]
    BY <1>2, WalkAlongChain DEF Ordered
  <2> HIDE DEF e, i
  <2> QED
    BY <2>1, <2>2
<1>5. PICK p : p = i + 1
  OBVIOUS
<1>6. p \in 1 .. Size /\ e = Order[p] /\ First(p, local[w].key)
  <2>1. First(i + 1, local[w].key)
    BY <1>1 DEF Found, Unlisted
  <2> HIDE DEF e
  <2> QED
    BY <1>2, <1>4, <1>5, <2>1
<1>7. Order[p] \in DOMAIN cell
  BY <1>2, <1>6 DEF Ordered
<1> DEFINE r == [local[w] EXCEPT !.pc = "freeDoc", !.cell = Order[p]]
<1>8. Reads /\ local' = [local EXCEPT ![w] = r]
  <2>1. ~ (i >= l.length)
    BY <1>2, <1>3
  <2>2. Reads /\ local' = [local EXCEPT ![w].pc = "freeDoc", ![w].cell = e]
    BY <1>6, <1>7, <2>1 DEF LocateEntry
  <2> QED
    BY <1>6, <2>2
<1>9. /\ r.pc = "freeDoc" /\ r.reply = "none" /\ SameArguments(r, local[w]) /\ r.cell = Order[p]
  BY <1>1 DEF LocalRec, SameArguments
<1> HIDE DEF r, e
<1>10. r.cmd # "add" /\ First(p, r.key)
  BY <1>1, <1>6, <1>9 DEF SameArguments
<1>11. Found(r)
  BY <1>6, <1>9, <1>10 DEF Found, Unlisted
<1> QED
  BY <1>1, <1>8, <1>9, <1>10, <1>11, BeforeSimulated DEF Before, Reads

LEMMA TestBucketSimulated ==
  ASSUME StoreInv, StoreInv', Findings, NEW w \in Workers, TestBucket(w)
  PROVE  Simulated
<1>1. PICK pc : pc = IF bucket = Null THEN "create" ELSE "fetch"
  OBVIOUS
<1> DEFINE r == [local[w] EXCEPT !.pc = pc]
<1>2. /\ local[w].pc = "bucket" /\ local[w].cmd = "add"
      /\ local[w] \in LocalRec /\ local[w].reply = "none" /\ Found(local[w])
  BY FoundBefore DEF TestBucket, At, Before
<1>3. Reads /\ local' = [local EXCEPT ![w] = r]
  BY <1>1 DEF TestBucket, Goto
<1>4. r.pc = pc /\ r.reply = "none" /\ SameArguments(r, local[w]) /\ r.doc = local[w].doc
  BY <1>2 DEF LocalRec, SameArguments
<1> HIDE DEF r
<1>5. Found(r)
  BY <1>1, <1>2, <1>4 DEF Found, Unlisted, SameArguments
<1> QED
  BY <1>1, <1>2, <1>3, <1>4, <1>5, BeforeSimulated DEF Before, Reads

LEMMA FetchListSimulated ==
  ASSUME StoreInv, StoreInv', Findings, NEW w \in Workers, FetchList(w)
  PROVE  Simulated
<1> DEFINE r == [local[w] EXCEPT !.pc = "append", !.list = bucket]
<1>1. /\ local[w].pc = "fetch" /\ local[w].cmd = "add"
      /\ local[w] \in LocalRec /\ local[w].reply = "none" /\ Found(local[w])
  BY FoundBefore DEF FetchList, At, Before, StoreInv, StepOf
<1>2. Reads /\ local' = [local EXCEPT ![w] = r]
  BY DEF FetchList
<1>3. r.pc = "append" /\ r.reply = "none" /\ SameArguments(r, local[w]) /\ r.doc = local[w].doc
  BY <1>1 DEF LocalRec, SameArguments
<1> HIDE DEF r
<1>4. Found(r)
  BY <1>1, <1>3 DEF Found, Unlisted, SameArguments
<1> QED
  BY <1>1, <1>2, <1>3, <1>4, BeforeSimulated DEF Before, Reads

LEMMA CreateListSimulated ==
  ASSUME StoreInv, StoreInv', Findings, NEW w \in Workers, CreateList(w)
  PROVE  Simulated
<1> DEFINE r == [local[w] EXCEPT !.pc = "fetch"]
<1>1. /\ local[w].pc = "create" /\ local[w].cmd = "add"
      /\ local[w] \in LocalRec /\ local[w].reply = "none" /\ Found(local[w])
  BY FoundBefore DEF CreateList, At, Before, StoreInv, StepOf
<1>2. cell' = cell /\ doc' = doc /\ local' = [local EXCEPT ![w] = r]
  BY DEF CreateList, Goto
<1>3. r.pc = "fetch" /\ r.reply = "none" /\ SameArguments(r, local[w]) /\ r.doc = local[w].doc
  BY <1>1 DEF LocalRec, SameArguments
<1> HIDE DEF r
<1>4. Found(r)
  BY <1>1, <1>3 DEF Found, Unlisted, SameArguments
<1> QED
  BY <1>1, <1>2, <1>3, <1>4, BeforeSimulated DEF Before

(* The length is nothing that the store shows.                             *)
LEMMA LoadLengthSimulated ==
  ASSUME StoreInv, StoreInv', Findings, NEW w \in Workers, LoadLength(w)
  PROVE  Simulated
<1> DEFINE length == list[local[w].list].length
           r == [local[w] EXCEPT !.pc = "resize", !.length = length]
<1>1. /\ local[w].pc = "count" /\ local[w] \in LocalRec /\ Found(local[w])
  BY LocalTypes DEF LoadLength, At, StoreInv, Findings, FindingsOf
<1>2. Reads /\ local' = [local EXCEPT ![w] = r] /\ local[w].reply = "none"
  BY <1>1 DEF LoadLength, Found, Unlisted
<1> HIDE DEF length
<1>3. r.pc = "resize" /\ r.reply = "none" /\ SameArguments(r, local[w])
  BY <1>1, <1>2 DEF LocalRec, SameArguments
<1> HIDE DEF r
<1>4. Found(r)
  BY <1>3 DEF Found, Unlisted
<1> QED
  BY <1>1, <1>2, <1>3, <1>4, AfterSimulated DEF Reads

LEMMA StoreLengthSimulated ==
  ASSUME StoreInv, StoreInv', Findings, NEW w \in Workers, StoreLength(w)
  PROVE  Simulated
<1> DEFINE r == [local[w] EXCEPT !.pc = "reply", !.reply = "ok"]
<1>1. /\ local[w].pc = "resize" /\ local[w] \in LocalRec /\ Found(local[w])
  BY LocalTypes DEF StoreLength, At, StoreInv, Findings, FindingsOf
<1>2. cell' = cell /\ doc' = doc /\ local' = [local EXCEPT ![w] = r]
  BY DEF StoreLength, Answer
<1>3. r.pc = "reply" /\ r.reply = "ok" /\ SameArguments(r, local[w])
  BY <1>1 DEF LocalRec, SameArguments
<1> HIDE DEF r
<1>4. Found(r)
  BY <1>3 DEF Found, Unlisted
<1> QED
  BY <1>1, <1>2, <1>3, <1>4, AfterSimulated

-----------------------------------------------------------------------------
(* remove and add: the steps that change the entries.                      *)

(* The others are idle meanwhile.                                          *)
LEMMA AloneFindings ==
  ASSUME StoreInv, Findings, NEW w \in Workers, local[w].cmd \in Change,
         \A v \in Workers : v # w => local'[v] = local[v], FindingsOf(w)'
  PROVE  Findings' /\ \A v \in Workers : v # w => local[v].pc = "idle"
<1>1. \A v \in Workers : v # w => local[v].pc = "idle"
  BY OthersAreIdle
<1>2. ASSUME NEW v \in Workers, v # w
      PROVE  FindingsOf(v)'
  BY <1>1, <1>2, IdleFindings DEF Findings, Busy
<1> QED
  BY <1>1, <1>2 DEF Findings

(* The document goes: that is when "remove" takes effect.                  *)
LEMMA FreeDocumentSimulated ==
  ASSUME StoreInv, StoreInv', Findings, NEW w \in Workers, FreeDocument(w)
  PROVE  Simulated
<1> DEFINE r == [local[w] EXCEPT !.pc = "unlink"]
           N == Cardinality(Cells)
<1>1. /\ local[w].pc = "freeDoc" /\ local[w].cmd = "remove" /\ local[w].key \in Keys
      /\ local[w] \in LocalRec /\ local[w].reply = "none" /\ Found(local[w])
      /\ Answers[w] = "none"
  BY FoundBefore, LocalTypes DEF FreeDocument, At, StoreInv, StepOf, Before
<1>2. /\ Ordered /\ ~ Linking /\ \A f \in DOMAIN cell : cell[f].doc \in DOMAIN doc
  BY <1>1, StoreIsOrdered, LookupsAreQuiet DEF Counting
<1>3. PICK c, k, u : c = local[w].cmd /\ k = local[w].key /\ u = local[w].user
  OBVIOUS
<1>4. PICK p \in 1 .. Size : First(p, k) /\ local[w].cell = Order[p]
  BY <1>1, <1>3 DEF Found, Unlisted
<1>5. PICK e : e = Order[p]
  OBVIOUS
<1>6. PICK d : d = cell[e].doc
  OBVIOUS
<1>7. e \in DOMAIN cell /\ d \in DOMAIN doc
  BY <1>2, <1>5, <1>6 DEF Ordered
<1>8. documentFree(d) /\ local' = [local EXCEPT ![w] = r] /\ cell' = cell
  BY <1>2, <1>4, <1>5, <1>6, <1>7 DEF FreeDocument, Alive, Goto
<1>9. r.pc = "unlink" /\ r.reply = "none" /\ SameArguments(r, local[w]) /\ r.cell = e
  BY <1>1, <1>4, <1>5 DEF LocalRec, SameArguments
<1> HIDE DEF r
<1>10. local'[w] = r /\ \A v \in Workers : v # w => local'[v] = local[v]
  BY <1>8, NewFields DEF StoreInv
<1>11. DOMAIN doc' = DOMAIN doc \ {d} /\ \A x \in DOMAIN doc' : doc'[x] = doc[x]
  BY <1>8 DEF documentFree
<1>12. FindingsOf(w)'
  <2>1. cell'[local'[w].cell].doc \notin DOMAIN doc'
    BY <1>6, <1>8, <1>9, <1>10, <1>11
  <2>2. local'[w].pc = "unlink" /\ local'[w].reply = "none" /\ local'[w].cmd # "add"
    BY <1>1, <1>9, <1>10 DEF SameArguments
  <2> QED
    BY <2>1, <2>2 DEF FindingsOf, Found, Unlisted
<1>13. Findings' /\ Requests' = Requests
       /\ \A v \in Workers : v # w => Answers'[v] = Answers[v]
  BY <1>1, <1>8, <1>9, <1>10, <1>12, AloneFindings, FrameKept DEF Change, Frame, SameArguments
<1>14. Size' = Size /\ Order' = Order
  BY <1>8, SameOrder
<1>15. Visible' = Size /\ Visible = Size
  <2>1. ~ Linking'
    BY <1>2, <1>9, <1>10 DEF Linking
  <2> QED
    BY <1>2, <1>14, <2>1 DEF Visible
<1>16. p \in 1 .. N /\ FirstOf(Places(k), p, N)
  BY <1>1, <1>2, <1>3, <1>4, <1>5, <1>6, <1>7, FirstIsFirstPlace
<1>17. ASSUME NEW i \in 1 .. Size, i # p
       PROVE  cell[Order[i]].doc \in DOMAIN doc' /\ cell[Order[i]].doc \in DOMAIN doc
  <2>1. Order[i] # e /\ Order[i] \in DOMAIN cell
    BY <1>2, <1>5, <1>17 DEF Ordered, Linked
  <2> QED
    BY <1>2, <1>6, <1>7, <1>11, <2>1 DEF StoreInv, OwnDocuments
<1>18. \A j : p \notin Places(j)'
  BY <1>5, <1>6, <1>8, <1>11, <1>14 DEF Places
<1>19. ASSUME NEW j, NEW i, i # p
       PROVE  (i \in Places(j) <=> i \in Places(j)') /\ (i \in Places(j) => Contents[i] = Contents'[i])
  <2>1. i \in Places(j) <=> i \in Places(j)'
    BY <1>8, <1>14, <1>15, <1>17, <1>19 DEF Places
  <2>2. ASSUME i \in Places(j)
        PROVE  Contents[i] = Contents'[i]
    <3>1. i \in 1 .. Size
      BY <1>15, <2>2 DEF Places
    <3>2. cell'[Order'[i]].doc \in DOMAIN doc'
      BY <1>8, <1>14, <1>17, <1>19, <3>1
    <3> QED
      BY <1>8, <1>11, <1>14, <3>1, <3>2 DEF Contents
  <2> QED
    BY <2>1, <2>2
<1>20. Store[k] # <<>> /\ Store'[k] = Tail(Store[k])
  <2>1. HeadLost(Places(k), Places(k)', Contents, Contents', p, N)
    BY <1>18, <1>19 DEF HeadLost
  <2> QED
    BY <1>1, <1>3, <1>16, <2>1, StoreTail
<1>21. ASSUME NEW j \in Keys, j # k
       PROVE  Store'[j] = Store[j]
  <2>1. p \notin Places(j)
    BY <1>4, <1>21 DEF Places, First
  <2>2. SameValues(Places(j), Places(j)', Contents, Contents', N)
    BY <1>18, <1>19, <2>1 DEF SameValues
  <2> QED
    BY <2>2, StoreSame
<1>22. Serial!Effect(c, Store[k], u) = Tail(Store[k])
  BY <1>1, <1>3, <1>20 DEF Serial!Effect
<1>23. Store' = [Store EXCEPT ![k] = Serial!Effect(c, Store[k], u)]
  BY <1>1, <1>3, <1>20, <1>21, <1>22, StoreUpdated
<1>24. Answers'[w] = "ok" /\ Serial!Result(c, Store[k]) = "ok"
  BY <1>1, <1>3, <1>9, <1>10 DEF Answers, InEffect, Serial!Result
<1>25. Serial!Execute(w)
  BY <1>1, <1>3, <1>13, <1>23, <1>24, Executes
<1> QED
  BY <1>13, <1>25 DEF Simulated, Serial!Next

(* The entry without a document goes: the others move up.                  *)
LEMMA UnlinkEntrySimulated ==
  ASSUME StoreInv, StoreInv', Findings, NEW w \in Workers, UnlinkEntry(w)
  PROVE  Simulated
<1> DEFINE r == [local[w] EXCEPT !.pc = "count"]
           N == Cardinality(Cells)
<1>1. PICK e : e = local[w].cell
  OBVIOUS
<1>2. /\ local[w].pc = "unlink" /\ local[w].cmd = "remove" /\ e \in DOMAIN cell
      /\ local[w] \in LocalRec /\ local[w].reply = "none"
      /\ cell[e].doc \notin DOMAIN doc
  <2>1. local[w].pc = "unlink" /\ local[w] \in LocalRec /\ Found(local[w])
    BY LocalTypes, Zenon DEF UnlinkEntry, At, StoreInv, Findings, FindingsOf
  <2>2. local[w].reply = "none" /\ cell[e].doc \notin DOMAIN doc
    BY <1>1, <2>1 DEF Found, Unlisted
  <2> QED
    BY <1>1, <2>1, <2>2 DEF StoreInv, StepOf, RegistersOf
<1>3. Ordered /\ Ordered'
  <2>1. Ordered'
    BY StoreIsOrdered, PTL
  <2> QED
    BY <2>1, StoreIsOrdered
<1>4. \A v \in Workers : v # w => local[v].pc = "idle"
  BY <1>2, OthersAreIdle DEF Change
<1>5. ~ Linking /\ Size \in Nat
  BY <1>2, <1>3, <1>4 DEF Linking, Ordered
<1>6. PICK p \in 1 .. Size : Order[p] = e
  BY <1>2, <1>3 DEF Ordered, Linked
<1>7. /\ Unlinks(e) /\ local' = [local EXCEPT ![w] = r]
      /\ UNCHANGED <<status, bucket, doc, history>>
  <2>1. status' # "undefined"
    BY DEF StoreInv, Runs
  <2> QED
    BY <1>1, <1>2, <2>1, Zenon DEF UnlinkEntry, Unlinks, Goto, Stop
<1>8. r.pc = "count" /\ r.reply = "none" /\ SameArguments(r, local[w])
  BY <1>2 DEF LocalRec, SameArguments
<1> HIDE DEF r
<1>9. local'[w] = r /\ \A v \in Workers : v # w => local'[v] = local[v]
  BY <1>7, NewFields DEF StoreInv
<1>10. FindingsOf(w)'
  <2>1. local'[w].pc = "count" /\ local'[w].reply = "none"
    BY <1>8, <1>9
  <2> QED
    BY <2>1 DEF FindingsOf, Found, Unlisted
<1>11. Findings' /\ Requests' = Requests
       /\ \A v \in Workers : v # w => Answers'[v] = Answers[v]
  <2>1. \A v \in Workers : v # w => local[v].pc # "link"
    BY <1>4
  <2>2. Frame(w)
    BY <1>8, <1>9 DEF Frame, SameArguments
  <2> QED
    BY <1>2, <1>9, <1>10, <2>1, <2>2, AloneFindings, FrameKept DEF Change
<1>12. /\ DOMAIN cell' = DOMAIN cell \ {e} /\ Size' = Size - 1
       /\ \A x \in DOMAIN cell' : cell'[x].doc = cell[x].doc /\ cell'[x].key = cell[x].key
  <2>1. DOMAIN cell' = DOMAIN cell \ {e}
    BY <1>7, Zenon DEF Unlinks
  <2>2. Size' = Size - 1
    BY <1>2, <2>1, SizeIsNatural, FS_RemoveElement DEF Size, StoreInv
  <2>3. \A x \in DOMAIN cell : cell[x] \in CellRec
    BY DEF StoreInv, TypeOK
  <2> QED
    BY <1>7, <2>1, <2>2, <2>3, Zenon DEF Unlinks, CellRec
<1>13. ~ Linking'
  BY <1>4, <1>8, <1>9 DEF Linking
<1>14. PICK new : new = Without(Order, p)
  OBVIOUS
<1>15. Order' = new
  <2>1. Chained(new)'
    BY <1>3, <1>5, <1>6, <1>7, <1>12, <1>13, <1>14, UnlinkedChain DEF Ordered, StoreInv
  <2>2. Linked(cell', Size', new)
    BY <2>1 DEF Chained, Linked
  <2> QED
    BY <1>3, <2>2, OneOrder DEF Ordered
<1>16. \A i \in 1 .. Size - 1 :
         /\ Order'[i] = Order[Old(p, i)] /\ Old(p, i) \in 1 .. Size
         /\ Order'[i] \in DOMAIN cell'
  BY <1>3, <1>5, <1>12, <1>14, <1>15, OldPlaces DEF Without, Ordered
<1>17. Visible = Size /\ Visible' = Size - 1 /\ N \in Nat /\ Size <= N
  BY <1>3, <1>5, <1>12, <1>13 DEF Visible, Ordered
<1>18. ASSUME NEW k, NEW i \in 1 .. Size - 1
       PROVE  /\ i \in Places(k)' <=> Old(p, i) \in Places(k)
              /\ Contents'[i] = Contents[Old(p, i)]
  <2>1. PICK j : j = Old(p, i)
    OBVIOUS
  <2>2. /\ j \in 1 .. Size /\ Order'[i] = Order[j] /\ i \in 1 .. Size'
        /\ cell'[Order[j]].doc = cell[Order[j]].doc /\ cell'[Order[j]].key = cell[Order[j]].key
    BY <1>12, <1>16, <2>1
  <2>3. i \in 1 .. Visible' /\ j \in 1 .. Visible
    BY <1>17, <2>2
  <2>4. i \in Places(k)' <=> j \in Places(k)
    BY <1>7, <2>2, <2>3 DEF Places
  <2>5. Contents'[i] = Contents[j]
    BY <1>7, <2>2 DEF Contents
  <2> QED
    BY <2>1, <2>4, <2>5
<1>19. ASSUME NEW k \in Keys
       PROVE  Store'[k] = Store[k]
  <2>1. p \notin Places(k) /\ N \notin Places(k)'
    <3>1. p \notin Places(k)
      BY <1>2, <1>6 DEF Places
    <3>2. N \notin 1 .. Visible'
      BY <1>5, <1>17
    <3>3. N \notin Places(k)'
      <4> HIDE DEF N
      <4> QED
        BY <3>2 DEF Places
    <3> QED
      BY <3>1, <3>3
  <2>2. ASSUME NEW i \in 1 .. N - 1, i < p
        PROVE  (i \in Places(k) <=> i \in Places(k)') /\ (i \in Places(k) => Contents[i] = Contents'[i])
    <3>1. i \in 1 .. Size - 1 /\ Old(p, i) = i
      BY <1>5, <2>2 DEF Old
    <3> QED
      BY <1>18, <3>1
  <2>3. ASSUME NEW i \in 1 .. N - 1, i >= p
        PROVE  (i + 1 \in Places(k) <=> i \in Places(k)')
               /\ (i \in Places(k)' => Contents[i + 1] = Contents'[i])
    <3>1. CASE i <= Size - 1
      <4>1. i \in 1 .. Size - 1 /\ Old(p, i) = i + 1
        BY <1>5, <2>3, <3>1 DEF Old
      <4> QED
        BY <1>18, <4>1
    <3>2. CASE i > Size - 1
      <4>1. i + 1 \notin 1 .. Visible /\ i \notin 1 .. Visible'
        BY <1>5, <1>17, <3>2
      <4> QED
        BY <4>1 DEF Places
    <3> QED
      BY <1>5, <3>1, <3>2
  <2>4. MovedUp(Places(k), Places(k)', Contents, Contents', p, N)
    BY <2>1, <2>2, <2>3 DEF MovedUp
  <2>5. p \in 1 .. N
    BY <1>5, <1>17
  <2> QED
    BY <2>4, <2>5, StoreMoved
<1>20. Store' = Store
  <2>1. Store = [k \in Keys |-> Store[k]] /\ Store' = [k \in Keys |-> Store'[k]]
    BY DEF Store
  <2> QED
    BY <1>19, <2>1
<1>21. Answers[w] = "ok" /\ Answers'[w] = "ok"
  BY <1>2, <1>8, <1>9 DEF Answers, InEffect
<1>22. Unseen
  BY <1>11, <1>20, <1>21, Stutters
<1> QED
  BY <1>11, <1>22 DEF Simulated

LEMMA LongerOrder ==
  ASSUME Ordered, NEW e, e \notin DOMAIN cell, DOMAIN cell' = DOMAIN cell \cup {e},
         \A x \in DOMAIN cell : cell'[x] = cell[x],
         cell'[e].prev = IF Size = 0 THEN Null ELSE Order[Size],
         Size' = Size + 1, Ordered'
  PROVE  /\ \A i \in 1 .. Size : Order'[i] = Order[i]
         /\ Order'[Size + 1] = e
<1>1. PICK new : new = With(Order, e)
  OBVIOUS
<1>2. Size \in Nat /\ \A i \in 1 .. Size : Order[i] \in DOMAIN cell /\ Order[i] # e
  BY DEF Ordered
<1>3. /\ new \in [1 .. Size + 1 -> DOMAIN cell']
      /\ new[Size + 1] = e
      /\ \A i \in 1 .. Size : new[i] = Order[i]
      /\ \A i \in 1 .. Size + 1 : i \in 1 .. Size \/ i = Size + 1
      /\ Size + 1 \in 1 .. Size + 1
      /\ \A i \in 1 .. Size : i \in 1 .. Size + 1
  BY <1>1, <1>2 DEF With
<1>4. ASSUME NEW i \in 1 .. Size + 1, NEW j \in 1 .. Size + 1, new[i] = new[j]
      PROVE  i = j
  <2>1. \A a, b \in 1 .. Size : Order[a] = Order[b] => a = b
    BY DEF Ordered, Linked
  <2> QED
    BY <1>2, <1>3, <1>4, <2>1
<1>5. \A x \in DOMAIN cell' : \E i \in 1 .. Size + 1 : new[i] = x
  BY <1>3 DEF Ordered, Linked
<1>6. ASSUME NEW i \in 1 .. Size + 1
      PROVE  cell'[new[i]].prev = IF i = 1 THEN Null ELSE new[i - 1]
  <2>1. CASE i \in 1 .. Size
    <3>1. cell'[new[i]] = cell[Order[i]] /\ (i # 1 => i - 1 \in 1 .. Size)
      BY <1>2, <1>3, <2>1
    <3>2. cell[Order[i]].prev = IF i = 1 THEN Null ELSE Order[i - 1]
      BY <2>1 DEF Ordered, Linked
    <3> QED
      BY <1>3, <3>1, <3>2
  <2>2. CASE i = Size + 1
    <3>1. i - 1 = Size /\ (i = 1 <=> Size = 0) /\ (Size # 0 => Size \in 1 .. Size)
      BY <1>2, <2>2
    <3> QED
      BY <1>3, <2>2, <3>1
  <2> QED
    BY <1>3, <2>1, <2>2
<1>7. Linked(cell', Size', new)
  <2>1. Linked(cell', Size + 1, new)
    BY <1>3, <1>4, <1>5, <1>6 DEF Linked
  <2> QED
    BY <2>1
<1>8. Order' = new
  BY <1>7, OneOrder DEF Ordered
<1> QED
  BY <1>3, <1>8

LEMMA TestLengthSimulated ==
  ASSUME StoreInv, StoreInv', Findings, NEW w \in Workers, TestLength(w)
  PROVE  Simulated
<1>1. PICK pc : pc = IF list[local[w].list].length = 0 THEN "first" ELSE "behind"
  OBVIOUS
<1> DEFINE r == [local[w] EXCEPT !.pc = pc]
<1>2. /\ local[w].pc = "append" /\ local[w].cmd = "add"
      /\ local[w] \in LocalRec /\ local[w].reply = "none" /\ Found(local[w])
  BY FoundBefore DEF TestLength, At, Before, StoreInv, StepOf
<1>3. Reads /\ local' = [local EXCEPT ![w] = r]
  BY <1>1 DEF TestLength, Goto
<1>4. r.pc = pc /\ r.reply = "none" /\ SameArguments(r, local[w]) /\ r.doc = local[w].doc
  BY <1>2 DEF LocalRec, SameArguments
<1> HIDE DEF r
<1>5. pc \in {"first", "behind"}
  BY <1>1
<1>6. Found(r)
  BY <1>2, <1>4, <1>5 DEF Found, SameArguments, Unlisted
<1> QED
  BY <1>2, <1>3, <1>4, <1>5, <1>6, BeforeSimulated DEF Before, Reads

LEMMA ReadTailSimulated ==
  ASSUME StoreInv, StoreInv', Findings, NEW w \in Workers, ReadTail(w)
  PROVE  Simulated
<1> DEFINE t == list[local[w].list].tail
           r == [local[w] EXCEPT !.pc = "last", !.cell = t]
<1>1. /\ local[w].pc = "behind" /\ local[w].cmd = "add"
      /\ local[w] \in LocalRec /\ local[w].reply = "none" /\ Found(local[w])
  BY FoundBefore DEF ReadTail, At, Before, StoreInv, StepOf
<1>2. Reads /\ local' = [local EXCEPT ![w] = r]
  BY DEF ReadTail
<1>3. r.pc = "last" /\ r.reply = "none" /\ SameArguments(r, local[w]) /\ r.doc = local[w].doc
  BY <1>1 DEF LocalRec, SameArguments
<1> HIDE DEF r
<1>4. Found(r)
  BY <1>1, <1>3 DEF Found, SameArguments, Unlisted
<1> QED
  BY <1>1, <1>2, <1>3, <1>4, BeforeSimulated DEF Before, Reads

(* The entry e is new, at the end of the order.                            *)
LEMMA EntryAdded ==
  ASSUME StoreInv, StoreInv', Findings, NEW w \in Workers, NEW e \in Cells \ DOMAIN cell, NEW r,
         local[w].pc = "first" \/ local[w].pc = "last",
         cell' = [x \in DOMAIN cell \cup {e} |->
                    IF x = e
                      THEN [next |-> Null, prev |-> IF Size = 0 THEN Null ELSE Order[Size],
                            key |-> local[w].key, doc |-> local[w].doc]
                      ELSE cell[x]],
         doc' = doc, local' = [local EXCEPT ![w] = r],
         r.pc \in {"alone", "link"}, r.reply = "none", SameArguments(r, local[w]),
         r.cell = e, r.doc = local[w].doc
  PROVE  /\ Ordered /\ Visible = Size /\ Size \in Nat /\ Size' = Size + 1
         /\ Size + 1 \in 1 .. Cardinality(Cells)
         /\ \A i \in 1 .. Size : Order'[i] = Order[i]
         /\ Order'[Size + 1] = e
         /\ DOMAIN cell' = DOMAIN cell \cup {e} /\ \A x \in DOMAIN cell : cell'[x] = cell[x]
         /\ cell'[e].prev = IF Size = 0 THEN Null ELSE Order[Size]
         /\ cell'[e].key = local[w].key /\ cell'[e].doc = local[w].doc
         /\ local[w].doc \in DOMAIN doc /\ doc[local[w].doc].collaborators = <<>>
         /\ local'[w] = r /\ \A v \in Workers : v # w => local'[v].pc = "idle"
         /\ Findings' /\ Requests' = Requests
         /\ \A v \in Workers : v # w => Answers'[v] = Answers[v]
<1>1. /\ local[w].cmd = "add" /\ Found(local[w])
      /\ local[w] \in LocalRec /\ local[w].reply = "none"
  BY FoundBefore DEF StoreInv, StepOf, Before
<1>2. /\ Ordered /\ ~ Linking /\ Size \in Nat
      /\ local[w].doc \in DOMAIN doc /\ doc[local[w].doc].collaborators = <<>>
  BY <1>1, StoreIsOrdered, LookupsAreQuiet DEF Ordered, RegistersOf, Found, Counting, Unlisted
<1>3. Ordered'
  BY StoreIsOrdered, PTL
<1>4. PICK k, d : k = local[w].key /\ d = local[w].doc
  OBVIOUS
<1>5. PICK prev : prev = IF Size = 0 THEN Null ELSE Order[Size]
  OBVIOUS
<1>6. /\ cell' = [x \in DOMAIN cell \cup {e} |->
            IF x = e THEN [next |-> Null, prev |-> prev, key |-> k, doc |-> d] ELSE cell[x]]
      /\ doc' = doc /\ local' = [local EXCEPT ![w] = r]
      /\ r.pc \in {"alone", "link"} /\ r.reply = "none" /\ SameArguments(r, local[w])
      /\ r.cell = e /\ r.doc = d
  <2>1. r.doc = d
    BY <1>4
  <2> QED
    BY <1>4, <1>5, <2>1, Zenon
<1>7. local'[w] = r /\ \A v \in Workers : v # w => local'[v] = local[v]
  BY NewFields DEF StoreInv
<1>8. /\ DOMAIN cell' = DOMAIN cell \cup {e} /\ e \notin DOMAIN cell /\ e \in DOMAIN cell'
      /\ \A x \in DOMAIN cell : cell'[x] = cell[x]
      /\ cell'[e].prev = prev /\ cell'[e].key = k /\ cell'[e].doc = d
  BY <1>6
<1>9. FindingsOf(w)'
  <2>1. local'[w].pc \in {"alone", "link"} /\ local'[w].reply = "none" /\ local'[w].cell = e
        /\ local'[w].key = k /\ local'[w].doc = d
    BY <1>4, <1>6, <1>7 DEF SameArguments
  <2>2. doc'[d].collaborators = <<>>
    BY <1>2, <1>4, <1>6
  <2> QED
    BY <1>8, <2>1, <2>2 DEF FindingsOf, Found, Unlisted
<1>10. \A v \in Workers : v # w => local[v].pc = "idle"
  BY <1>1, OthersAreIdle DEF Change
<1>11. Findings' /\ Requests' = Requests
       /\ \A v \in Workers : v # w => Answers'[v] = Answers[v]
  <2>1. Frame(w)
    BY <1>6, <1>7 DEF Frame, SameArguments
  <2>2. Findings'
    BY <1>1, <1>7, <1>9, AloneFindings DEF Change
  <2>3. \A v \in Workers : v # w => local[v].pc # "link"
    BY <1>10
  <2> QED
    BY <2>1, <2>2, <2>3, FrameKept
<1>12. Size' = Size + 1
  <2>1. IsFiniteSet(DOMAIN cell)
    BY SizeIsNatural DEF StoreInv
  <2> QED
    BY <1>8, <2>1, FS_AddElement DEF Size
<1>13. (\A i \in 1 .. Size : Order'[i] = Order[i]) /\ Order'[Size + 1] = e
  BY <1>2, <1>3, <1>5, <1>8, <1>12, LongerOrder
<1>14. Visible = Size
  BY <1>2 DEF Visible
<1>15. Size + 1 \in 1 .. Cardinality(Cells)
  BY <1>2, <1>3, <1>12 DEF Ordered
<1>16. \A v \in Workers : v # w => local'[v].pc = "idle"
  BY <1>7, <1>10
<1> QED
  BY <1>2, <1>4, <1>5, <1>7, <1>8, <1>11, <1>12, <1>13, <1>14, <1>15, <1>16

(* The first entry of a list can be seen at once ...                       *)
LEMMA BecomeHeadSimulated ==
  ASSUME StoreInv, StoreInv', Findings, NEW w \in Workers, BecomeHead(w)
  PROVE  Simulated
<1>1. /\ local[w].pc = "first" /\ local[w].cmd = "add" /\ local[w].key \in Keys
      /\ local[w] \in LocalRec /\ local[w].reply = "none" /\ Answers[w] = "none"
  BY FoundBefore, LocalTypes DEF BecomeHead, At, StoreInv, StepOf, Before
<1>2. Size = 0
  BY <1>1, StoreIsOrdered DEF Ordered, RegistersOf
<1>3. PICK c, k, u, d : c = local[w].cmd /\ k = local[w].key /\ u = local[w].user
                        /\ d = local[w].doc
  OBVIOUS
<1>4. PICK e \in Cells \ DOMAIN cell :
        /\ NewEntry(w, e, Null) /\ doc' = doc
        /\ local' = [local EXCEPT ![w].pc = "alone", ![w].cell = e]
  BY DEF BecomeHead
<1> DEFINE N == Cardinality(Cells)
<1>0. PICK r : r = [local[w] EXCEPT !.pc = "alone", !.cell = e]
  OBVIOUS
<1>5. r.pc = "alone" /\ r.reply = "none" /\ SameArguments(r, local[w]) /\ r.cell = e
      /\ r.doc = local[w].doc /\ local' = [local EXCEPT ![w] = r]
  BY <1>0, <1>1, <1>4 DEF LocalRec, SameArguments
<1>6. /\ cell' = [x \in DOMAIN cell \cup {e} |->
                    IF x = e
                      THEN [next |-> Null, prev |-> IF Size = 0 THEN Null ELSE Order[Size],
                            key |-> local[w].key, doc |-> local[w].doc]
                      ELSE cell[x]]
      /\ r.pc \in {"alone", "link"}
  BY <1>2, <1>4, <1>5 DEF NewEntry
<1>7. /\ Visible = 0 /\ Size' = 1 /\ Order'[1] = e /\ 1 \in 1 .. N
      /\ cell'[e].key = k /\ cell'[e].doc = d
      /\ d \in DOMAIN doc /\ doc[d].collaborators = <<>>
      /\ local'[w] = r /\ Findings' /\ Requests' = Requests
      /\ \A v \in Workers : v # w => Answers'[v] = Answers[v]
  <2>1. /\ Visible = Size /\ Size' = Size + 1 /\ Size + 1 \in 1 .. N /\ Order'[Size + 1] = e
        /\ cell'[e].key = local[w].key /\ cell'[e].doc = local[w].doc
        /\ local[w].doc \in DOMAIN doc /\ doc[local[w].doc].collaborators = <<>>
        /\ local'[w] = r /\ Findings' /\ Requests' = Requests
        /\ \A v \in Workers : v # w => Answers'[v] = Answers[v]
    BY <1>1, <1>4, <1>5, <1>6, EntryAdded
  <2>2. Size + 1 = 1
    BY <1>2
  <2> QED
    BY <1>2, <1>3, <2>1, <2>2, Zenon
<1>8. Visible' = 1
  BY <1>7 DEF Visible
<1>9. \A j, i : i \notin Places(j)
  BY <1>7 DEF Places
<1>10. \A j, i : i \in Places(j)' <=> i = 1 /\ j = k
  <2>1. cell'[Order'[1]].doc \in DOMAIN doc' /\ cell'[Order'[1]].key = k
    BY <1>4, <1>7
  <2>2. \A i : i \in 1 .. 1 <=> i = 1
    OBVIOUS
  <2> QED
    BY <1>8, <2>1, <2>2 DEF Places
<1>11. Contents'[1] = <<>>
  BY <1>4, <1>7 DEF Contents
<1>12. Store'[k] = Append(Store[k], <<>>)
  <2>1. AddedLast(k, 1)
    <3>1. \A i \in 1 .. N : i > 1 => i # 1
      OBVIOUS
    <3> QED
      BY <1>9, <1>10, <3>1 DEF AddedLast
  <2> QED
    BY <1>1, <1>3, <1>7, <1>11, <2>1, StoreAppended
<1>13. ASSUME NEW j \in Keys, j # k
       PROVE  Store'[j] = Store[j]
  <2>1. SameValues(Places(j), Places(j)', Contents, Contents', N)
    BY <1>9, <1>10, <1>13 DEF SameValues
  <2> QED
    BY <2>1, StoreSame
<1>14. Serial!Effect(c, Store[k], u) = Append(Store[k], <<>>)
  BY <1>1, <1>3 DEF Serial!Effect
<1>15. Store' = [Store EXCEPT ![k] = Serial!Effect(c, Store[k], u)]
  BY <1>1, <1>3, <1>12, <1>13, <1>14, StoreUpdated
<1>16. Answers'[w] = "ok" /\ Serial!Result(c, Store[k]) = "ok"
  BY <1>1, <1>3, <1>5, <1>7 DEF Answers, InEffect, Serial!Result
<1>17. Serial!Execute(w)
  BY <1>1, <1>3, <1>7, <1>15, <1>16, Executes
<1> QED
  BY <1>7, <1>17 DEF Simulated, Serial!Next

(* ... others not before they are linked to.                               *)
LEMMA BecomeTailSimulated ==
  ASSUME StoreInv, StoreInv', Findings, NEW w \in Workers, BecomeTail(w)
  PROVE  Simulated
<1>1. /\ local[w].pc = "last"
      /\ local[w] \in LocalRec /\ local[w].reply = "none" /\ Answers[w] = "none"
  BY FoundBefore DEF BecomeTail, At, Before
<1>2. Ordered /\ Size > 0 /\ local[w].cell = Order[Size] /\ Size \in 1 .. Size
  BY <1>1, StoreIsOrdered DEF Ordered, RegistersOf
<1>3. PICK e \in Cells \ DOMAIN cell :
        /\ NewEntry(w, e, local[w].cell) /\ doc' = doc
        /\ local' = [local EXCEPT ![w].pc = "link", ![w].cell = e]
  BY DEF BecomeTail
<1> DEFINE N == Cardinality(Cells)
<1>0. PICK r : r = [local[w] EXCEPT !.pc = "link", !.cell = e]
  OBVIOUS
<1>4. r.pc = "link" /\ r.reply = "none" /\ SameArguments(r, local[w]) /\ r.cell = e
      /\ r.doc = local[w].doc /\ local' = [local EXCEPT ![w] = r]
  BY <1>0, <1>1, <1>3 DEF LocalRec, SameArguments
<1>5. Size # 0 /\ local[w].cell = IF Size = 0 THEN Null ELSE Order[Size]
  BY <1>2 DEF Ordered
<1>6. /\ cell' = [x \in DOMAIN cell \cup {e} |->
                    IF x = e
                      THEN [next |-> Null, prev |-> IF Size = 0 THEN Null ELSE Order[Size],
                            key |-> local[w].key, doc |-> local[w].doc]
                      ELSE cell[x]]
      /\ r.pc \in {"alone", "link"}
  BY <1>3, <1>4, <1>5 DEF NewEntry
<1>7. /\ Visible = Size /\ Size' = Size + 1 /\ cell'[e].prev = Order[Size]
      /\ \A i \in 1 .. Size : Order'[i] = Order[i]
      /\ \A x \in DOMAIN cell : cell'[x] = cell[x]
      /\ local'[w] = r /\ Findings' /\ Requests' = Requests
      /\ \A v \in Workers : v # w => Answers'[v] = Answers[v]
  BY <1>1, <1>3, <1>4, <1>5, <1>6, EntryAdded
<1>8. Visible' = Size
  <2>1. Linking'
    BY <1>4, <1>7 DEF Linking
  <2>2. Size' > 1 /\ Size' - 1 = Size
    BY <1>2, <1>7 DEF Ordered
  <2> QED
    BY <2>1, <2>2 DEF Visible
<1>9. ASSUME NEW i \in 1 .. Size
      PROVE  /\ Order'[i] = Order[i] /\ Order[i] \in DOMAIN cell /\ cell'[Order[i]] = cell[Order[i]]
             /\ i \in 1 .. Size'
  BY <1>2, <1>7 DEF Ordered
<1>10. ASSUME NEW j \in Keys
      PROVE  Store'[j] = Store[j]
  <2>1. \A i : i \in Places(j) <=> i \in Places(j)'
    BY <1>3, <1>7, <1>8, <1>9, ZenonT(60) DEF Places
  <2>2. \A i \in 1 .. Size : Contents'[i] = Contents[i]
    BY <1>3, <1>9 DEF Contents
  <2>3. \A i \in Places(j) : i \in 1 .. Size
    BY <1>7 DEF Places
  <2>4. SameValues(Places(j), Places(j)', Contents, Contents', N)
    BY <2>1, <2>2, <2>3 DEF SameValues
  <2> QED
    BY <2>4, StoreSame
<1>11. Store' = Store
  <2>1. Store = [x \in Keys |-> Store[x]] /\ Store' = [x \in Keys |-> Store'[x]]
    BY DEF Store
  <2> QED
    BY <1>10, <2>1
<1>12. Answers'[w] = "none"
  <2>1. cell'[e].prev # Null
    BY <1>2, <1>7 DEF Ordered
  <2> QED
    BY <1>4, <1>7, <2>1 DEF Answers, InEffect
<1>13. Unseen
  BY <1>1, <1>7, <1>11, <1>12, Stutters
<1> QED
  BY <1>7, <1>13 DEF Simulated

(* The only entry becomes the tail: it is already seen.                    *)
LEMMA BecomeOnlyTailSimulated ==
  ASSUME StoreInv, StoreInv', Findings, NEW w \in Workers, BecomeOnlyTail(w)
  PROVE  Simulated
<1> DEFINE r == [local[w] EXCEPT !.pc = "link"]
<1>1. /\ local[w].pc = "alone" /\ local[w].cmd = "add" /\ local[w] \in LocalRec
      /\ Found(local[w]) /\ cell' = cell /\ doc' = doc /\ local' = [local EXCEPT ![w] = r]
  BY LocalTypes DEF BecomeOnlyTail, At, Goto, StoreInv, StepOf, Findings, FindingsOf
<1>2. local[w].reply = "none"
  BY <1>1 DEF Found, Unlisted
<1>3. r.pc = "link" /\ r.reply = "none" /\ SameArguments(r, local[w])
      /\ r.cell = local[w].cell /\ r.doc = local[w].doc
  BY <1>1, <1>2 DEF LocalRec, SameArguments
<1>4. local'[w] = r /\ \A v \in Workers : v # w => local'[v] = local[v]
  BY <1>1, NewFields DEF StoreInv
<1>5. Found(r)
  <2>1. /\ doc[local[w].doc].collaborators = <<>>
        /\ cell[local[w].cell].key = local[w].key /\ cell[local[w].cell].doc = local[w].doc
    BY <1>1 DEF Found, Unlisted
  <2> QED
    BY <1>3, <2>1 DEF Found, Unlisted, SameArguments
<1>6. FindingsOf(w)'
  BY <1>1, <1>4, <1>5, FoundKept
<1>7. Ordered /\ Size = 1 /\ local[w].cell = Order[1] /\ Size' = Size
  BY <1>1, StoreIsOrdered DEF Ordered, RegistersOf, Size
<1>8. Visible' = Visible
  BY <1>7 DEF Visible
<1>9. Store' = Store
  <2>1. SameDocs
    BY <1>1 DEF SameDocs
  <2> QED
    BY <1>1, <1>8, <2>1, StoreKept
<1>10. Findings' /\ Requests' = Requests
       /\ \A v \in Workers : v # w => Answers'[v] = Answers[v]
  <2>1. Frame(w)
    BY <1>3, <1>4 DEF Frame, SameArguments
  <2> QED
    BY <1>1, <1>4, <1>6, <2>1, AloneFindings, FrameKept DEF Change
<1>11. Answers[w] = "ok" /\ Answers'[w] = "ok"
  <2>1. 1 \in 1 .. Size
    BY <1>7
  <2>2. cell[Order[1]].prev = Null /\ Order[1] \in DOMAIN cell
    BY <1>7, <2>1 DEF Ordered, Linked
  <2> QED
    BY <1>1, <1>3, <1>4, <1>7, <2>2 DEF Answers, InEffect
<1>12. Unseen
  BY <1>9, <1>10, <1>11, Stutters
<1> QED
  BY <1>10, <1>12 DEF Simulated

LEMMA LinkEntrySimulated ==
  ASSUME StoreInv, StoreInv', Findings, NEW w \in Workers, LinkEntry(w)
  PROVE  Simulated
<1>1. PICK e : e = local[w].cell
  OBVIOUS
<1> DEFINE r == [local[w] EXCEPT !.pc = "count"]
           N == Cardinality(Cells)
<1>2. /\ local[w].pc = "link" /\ local[w].cmd = "add" /\ local[w].key \in Keys
      /\ local[w] \in LocalRec /\ Found(local[w])
  BY LocalTypes DEF LinkEntry, At, StoreInv, StepOf, Findings, FindingsOf
<1>3. /\ Ordered /\ Linking /\ Size > 0 /\ e = Order[Size] /\ Size \in Nat /\ Size \in 1 .. Size
      /\ e \in DOMAIN cell
  BY <1>1, <1>2, StoreIsOrdered DEF Ordered, RegistersOf, Linking
<1>4. PICK c, k, u : c = local[w].cmd /\ k = local[w].key /\ u = local[w].user
  OBVIOUS
<1>5. PICK d : d = local[w].doc
  OBVIOUS
<1>6. \A v \in Workers : v # w => local[v].pc = "idle"
  BY <1>2, OthersAreIdle DEF Change
<1>7. /\ local[w].reply = "none" /\ cell[e].key = k /\ cell[e].doc = d
      /\ doc[d].collaborators = <<>> /\ d \in DOMAIN doc
  <2>1. cell[e].doc \in DOMAIN doc
    BY <1>2, <1>3, <1>6 DEF StoreInv, OwnDocuments
  <2> QED
    BY <1>1, <1>2, <1>4, <1>5, <2>1 DEF Found, Unlisted
<1>8. cell[e].prev = IF Size = 1 THEN Null ELSE Order[Size - 1]
  BY <1>3 DEF Ordered, Linked
<1>9. Size # 1 => Size - 1 \in 1 .. Size /\ Order[Size - 1] \in DOMAIN cell
  BY <1>3 DEF Ordered
<1>10. /\ local' = [local EXCEPT ![w] = r] /\ doc' = doc
       /\ Size = 1 => cell' = cell
       /\ Size # 1 => cell' = [cell EXCEPT ![Order[Size - 1]].next = e]
  <2>1. Null \notin DOMAIN cell
    BY <1>3 DEF Ordered
  <2> QED
    BY <1>1, <1>3, <1>8, <1>9, <2>1 DEF LinkEntry, Goto, Reads
<1>11. r.pc = "count" /\ r.reply = "none" /\ SameArguments(r, local[w])
  BY <1>2, <1>7 DEF LocalRec, SameArguments
<1> HIDE DEF r
<1>12. local'[w] = r /\ \A v \in Workers : v # w => local'[v] = local[v]
  BY <1>10, NewFields DEF StoreInv
<1>13. FindingsOf(w)'
  <2>1. local'[w].pc = "count" /\ local'[w].reply = "none"
    BY <1>11, <1>12
  <2> QED
    BY <2>1 DEF FindingsOf, Found, Unlisted
<1>14. Findings' /\ Requests' = Requests
       /\ \A v \in Workers : v # w => Answers'[v] = Answers[v]
  <2>1. Frame(w)
    BY <1>11, <1>12 DEF Frame, SameArguments
  <2>2. Findings'
    BY <1>2, <1>12, <1>13, AloneFindings DEF Change
  <2>3. \A v \in Workers : v # w => local[v].pc # "link"
    BY <1>6
  <2> QED
    BY <2>1, <2>2, <2>3, FrameKept
<1>15. /\ DOMAIN cell' = DOMAIN cell
       /\ \A x \in DOMAIN cell : cell'[x].prev = cell[x].prev /\ cell'[x].key = cell[x].key
                                 /\ cell'[x].doc = cell[x].doc
  <2>1. \A x \in DOMAIN cell : cell[x] \in CellRec
    BY DEF StoreInv, TypeOK
  <2>2. CASE Size = 1
    BY <1>10, <2>2
  <2>3. CASE Size # 1
    BY <1>9, <1>10, <2>1, <2>3 DEF CellRec
  <2> QED
    BY <2>2, <2>3
<1>16. Size' = Size /\ Order' = Order
  <2>1. Size' = Size
    BY <1>15 DEF Size
  <2>2. Linked(cell', Size, Order)
    BY <1>3, <1>15 DEF Ordered, Linked
  <2>3. Ordered'
    BY StoreIsOrdered, PTL
  <2> QED
    BY <1>3, <2>1, <2>2, <2>3, OneOrder DEF Ordered
<1>17. Visible' = Size
  <2>1. ~ Linking'
    BY <1>6, <1>11, <1>12 DEF Linking
  <2> QED
    BY <1>16, <2>1 DEF Visible
<1>18. ASSUME NEW i \in 1 .. Size
       PROVE  /\ Order'[i] = Order[i] /\ Order[i] \in DOMAIN cell
              /\ cell'[Order'[i]].doc = cell[Order[i]].doc /\ cell'[Order'[i]].key = cell[Order[i]].key
              /\ Contents'[i] = Contents[i]
  <2>1. Order'[i] = Order[i] /\ Order[i] \in DOMAIN cell
    BY <1>3, <1>16 DEF Ordered
  <2>2. cell'[Order'[i]].doc = cell[Order[i]].doc /\ cell'[Order'[i]].key = cell[Order[i]].key
    BY <1>15, <2>1
  <2> QED
    BY <1>10, <1>16, <2>1, <2>2 DEF Contents
<1>19. N \in Nat /\ Size \in 1 .. N
  BY <1>3 DEF Ordered
<1>20. Answers'[w] = "ok"
  BY <1>11, <1>12 DEF Answers, InEffect
<1>21. CASE Size = 1
  <2>1. Visible = Size
    BY <1>3, <1>21 DEF Visible
  <2>2. ASSUME NEW j \in Keys
        PROVE  Store'[j] = Store[j]
    <3>1. \A i : i \in Places(j) <=> i \in Places(j)'
      BY <1>10, <1>17, <1>18, <2>1 DEF Places
    <3>2. \A i \in Places(j) : i \in 1 .. Size
      BY <2>1 DEF Places
    <3>3. SameValues(Places(j), Places(j)', Contents, Contents', N)
      BY <1>18, <3>1, <3>2 DEF SameValues
    <3> QED
      BY <3>3, StoreSame
  <2>3. Store' = Store
    <3>1. Store = [x \in Keys |-> Store[x]] /\ Store' = [x \in Keys |-> Store'[x]]
      BY DEF Store
    <3> QED
      BY <2>2, <3>1
  <2>4. Answers[w] = "ok"
    BY <1>1, <1>2, <1>3, <1>8, <1>21 DEF Answers, InEffect
  <2>5. Unseen
    BY <1>14, <1>20, <2>3, <2>4, Stutters
  <2> QED
    BY <1>14, <2>5 DEF Simulated
<1>22. CASE Size # 1
  <2>1. Visible = Size - 1
    BY <1>3, <1>22 DEF Visible
  <2>2. ASSUME NEW j, NEW i \in 1 .. Size, i < Size
        PROVE  i \in Places(j) <=> i \in Places(j)'
    <3>1. i \in 1 .. Visible /\ i \in 1 .. Visible'
      BY <1>3, <1>17, <2>1, <2>2
    <3> QED
      BY <1>10, <1>18, <3>1 DEF Places
  <2>3. ASSUME NEW j, NEW i \in 1 .. N, i >= Size
        PROVE  i \notin Places(j)
    <3>1. i \notin 1 .. Visible
      BY <1>3, <2>1, <2>3
    <3> QED
      BY <3>1 DEF Places
  <2>4. ASSUME NEW j, NEW i \in 1 .. N, i > Size
        PROVE  i \notin Places(j)'
    <3>1. i \notin 1 .. Visible'
      BY <1>3, <1>17, <2>4
    <3> QED
      BY <3>1 DEF Places
  <2>5. \A j : Size \in Places(j)' <=> j = k
    BY <1>3, <1>7, <1>10, <1>17, <1>18 DEF Places
  <2>6. Contents'[Size] = <<>>
    <3>1. Contents[Size] = <<>>
      BY <1>3, <1>7 DEF Contents
    <3> QED
      BY <1>3, <1>18, <3>1
  <2>7. \A i \in 1 .. N : i < Size => i \in 1 .. Size
    BY <1>3, <1>19
  <2>8. Store'[k] = Append(Store[k], <<>>)
    <3>1. PICK p : p = Size
      OBVIOUS
    <3>2. AddedLast(k, p)
      BY <1>18, <2>2, <2>3, <2>4, <2>5, <2>7, <3>1 DEF AddedLast
    <3> QED
      BY <1>2, <1>4, <1>19, <2>6, <3>1, <3>2, StoreAppended
  <2>9. ASSUME NEW j \in Keys, j # k
        PROVE  Store'[j] = Store[j]
    <3>1. ASSUME NEW i \in 1 .. N
          PROVE  (i \in Places(j) <=> i \in Places(j)') /\ (i \in Places(j) => Contents[i] = Contents'[i])
      <4>1. CASE i < Size
        BY <1>18, <2>2, <2>7, <4>1
      <4>2. CASE i = Size
        BY <1>3, <2>3, <2>5, <2>9, <4>2
      <4>3. CASE i > Size
        BY <1>3, <2>3, <2>4, <4>3
      <4> QED
        BY <1>3, <4>1, <4>2, <4>3
    <3>2. SameValues(Places(j), Places(j)', Contents, Contents', N)
      BY <3>1 DEF SameValues
    <3> QED
      BY <3>2, StoreSame
  <2>10. Serial!Effect(c, Store[k], u) = Append(Store[k], <<>>)
    BY <1>2, <1>4 DEF Serial!Effect
  <2>11. Store' = [Store EXCEPT ![k] = Serial!Effect(c, Store[k], u)]
    BY <1>2, <1>4, <2>8, <2>9, <2>10, StoreUpdated
  <2>12. Answers[w] = "none" /\ Serial!Result(c, Store[k]) = "ok"
    <3>1. cell[e].prev # Null
      BY <1>3, <1>8, <1>9, <1>22 DEF Ordered
    <3> QED
      BY <1>1, <1>2, <1>4, <1>7, <3>1 DEF Answers, InEffect, Serial!Result
  <2>13. Serial!Execute(w)
    BY <1>2, <1>4, <1>14, <1>20, <2>11, <2>12, Executes
  <2> QED
    BY <1>14, <2>13 DEF Simulated, Serial!Next
<1> QED
  BY <1>21, <1>22

-----------------------------------------------------------------------------
(* A command comes and its answer goes.                                    *)

LEMMA IdleWorker ==
  ASSUME Findings, NEW w \in Workers, local[w].pc = "idle"
  PROVE  local[w] = Idle /\ Requests[w] = Serial!NoRequest /\ Answers[w] = "none"
<1>1. local[w] = Idle
  BY DEF Findings, FindingsOf, Found, Unlisted
<1>2. Requests[w] = Serial!NoRequest
  <2>1. /\ Idle.cmd = "none" /\ Idle.user = NoUser
        /\ Idle.key = CHOOSE k \in Keys : TRUE
    BY DEF Idle
  <2>2. Serial!NoRequest = [cmd |-> Idle.cmd, key |-> Idle.key, user |-> Idle.user]
    BY <2>1 DEF Serial!NoRequest
  <2> QED
    BY <1>1, <2>2 DEF Requests
<1>3. Idle.pc = "idle" /\ Idle.reply = "none"
  BY DEF Idle
<1>4. Answers[w] = "none"
  BY <1>1, <1>3, AnswerOf
<1> QED
  BY <1>1, <1>2, <1>4

(* A worker takes up a command, or lays it down.                           *)
LEMMA Requested ==
  ASSUME StoreInv, StoreInv', NEW w \in Workers, NEW r, local' = [local EXCEPT ![w] = r],
         cell' = cell, local[w].pc # "link", r.pc # "link"
  PROVE  /\ Requests' = [Requests EXCEPT ![w] = [cmd |-> r.cmd, key |-> r.key, user |-> r.user]]
         /\ \A v \in Workers : v # w => Answers'[v] = Answers[v]
         /\ Visible' = Visible
<1>1. local'[w] = r /\ \A v \in Workers : v # w => local'[v] = local[v]
  BY NewFields DEF StoreInv
<1>2. Requests' = [Requests EXCEPT ![w] = [cmd |-> r.cmd, key |-> r.key, user |-> r.user]]
  BY <1>1 DEF Requests
<1>3. ASSUME NEW v \in Workers, v # w
      PROVE  Answers'[v] = Answers[v]
  <2>1. local'[v] = local[v]
    BY <1>1, <1>3
  <2>2. InEffect(v)' <=> InEffect(v)
    BY <2>1 DEF InEffect
  <2> QED
    BY <2>1, <2>2 DEF Answers
<1>4. Visible' = Visible
  <2>1. Linking' <=> Linking
    BY <1>1 DEF Linking
  <2>2. Size' = Size
    BY DEF Size
  <2> QED
    BY <2>1, <2>2 DEF Visible
<1> QED
  BY <1>2, <1>3, <1>4

LEMMA ReceiveSimulated ==
  ASSUME StoreInv, StoreInv', Findings, NEW w \in Workers, Receive(w)
  PROVE  Simulated
<1>1. PICK c \in Commands, k \in Keys :
      \E u \in IF c \in {"start", "end"} THEN Users ELSE {NoUser} :
      \E d \in IF c = "add" THEN Docs \ DOMAIN doc ELSE {Null} :
        /\ local' = [local EXCEPT ![w] =
             [Idle EXCEPT !.pc = "bucket", !.cmd = c, !.key = k, !.user = u, !.doc = d,
                          !.known = k \in history.acknowledged]]
        /\ IF c = "add" THEN documentCreate(d) ELSE UNCHANGED doc
  BY ZenonT(60) DEF Receive
<1>2. PICK u \in IF c \in {"start", "end"} THEN Users ELSE {NoUser},
           d \in IF c = "add" THEN Docs \ DOMAIN doc ELSE {Null} :
        /\ local' = [local EXCEPT ![w] =
             [Idle EXCEPT !.pc = "bucket", !.cmd = c, !.key = k, !.user = u, !.doc = d,
                          !.known = k \in history.acknowledged]]
        /\ IF c = "add" THEN documentCreate(d) ELSE UNCHANGED doc
  BY <1>1, Zenon
<1> DEFINE known == k \in history.acknowledged
           r == [Idle EXCEPT !.pc = "bucket", !.cmd = c, !.key = k, !.user = u, !.doc = d,
                             !.known = known]
<1>3. local[w].pc = "idle" /\ cell' = cell /\ local' = [local EXCEPT ![w] = r]
  BY <1>2 DEF Receive, At
<1>4. /\ r.pc = "bucket" /\ r.cmd = c /\ r.key = k /\ r.user = u /\ r.doc = d
      /\ r.reply = "none"
  BY DEF Idle
<1> HIDE DEF r
<1>5. local'[w] = r /\ \A v \in Workers : v # w => local'[v] = local[v]
  BY <1>3, NewFields DEF StoreInv
<1>6. c = "add" => /\ d \notin DOMAIN doc
                   /\ doc' = [x \in DOMAIN doc \cup {d} |->
                         IF x = d THEN [collaborators |-> <<>>, mutex |-> Nobody] ELSE doc[x]]
  BY <1>2 DEF documentCreate
<1>7. c # "add" => doc' = doc
  BY <1>2
<1>8. c = "add" => \A v \in Workers : local[v].pc = "idle"
  BY <1>3, <1>4, <1>5 DEF StoreInv, ChangesAlone, Change, Busy
<1>9. SameDocs
  <2>1. CASE c = "add"
    <3>1. \A v \in Workers : local[v].pc # "unlink"
      BY <1>8, <2>1
    <3>2. \A e \in DOMAIN cell : cell[e].doc \in DOMAIN doc
      BY <3>1 DEF StoreInv, OwnDocuments
    <3> QED
      BY <1>6, <2>1, <3>2 DEF SameDocs
  <2>2. CASE c # "add"
    BY <1>7, <2>2 DEF SameDocs
  <2> QED
    BY <2>1, <2>2
<1>10. /\ Requests' = [Requests EXCEPT ![w] = [cmd |-> c, key |-> k, user |-> u]]
       /\ \A v \in Workers : v # w => Answers'[v] = Answers[v]
       /\ Visible' = Visible
  BY <1>3, <1>4, Requested
<1>11. Store' = Store
  BY <1>3, <1>9, <1>10, StoreKept
<1>12. FindingsOf(w)'
  <2>1. c = "add" => doc'[d].collaborators = <<>>
    BY <1>6
  <2> QED
    BY <1>4, <1>5, <2>1 DEF FindingsOf, Found, Unlisted
<1>13. ASSUME NEW v \in Workers, v # w
       PROVE  FindingsOf(v)'
  <2>1. FindingsOf(v) /\ local'[v] = local[v]
    BY <1>5, <1>13 DEF Findings
  <2>2. CASE c = "add"
    BY <1>8, <2>1, <2>2, IdleFindings DEF Busy
  <2>3. CASE c # "add"
    BY <1>3, <1>7, <2>1, <2>3, FindingsKept
  <2> QED
    BY <2>2, <2>3
<1>14. Findings'
  BY <1>12, <1>13 DEF Findings
<1>15. Answers' = Answers
  <2>1. Answers[w] = "none"
    BY <1>3, IdleWorker
  <2>2. Answers'[w] = "none"
    BY <1>4, <1>5 DEF Answers, InEffect
  <2>3. Answers = [v \in Workers |-> Answers[v]] /\ Answers' = [v \in Workers |-> Answers'[v]]
    BY DEF Answers
  <2>4. \A v \in Workers : Answers'[v] = Answers[v]
    BY <1>10, <2>1, <2>2
  <2> QED
    BY <2>3, <2>4
<1>16. u \in Users \cup {NoUser} /\ ((u = NoUser) <=> (c \notin {"start", "end"}))
  BY DocAssumption
<1>17. Requests[w] = Serial!NoRequest
  BY <1>3, IdleWorker
<1>18. Serial!Request(w)
  BY <1>10, <1>11, <1>15, <1>16, <1>17 DEF Serial!Request
<1> QED
  BY <1>14, <1>18 DEF Simulated, Serial!Next

(* A step that changes no entry and no document, only registers.           *)
LEMMA RegistersOnly ==
  ASSUME StoreInv, StoreInv', Findings, NEW w \in Workers, NEW r,
         local' = [local EXCEPT ![w] = r],
         cell' = cell, doc' = doc, local[w].pc # "link", r.pc # "link", FindingsOf(w)'
  PROVE  Findings' /\ Store' = Store
<1>1. local'[w] = r /\ \A v \in Workers : v # w => local'[v] = local[v]
  BY NewFields DEF StoreInv
<1>2. ASSUME NEW v \in Workers, v # w
      PROVE  FindingsOf(v)'
  <2>1. FindingsOf(v) /\ local'[v] = local[v]
    BY <1>1, <1>2 DEF Findings
  <2> QED
    BY <2>1, FindingsKept
<1>3. Visible' = Visible
  BY Requested
<1>4. SameDocs
  BY DEF SameDocs
<1> QED
  BY <1>2, <1>3, <1>4, StoreKept DEF Findings

LEMMA ReceiveUnparsableSimulated ==
  ASSUME StoreInv, StoreInv', Findings, NEW w \in Workers, ReceiveUnparsable(w)
  PROVE  Simulated
<1>1. PICK k \in Keys :
        local' = [local EXCEPT ![w] =
          [Idle EXCEPT !.pc = "reply", !.cmd = "add", !.key = k, !.reply = "nil"]]
  BY Zenon DEF ReceiveUnparsable
<1> DEFINE r == [Idle EXCEPT !.pc = "reply", !.cmd = "add", !.key = k, !.reply = "nil"]
<1>2. local[w].pc = "idle" /\ "add" \in Commands /\ cell' = cell /\ doc' = doc
  BY DEF ReceiveUnparsable, At, Reads
<1>3. r.pc = "reply" /\ r.cmd = "add" /\ r.key = k /\ r.user = NoUser /\ r.reply = "nil"
  BY DEF Idle
<1>4. local' = [local EXCEPT ![w] = r]
  BY <1>1
<1> HIDE DEF r
<1>5. local'[w] = r
  BY <1>4, NewFields DEF StoreInv
<1>6. FindingsOf(w)'
  BY <1>3, <1>5 DEF FindingsOf, Found, Unlisted
<1>7. Findings' /\ Store' = Store
  BY <1>2, <1>3, <1>4, <1>6, RegistersOnly
<1>8. /\ Requests' = [Requests EXCEPT ![w] = [cmd |-> "add", key |-> k, user |-> NoUser]]
      /\ \A v \in Workers : v # w => Answers'[v] = Answers[v]
  <2>1. /\ Requests' = [Requests EXCEPT ![w] = [cmd |-> r.cmd, key |-> r.key, user |-> r.user]]
        /\ \A v \in Workers : v # w => Answers'[v] = Answers[v]
    BY <1>2, <1>3, <1>4, Requested
  <2> QED
    BY <1>3, <2>1
<1>9. Answers' = [Answers EXCEPT ![w] = "nil"]
  <2>1. Answers'[w] = "nil"
    BY <1>3, <1>5 DEF Answers, InEffect
  <2>2. Answers = [v \in Workers |-> Answers[v]] /\ Answers' = [v \in Workers |-> Answers'[v]]
    BY DEF Answers
  <2> QED
    BY <1>8, <2>1, <2>2
<1>10. Requests[w] = Serial!NoRequest
  BY <1>2, IdleWorker
<1>11. Serial!Reject(w)
  BY <1>2, <1>7, <1>8, <1>9, <1>10 DEF Serial!Reject
<1> QED
  BY <1>7, <1>11 DEF Simulated, Serial!Next

LEMMA ReplySimulated ==
  ASSUME StoreInv, StoreInv', Findings, NEW w \in Workers, Reply(w)
  PROVE  Simulated
<1>1. /\ local[w].pc = "reply" /\ local' = [local EXCEPT ![w] = Idle]
      /\ cell' = cell /\ doc' = doc
  BY DEF Reply, At
<1>2. /\ Idle.pc = "idle" /\ Idle.reply = "none" /\ Idle.cmd = "none" /\ Idle.user = NoUser
      /\ Idle.key = CHOOSE k \in Keys : TRUE
  BY DEF Idle
<1>3. local'[w] = Idle
  BY <1>1, NewFields DEF StoreInv
<1>4. FindingsOf(w)'
  BY <1>2, <1>3 DEF FindingsOf, Found, Unlisted, Idle
<1>5. Findings' /\ Store' = Store
  BY <1>1, <1>2, <1>4, RegistersOnly
<1>6. /\ Requests' = [Requests EXCEPT ![w] = Serial!NoRequest]
      /\ \A v \in Workers : v # w => Answers'[v] = Answers[v]
  <2>1. Serial!NoRequest = [cmd |-> Idle.cmd, key |-> Idle.key, user |-> Idle.user]
    BY <1>2 DEF Serial!NoRequest
  <2> QED
    BY <1>1, <1>2, <2>1, Requested
<1>7. Answers' = [Answers EXCEPT ![w] = "none"]
  <2>1. Answers'[w] = "none"
    BY <1>2, <1>3 DEF Answers, InEffect
  <2>2. Answers = [v \in Workers |-> Answers[v]] /\ Answers' = [v \in Workers |-> Answers'[v]]
    BY DEF Answers
  <2> QED
    BY <1>6, <2>1, <2>2
<1>8. Answers[w] # "none"
  <2>1. local[w].reply # "none"
    BY <1>1 DEF Findings, FindingsOf, Found, Unlisted
  <2> QED
    BY <1>1, <2>1 DEF Answers, InEffect
<1>9. Serial!Respond(w)
  BY <1>5, <1>6, <1>7, <1>8 DEF Serial!Respond
<1> QED
  BY <1>5, <1>9 DEF Simulated, Serial!Next

(* The server ends: no client sees anything of it.                         *)
LEMMA ReceiveTruncatedSimulated ==
  ASSUME StoreInv, StoreInv', Findings, NEW w \in Workers, ReceiveTruncated(w)
  PROVE  Simulated
<1>1. UNCHANGED <<bucket, list, cell, doc, local, history>>
  BY DEF ReceiveTruncated, Stop
<1>2. Store' = Store
  <2>1. Visible' = Visible /\ SameDocs
    BY <1>1 DEF Visible, Size, Linking, SameDocs
  <2> QED
    BY <1>1, <2>1, StoreKept
<1>3. Requests' = Requests /\ Answers' = Answers
  BY <1>1 DEF Requests, Answers, InEffect
<1>4. Findings'
  BY <1>1, FindingsKept DEF Findings
<1> QED
  BY <1>2, <1>3, <1>4 DEF Simulated, Unseen

-----------------------------------------------------------------------------
(* Every step.                                                             *)

LEMMA StepSimulated ==
  ASSUME StoreInv, StoreInv', Findings, [Next]_vars
  PROVE  Simulated
<1>1. CASE UNCHANGED vars
  <2>1. UNCHANGED <<status, bucket, list, cell, doc, local, history>>
    BY <1>1 DEF vars
  <2>2. Store' = Store
    <3>1. Visible' = Visible /\ SameDocs
      BY <2>1 DEF Visible, Size, Linking, SameDocs
    <3> QED
      BY <2>1, <3>1, StoreKept
  <2>3. Requests' = Requests /\ Answers' = Answers
    BY <2>1 DEF Requests, Answers, InEffect
  <2>4. Findings'
    BY <2>1, FindingsKept DEF Findings
  <2> QED
    BY <2>2, <2>3, <2>4 DEF Simulated, Unseen
<1>2. ASSUME NEW w \in Workers, Receive(w) \/ ReceiveUnparsable(w) \/ Reply(w)
      PROVE  Simulated
  BY <1>2, ReceiveSimulated, ReceiveUnparsableSimulated, ReplySimulated
<1>3. ASSUME NEW w \in Workers, ReceiveTruncated(w)
      PROVE  Simulated
  BY <1>3, ReceiveTruncatedSimulated
<1>4. ASSUME NEW w \in Workers, Lookup(w) \/ UseDocument(w)
      PROVE  Simulated
  BY <1>4, ReadBucketSimulated, ReadLengthSimulated, GetSingleSimulated, IterateSimulated,
     UseDocumentSimulated DEF Lookup
<1>5. ASSUME NEW w \in Workers, Session(w)
      PROVE  Simulated
  BY <1>5, LockSimulated, LoadSimulated, StoreCollaboratorsSimulated, UnlockSimulated
     DEF Session
<1>6. ASSUME NEW w \in Workers, Removal(w) \/ LoadLength(w) \/ StoreLength(w)
      PROVE  Simulated
  BY <1>6, LocateEntrySimulated, FreeDocumentSimulated, UnlinkEntrySimulated,
     LoadLengthSimulated, StoreLengthSimulated
     DEF Removal
<1>7. ASSUME NEW w \in Workers, Addition(w)
      PROVE  Simulated
  BY <1>7, TestBucketSimulated, CreateListSimulated, FetchListSimulated, TestLengthSimulated,
     BecomeHeadSimulated, BecomeOnlyTailSimulated, ReadTailSimulated, BecomeTailSimulated,
     LinkEntrySimulated
     DEF Addition
<1> QED
  BY <1>1, <1>2, <1>3, <1>4, <1>5, <1>6, <1>7 DEF Next, Run

-----------------------------------------------------------------------------
(* The beginning.                                                          *)

LEMMA StoreOne ==
  ASSUME StoreInv, NEW k \in Keys, NEW p \in 1 .. Cardinality(Cells),
         \A i \in 1 .. Cardinality(Cells) : i \in Places(k) <=> i = p
  PROVE  Store[k] = Append(<<>>, Contents[p])
<1> DEFINE N == Cardinality(Cells)
<1>1. N \in Nat
  BY ContentsAreTyped
<1>2. PICK g : Gathers(Places(k), Contents, N, g) /\ Store[k] = g[N]
  BY StoreIsGathered DEF Gathered
<1>3. FirstOf(Places(k), p, N)
  BY DEF FirstOf
<1>4. g[p] = Append(<<>>, Contents[p])
  BY <1>1, <1>2, <1>3, GathersFirst
<1>5. p \in 0 .. N /\ \A i \in 1 .. N : i > p => i \notin Places(k)
  BY <1>1
<1>6. g[N] = g[p]
  BY <1>1, <1>2, <1>5, GathersNothing
<1> QED
  BY <1>2, <1>4, <1>6

(* Each stored key is the key of one entry.                                *)
LEMMA StoredKeys ==
  ASSUME Init
  PROVE  /\ \A k \in Stored : \E e \in DOMAIN cell : cell[e].key = k
         /\ \A e \in DOMAIN cell : cell[e].key \in Stored
         /\ \A e, f \in DOMAIN cell : cell[e].key = cell[f].key => e = f
<1> DEFINE n     == Cardinality(Stored)
           keys  == SetToSeq(Stored)
           cells == SetToSeq(Cells)
<1>1. /\ n \in Nat /\ keys \in [1 .. n -> Stored]
      /\ \A i, j \in 1 .. n : keys[i] = keys[j] => i = j
      /\ IsFiniteSet(Stored)
  BY SetAsSeq, DocAssumption
<1>2. /\ \A i \in 1 .. n : cells[i] \in DOMAIN cell /\ cell[cells[i]].key = keys[i]
      /\ \A e \in DOMAIN cell : \E i \in 1 .. n : e = cells[i]
  <2>1. \A i \in 1 .. n :
          /\ cells[i] \in DOMAIN cell
          /\ cell[cells[i]] =
               [next |-> IF i = n THEN Null ELSE cells[i + 1],
                prev |-> IF i = 1 THEN Null ELSE cells[i - 1],
                key  |-> keys[i], doc |-> SetToSeq(Docs)[i]]
    BY InitEntries
  <2>2. \A e \in DOMAIN cell : \E i \in 1 .. n : e = cells[i]
    BY InitEntries
  <2> HIDE DEF n, keys, cells
  <2>3. ASSUME NEW i \in 1 .. n
        PROVE  cells[i] \in DOMAIN cell /\ cell[cells[i]].key = keys[i]
    <3>1. PICK next : next = IF i = n THEN Null ELSE cells[i + 1]
      OBVIOUS
    <3>2. PICK prev : prev = IF i = 1 THEN Null ELSE cells[i - 1]
      OBVIOUS
    <3>3. /\ cells[i] \in DOMAIN cell
          /\ cell[cells[i]] = [next |-> next, prev |-> prev, key |-> keys[i], doc |-> SetToSeq(Docs)[i]]
      BY <2>1, <3>1, <3>2
    <3> QED
      BY <3>3
  <2> QED
    BY <2>2, <2>3
<1> HIDE DEF keys, cells
<1>3. keys \in Surjection(1 .. n, Stored)
  <2> HIDE DEF n
  <2>1. keys \in Injection(1 .. n, Stored)
    BY <1>1 DEF Injection, IsInjective
  <2>2. Cardinality(1 .. n) = n
    BY <1>1, FS_Interval
  <2>3. Cardinality(1 .. n) = Cardinality(Stored) => keys \in Surjection(1 .. n, Stored)
    BY <1>1, <2>1, FS_Injection
  <2> QED
    BY <2>2, <2>3 DEF n
<1>4. \A k \in Stored : \E i \in 1 .. n : keys[i] = k
  BY <1>3 DEF Surjection
<1> HIDE DEF n
<1>5. \A k \in Stored : \E e \in DOMAIN cell : cell[e].key = k
  BY <1>2, <1>4
<1>6. \A e \in DOMAIN cell : cell[e].key \in Stored
  BY <1>1, <1>2
<1>7. ASSUME NEW e \in DOMAIN cell, NEW f \in DOMAIN cell, cell[e].key = cell[f].key
      PROVE  e = f
  <2>1. PICK i \in 1 .. n : e = cells[i]
    BY <1>2
  <2>2. PICK j \in 1 .. n : f = cells[j]
    BY <1>2
  <2> QED
    BY <1>1, <1>2, <1>7, <2>1, <2>2
<1> QED
  BY <1>5, <1>6, <1>7

LEMMA InitSimulated ==
  ASSUME Countable, Init
  PROVE  Serial!Init /\ Findings
<1> DEFINE N == Cardinality(Cells)
<1>1. StoreInv /\ Ordered
  BY InitStore, StoreIsOrdered
<1>2. \A w \in Workers : local[w] = Idle
  BY DEF Init
<1>3. Idle.pc = "idle" /\ Idle.reply = "none" /\ Idle.cmd = "none"
  BY DEF Idle
<1>4. Findings
  BY <1>2, <1>3 DEF Findings, FindingsOf, Found, Unlisted
<1>5. /\ Visible = Size /\ Size \in Nat /\ N \in Nat /\ Size <= N
      /\ \A e \in DOMAIN cell : cell[e].doc \in DOMAIN doc
      /\ \A d \in DOMAIN doc : doc[d].collaborators = <<>>
  <2>1. ~ Linking /\ \A w \in Workers : local[w].pc # "unlink"
    BY <1>2, <1>3 DEF Linking
  <2>2. \A d \in DOMAIN doc : doc[d].collaborators = <<>>
    BY DEF Init
  <2> QED
    BY <1>1, <2>1, <2>2 DEF Visible, Ordered, StoreInv, OwnDocuments
<1>6. ASSUME NEW k \in Stored
      PROVE  k \in Keys /\ Store[k] = << <<>> >>
  <2>1. PICK e \in DOMAIN cell : cell[e].key = k
    BY StoredKeys
  <2>2. PICK p \in 1 .. Size : Order[p] = e
    BY <1>1 DEF Ordered, Linked
  <2>3. \A i \in 1 .. Size : i # p => cell[Order[i]].key # k
    BY <1>1, <2>1, <2>2, StoredKeys DEF Ordered, Linked
  <2>4. \A i : i \in Places(k) <=> i = p
    BY <1>5, <2>1, <2>2, <2>3 DEF Places
  <2>5. p \in 1 .. N /\ k \in Keys
    BY <1>5, DocAssumption
  <2>6. Contents[p] = <<>>
    BY <1>5, <2>1, <2>2 DEF Contents
  <2>7. Store[k] = Append(<<>>, <<>>)
    BY <1>1, <2>4, <2>5, <2>6, StoreOne
  <2> QED
    BY <2>5, <2>7
<1>7. ASSUME NEW k \in Keys, k \notin Stored
      PROVE  Store[k] = <<>>
  <2>1. \A i \in 1 .. Size : cell[Order[i]].key # k
    BY <1>1, <1>7, StoredKeys DEF Ordered
  <2> QED
    BY <1>1, <2>1, NoneFound
<1>8. Store = [k \in Keys |-> IF k \in Stored THEN << <<>> >> ELSE <<>>]
  <2>1. Store = [k \in Keys |-> Store[k]]
    BY DEF Store
  <2> QED
    BY <1>6, <1>7, <2>1
<1>9. ASSUME NEW w \in Workers
      PROVE  Requests[w] = Serial!NoRequest /\ Answers[w] = "none"
  BY <1>2, <1>3, <1>4, IdleWorker
<1>10. /\ Requests = [w \in Workers |-> Serial!NoRequest]
       /\ Answers = [w \in Workers |-> "none"]
  <2>1. Requests = [w \in Workers |-> Requests[w]]
    BY DEF Requests
  <2>2. Answers = [w \in Workers |-> Answers[w]]
    BY DEF Answers
  <2> QED
    BY <1>9, <2>1, <2>2
<1>11. history.overlapped = FALSE
  BY DEF Init
<1> QED
  BY <1>4, <1>8, <1>10, <1>11 DEF Serial!Init

-----------------------------------------------------------------------------
(* The theorem about the order of commands.                                *)

(* What a worker has found out about the documents of its key stays true   *)
(* until its command takes effect, whatever the other threads do, as long  *)
(* as no add or remove has been run at once with another command: the      *)
(* document it will use, edit or free is the oldest one with the key.      *)
FindingsInv == HistoryInv /\ (~ history.overlapped => Findings)

LEMMA FindingsInvariance ==
  ASSUME Countable
  PROVE  Spec => []FindingsInv
<1>1. Init => FindingsInv
  BY InitTyped, InitStore, InitGrown, InitSimulated DEF FindingsInv, HistoryInv
<1>2. FindingsInv /\ [Next]_vars => FindingsInv'
  <2> SUFFICES ASSUME FindingsInv, [Next]_vars PROVE FindingsInv'
    OBVIOUS
  <2>1. HistoryInv'
    BY HistoryStep DEF FindingsInv
  <2>2. ~ history'.overlapped => ~ history.overlapped
    BY HistoryGrows DEF FindingsInv, HistoryInv
  <2>3. ~ history'.overlapped => Findings'
    BY <2>1, <2>2, StepSimulated DEF FindingsInv, HistoryInv, Simulated
  <2> QED
    BY <2>1, <2>3 DEF FindingsInv
<1> QED
  BY <1>1, <1>2, PTL DEF Spec

(* The commands of all threads take effect one after the other, as DocSpec *)
(* says, each at an instant between its arrival and its answer: nothing is *)
(* lost, done twice, or answered from a document that is not the oldest    *)
(* with the key, until an add or a remove is run at once with another      *)
(* command.                                                                *)
THEOREM CommandsAreSerial ==
  ASSUME Countable
  PROVE  Spec => IsSerial
<1>1. Init => Serial!Init
  BY InitSimulated
<1>2. FindingsInv /\ [Next]_vars =>
        [(Serial!Next /\ UNCHANGED history.overlapped) \/ Serial!Break]_Serial!vars
  <2> SUFFICES ASSUME FindingsInv, [Next]_vars
               PROVE  [(Serial!Next /\ UNCHANGED history.overlapped) \/ Serial!Break]_Serial!vars
    OBVIOUS
  <2>1. CASE history'.overlapped
    BY <2>1 DEF Serial!Break
  <2>2. CASE ~ history'.overlapped
    <3>1. TypeInv /\ TypeInv' /\ ~ history.overlapped
      BY <2>2, NextTyped, HistoryGrows DEF FindingsInv, HistoryInv
    <3>2. history'.overlapped = history.overlapped
      <4>1. history \in HistoryRec /\ history' \in HistoryRec
        BY <3>1 DEF TypeInv, TypeOK
      <4>2. history.overlapped = FALSE /\ history'.overlapped = FALSE
        BY <2>2, <3>1, <4>1 DEF HistoryRec
      <4> QED
        BY <4>2
    <3>3. Simulated
      BY <2>2, <3>1, HistoryStep, StepSimulated DEF FindingsInv, HistoryInv
    <3> QED
      BY <3>2, <3>3 DEF Simulated, Unseen, Serial!vars
  <2> QED
    BY <2>1, <2>2
<1> QED
  BY <1>1, <1>2, FindingsInvariance, PTL DEF Spec, IsSerial, Serial!Spec

=============================================================================
