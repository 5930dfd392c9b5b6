------------------------------ MODULE DocStore ------------------------------
(***************************************************************************)
(* The commands of src/server.c on the documents, run by several worker    *)
(* threads at once: add, get, remove, start and end.  The dictionary of    *)
(* documents is shared without a lock; each document has a mutex, which    *)
(* protects its collaborators only.                                        *)
(*                                                                         *)
(* The keys are keys of one bucket: buckets share nothing but the count of *)
(* entries, which no command reads.  Each step is a statement, or a loop   *)
(* round, that touches what threads share.  Memory is a set of addresses;  *)
(* a step that follows a pointer to freed memory ends the behaviour, since *)
(* whatever the program does from there is undefined.                      *)
(***************************************************************************)
EXTENDS Integers, Sequences, FiniteSets, SequencesExt

CONSTANTS
  Workers,
  Commands,         (* the commands that clients send                      *)
  Keys,
  Users,
  Docs,             (* the addresses of documents                          *)
  Cells,            (* the addresses of list entries                       *)
  Lists,            (* the addresses of lists                              *)
  Stored,           (* the keys that have a document from the start        *)
  Null,
  Nobody,           (* a mutex that is free                                *)
  NoUser,           (* a command without a user                            *)
  UInt,             (* lengths wrap at UInt, which is 2^32 in the program  *)
  MaxSessions       (* a bound on the collaborators of a document          *)

(* Memory is finite, and has room for what is stored.                      *)
ASSUME DocAssumption ==
  /\ Commands \subseteq {"add", "get", "remove", "start", "end"}
  /\ Stored \subseteq Keys
  /\ Null \notin Docs \cup Cells \cup Lists
  /\ Nobody \notin Workers
  /\ NoUser \notin Users
  /\ UInt \in Nat \ {0}
  /\ MaxSessions \in Nat
  /\ Keys # {} /\ IsFiniteSet(Docs) /\ IsFiniteSet(Cells) /\ IsFiniteSet(Stored)
  /\ Cardinality(Stored) <= Cardinality(Docs) /\ Cardinality(Stored) <= Cardinality(Cells)
  /\ Stored # {} => Lists # {}

VARIABLES
  status,           (* whether the server runs, and what has ended it      *)
  bucket,           (* server.documents->buckets[i]                        *)
  list,             (* the lists that are allocated                        *)
  cell,             (* their entries, with the dictionary entry's fields   *)
  doc,              (* the documents that are allocated                    *)
  local,            (* each worker's place, arguments and registers        *)
  history           (* what has happened; no command reads it              *)

vars == <<status, bucket, list, cell, doc, local, history>>

ListRec == [length : 0 .. UInt - 1, head : Cells \cup {Null}, tail : Cells \cup {Null}]

CellRec ==
  [next : Cells \cup {Null}, prev : Cells \cup {Null}, key : Keys, doc : Docs]

DocRec == [collaborators : Seq(Users), mutex : Workers \cup {Nobody}]

Pcs ==
  {"idle", "bucket", "length", "single", "iterate", "use", "locate", "freeDoc",
   "unlink", "lock", "load", "store", "unlock",
   "create", "fetch", "append", "first", "alone", "behind", "last", "link",
   "count", "resize", "reply"}

LocalRec ==
  [pc : Pcs,
   cmd : Commands \cup {"none"}, key : Keys, user : Users \cup {NoUser},
   known : BOOLEAN,                         (* acknowledged when received  *)
   list : Lists \cup {Null}, length : 0 .. UInt - 1, index : Nat,
   cell : Cells \cup {Null}, doc : Docs \cup {Null},
   copy : Seq(Users),
   reply : {"none", "ok", "nil", "contents"}]

(* The keys whose add was answered, whether an add or a remove has ever    *)
(* been run at once with another command, and whether a remove was sent.   *)
HistoryRec == [acknowledged : SUBSET Keys, overlapped : BOOLEAN, removed : BOOLEAN]

(* An assertion of a list or that of documentCreate may end the server, or *)
(* the use of memory that was freed.                                       *)
TypeOK ==
  /\ status \in {"running", "noContents", "aborted", "undefined"}
  /\ bucket \in DOMAIN list \cup {Null}
  /\ DOMAIN list \subseteq Lists /\ \A l \in DOMAIN list : list[l] \in ListRec
  /\ DOMAIN cell \subseteq Cells /\ \A e \in DOMAIN cell : cell[e] \in CellRec
  /\ DOMAIN doc \subseteq Docs   /\ \A d \in DOMAIN doc : doc[d] \in DocRec
  /\ local \in [Workers -> LocalRec]
  /\ history \in HistoryRec

Idle ==
  [pc |-> "idle", cmd |-> "none", key |-> CHOOSE k \in Keys : TRUE, user |-> NoUser,
   known |-> FALSE, list |-> Null, length |-> 0, index |-> 0, cell |-> Null, doc |-> Null,
   copy |-> <<>>, reply |-> "none"]

(* The stored keys were added one after the other.                         *)
Init ==
  LET n     == Cardinality(Stored)
      keys  == SetToSeq(Stored)
      docs  == SetToSeq(Docs)
      cells == SetToSeq(Cells)
      l     == CHOOSE x \in Lists : TRUE
  IN
  /\ status = "running"
  /\ bucket = (IF n = 0 THEN Null ELSE l)
  /\ list = [x \in (IF n = 0 THEN {} ELSE {l}) |->
               [length |-> n, head |-> cells[1], tail |-> cells[n]]]
  /\ cell = [e \in {cells[i] : i \in 1 .. n} |->
               LET i == SelectInSeq(cells, LAMBDA c : c = e) IN
               [next |-> IF i = n THEN Null ELSE cells[i + 1],
                prev |-> IF i = 1 THEN Null ELSE cells[i - 1],
                key  |-> keys[i], doc |-> docs[i]]]
  /\ doc = [d \in {docs[i] : i \in 1 .. n} |-> [collaborators |-> <<>>, mutex |-> Nobody]]
  /\ local = [w \in Workers |-> Idle]
  /\ history = [acknowledged |-> Stored, overlapped |-> FALSE, removed |-> FALSE]

-----------------------------------------------------------------------------
(* Steps.                                                                  *)

At(w, pc) == status = "running" /\ local[w].pc = pc

Goto(w, pc) == local' = [local EXCEPT ![w].pc = pc]

Answer(w, reply) == local' = [local EXCEPT ![w].pc = "reply", ![w].reply = reply]

(* An assertion of the code fails, or memory is used that was freed.       *)
Stop(how) ==
  /\ status' = how
  /\ UNCHANGED <<bucket, list, cell, doc, local, history>>

(* A step that only reads shared memory.                                   *)
Reads == UNCHANGED <<status, bucket, list, cell, doc, history>>

-----------------------------------------------------------------------------
(* serverRunCommand.                                                       *)

(* A bound: no document gets more than MaxSessions collaborators.          *)
Room ==
  \A d \in DOMAIN doc :
    Len(doc[d].collaborators)
      + Cardinality({w \in Workers : local[w].cmd = "start"}) < MaxSessions

(* The worker w runs the command c: add and remove are undisturbed only if *)
(* no other command is run, and every other command only if none of them.  *)
Undisturbed(w, c) ==
  \A v \in Workers \ {w} :
    local[v].pc # "idle" => {c, local[v].cmd} \cap {"add", "remove"} = {}

Record(w, c) ==
  history' = [history EXCEPT !.overlapped = @ \/ ~ Undisturbed(w, c),
                             !.removed    = @ \/ c = "remove"]

(* The new document at d has no collaborators yet, and its mutex is free.  *)
documentCreate(d) ==
  doc' = [x \in DOMAIN doc \cup {d} |->
            IF x = d THEN [collaborators |-> <<>>, mutex |-> Nobody] ELSE doc[x]]

(* The document goes with its key, contents, collaborators and mutex.      *)
documentFree(d) == doc' = [x \in DOMAIN doc \ {d} |-> doc[x]]

(* A worker reads a command.  "add" parses its contents and creates the    *)
(* document at once: nobody else can see it yet.                           *)
Receive(w) ==
  /\ At(w, "idle")
  /\ \E c \in Commands, k \in Keys :
     \E u \in IF c \in {"start", "end"} THEN Users ELSE {NoUser} :
     \E d \in IF c = "add" THEN Docs \ DOMAIN doc ELSE {Null} :
       /\ c = "start" => Room
       /\ Record(w, c)
       /\ local' = [local EXCEPT ![w] =
            [Idle EXCEPT !.pc = "bucket", !.cmd = c, !.key = k, !.user = u, !.doc = d,
                         !.known = k \in history.acknowledged]]
       /\ IF c = "add" THEN documentCreate(d) ELSE UNCHANGED doc
  /\ UNCHANGED <<status, bucket, list, cell>>

(* An "add" whose contents do not parse is answered with nil.  (What the   *)
(* rest of long contents does to the heap is in Json.)                     *)
ReceiveUnparsable(w) ==
  /\ At(w, "idle")
  /\ "add" \in Commands
  /\ Record(w, "add")
  /\ \E k \in Keys :
       local' = [local EXCEPT ![w] =
         [Idle EXCEPT !.pc = "reply", !.cmd = "add", !.key = k, !.reply = "nil"]]
  /\ UNCHANGED <<status, bucket, list, cell, doc>>

(* If they do not parse but end early, err is empty: documentCreate is     *)
(* called without contents and its assertion fails.                        *)
ReceiveTruncated(w) ==
  /\ At(w, "idle")
  /\ "add" \in Commands
  /\ Stop("noContents")

(* The reply is sent.  What clients know is only kept track of if no       *)
(* document is ever removed.                                               *)
Reply(w) ==
  /\ At(w, "reply")
  /\ local' = [local EXCEPT ![w] = Idle]
  /\ history' = (IF /\ "remove" \notin Commands
                    /\ local[w].cmd = "add" /\ local[w].reply = "ok"
                 THEN [history EXCEPT !.acknowledged = @ \cup {local[w].key}]
                 ELSE history)
  /\ UNCHANGED <<status, bucket, list, cell, doc>>

-----------------------------------------------------------------------------
(* dictGet and dictRemove: the bucket, then getDictEntry.                  *)

Miss(w) == Answer(w, IF local[w].cmd = "remove" THEN "ok" ELSE "nil")

(* The list entry and the dictionary entry it points to are allocated: the *)
(* latter is freed along with its document.                                *)
Alive(e) == e \in DOMAIN cell /\ cell[e].doc \in DOMAIN doc

(* The entry e has the key: what happens next depends on the command.      *)
Hit(w, e) ==
  local' = [local EXCEPT
    ![w].pc  = CASE local[w].cmd = "get"    -> "use"
                 [] local[w].cmd = "remove" -> "locate"
                 [] OTHER                   -> "lock",
    ![w].doc = cell[e].doc]

ReadBucket(w) ==
  /\ At(w, "bucket")
  /\ local[w].cmd # "add"
  /\ IF bucket = Null
       THEN Miss(w)
       ELSE local' = [local EXCEPT ![w].pc = "length", ![w].list = bucket]
  /\ Reads

ReadLength(w) ==
  LET l == list[local[w].list] IN
  /\ At(w, "length")
  /\ CASE l.length = 0 -> Miss(w)
       [] l.length = 1 -> Goto(w, "single")
       [] OTHER        -> local' = [local EXCEPT ![w].pc = "iterate", ![w].cell = l.head]
  /\ Reads

(* The common case: listGet(list, 0), which asserts that there is an entry *)
(* and starts at the end that is nearer, and the comparison of its key.    *)
GetSingle(w) ==
  LET l == list[local[w].list]
      e == IF l.length \div 2 > 0 THEN l.head ELSE l.tail
  IN
  /\ At(w, "single")
  /\ IF l.length = 0 THEN Stop("aborted")
     ELSE IF ~ Alive(e) THEN Stop("undefined")
     ELSE /\ IF cell[e].key = local[w].key THEN Hit(w, e) ELSE Miss(w)
          /\ Reads

(* Mutant: the index is counted down.                                      *)
IterateDown(w) ==
  LET e == local[w].cell IN
  /\ At(w, "iterate")
  /\ IF e = Null THEN Miss(w)
     ELSE IF cell[e].key = local[w].key THEN Hit(w, e)
     ELSE local' = [local EXCEPT ![w].cell = cell[e].next, ![w].index = @ - 1]
  /\ Reads

(* One round of the loop over several entries.                             *)
Iterate(w) ==
  LET e == local[w].cell IN
  /\ At(w, "iterate")
  /\ IF e = Null THEN Miss(w) /\ Reads
     ELSE IF ~ Alive(e) THEN Stop("undefined")
     ELSE /\ IF cell[e].key = local[w].key
               THEN Hit(w, e)
               ELSE local' = [local EXCEPT ![w].cell = cell[e].next, ![w].index = @ + 1]
          /\ Reads

-----------------------------------------------------------------------------
(* get: the contents are read through the pointer that was looked up.      *)

UseDocument(w) ==
  /\ At(w, "use")
  /\ IF local[w].doc \notin DOMAIN doc
       THEN Stop("undefined")
       ELSE Answer(w, "contents") /\ Reads

-----------------------------------------------------------------------------
(* start and end: documentAddCollaborator, documentRemoveCollaborator.     *)

(* Mutant: the document's mutex is not taken.                              *)
LockNothing(w) ==
  /\ At(w, "lock")
  /\ Goto(w, "load")
  /\ Reads

LockDocument(w) ==
  LET d == local[w].doc IN
  /\ At(w, "lock")
  /\ IF d \notin DOMAIN doc THEN Stop("undefined")
     ELSE /\ doc[d].mutex = Nobody
          /\ doc' = [doc EXCEPT ![d].mutex = w]
          /\ Goto(w, "load")
          /\ UNCHANGED <<status, bucket, list, cell, history>>

(* listAppend and listRemove read the length and the entries ...           *)
LoadCollaborators(w) ==
  LET d == local[w].doc IN
  /\ At(w, "load")
  /\ IF d \notin DOMAIN doc THEN Stop("undefined")
     ELSE /\ local' = [local EXCEPT ![w].pc = "store", ![w].copy = doc[d].collaborators]
          /\ Reads

(* ... and write them: "end" removes the first entry of the user, if any.  *)
Edited(w) ==
  IF local[w].cmd = "start"
    THEN Append(local[w].copy, local[w].user)
    ELSE RemoveFirst(local[w].copy, local[w].user)

StoreCollaborators(w) ==
  LET d == local[w].doc IN
  /\ At(w, "store")
  /\ IF d \notin DOMAIN doc THEN Stop("undefined")
     ELSE /\ doc' = [doc EXCEPT ![d].collaborators = Edited(w)]
          /\ local' = [local EXCEPT ![w].pc = "unlock", ![w].copy = <<>>]
          /\ UNCHANGED <<status, bucket, list, cell, history>>

(* Mutant: a user who was not found returns with the mutex held.           *)
UnlockIfStarted(w) ==
  LET d == local[w].doc IN
  /\ At(w, "unlock")
  /\ doc' = [doc EXCEPT ![d].mutex = IF local[w].cmd = "end" THEN @ ELSE Nobody]
  /\ Answer(w, "ok")
  /\ UNCHANGED <<status, bucket, list, cell, history>>

UnlockDocument(w) ==
  LET d == local[w].doc IN
  /\ At(w, "unlock")
  /\ IF d \notin DOMAIN doc THEN Stop("undefined")
     ELSE /\ doc' = [doc EXCEPT ![d].mutex = Nobody]
          /\ Answer(w, "ok")
          /\ UNCHANGED <<status, bucket, list, cell, history>>

-----------------------------------------------------------------------------
(* remove: listRemove with the index that was found.                       *)

(* listRemove asserts the index and listGetEntry walks to it again: the    *)
(* entry there need not be the one that was compared.                      *)
Walk(start, steps, reverse) ==
  LET at[i \in 0 .. steps] ==
        IF i = 0 THEN start
        ELSE IF at[i - 1] \notin DOMAIN cell THEN at[i - 1]
        ELSE IF reverse THEN cell[at[i - 1]].prev ELSE cell[at[i - 1]].next
  IN  at[steps]

LocateEntry(w) ==
  LET l == list[local[w].list]
      i == local[w].index
      e == IF i < l.length \div 2 THEN Walk(l.head, i, FALSE)
                                  ELSE Walk(l.tail, l.length - i - 1, TRUE)
  IN
  /\ At(w, "locate")
  /\ IF i >= l.length THEN Stop("aborted")
     ELSE IF e \notin DOMAIN cell THEN Stop("undefined")
     ELSE /\ local' = [local EXCEPT ![w].pc = "freeDoc", ![w].cell = e]
          /\ Reads

(* list->free: dictEntryFree, which calls documentFree.                    *)
FreeDocument(w) ==
  LET e == local[w].cell IN
  /\ At(w, "freeDoc")
  /\ IF ~ Alive(e) THEN Stop("undefined")
     ELSE /\ documentFree(cell[e].doc)
          /\ Goto(w, "unlink")
          /\ UNCHANGED <<status, bucket, list, cell, history>>

(* Mutant: the tail of the list is left on the entry.                      *)
UnlinkFromHead(w) ==
  LET e == local[w].cell IN
  /\ At(w, "unlink")
  /\ cell' = [x \in DOMAIN cell \ {e} |->
                [cell[x] EXCEPT !.next = IF x = cell[e].prev THEN cell[e].next ELSE @,
                                !.prev = IF x = cell[e].next THEN cell[e].prev ELSE @]]
  /\ list' = [list EXCEPT ![local[w].list].head = IF @ = e THEN cell[e].next ELSE @]
  /\ Goto(w, "count")
  /\ UNCHANGED <<status, bucket, doc, history>>

(* The entry leaves the list and is freed.                                 *)
UnlinkEntry(w) ==
  LET e == local[w].cell
      l == local[w].list
      ends == [list[l] EXCEPT !.head = IF @ = e THEN cell[e].next ELSE @,
                              !.tail = IF @ = e THEN cell[e].prev ELSE @]
  IN
  /\ At(w, "unlink")
  /\ IF e \notin DOMAIN cell \/ ~ ({cell[e].prev, cell[e].next} \subseteq DOMAIN cell \cup {Null})
     THEN Stop("undefined")
     ELSE /\ cell' = [x \in DOMAIN cell \ {e} |->
                [cell[x] EXCEPT !.next = IF x = cell[e].prev THEN cell[e].next ELSE @,
                                !.prev = IF x = cell[e].next THEN cell[e].prev ELSE @]]
          /\ list' = [list EXCEPT ![l] = ends]
          /\ Goto(w, "count")
          /\ UNCHANGED <<status, bucket, doc, history>>

-----------------------------------------------------------------------------
(* add: dictSet and listAppend.                                            *)

TestBucket(w) ==
  /\ At(w, "bucket")
  /\ local[w].cmd = "add"
  /\ IF bucket = Null
       THEN Goto(w, "create")
       ELSE Goto(w, "fetch")
  /\ Reads

(* Whatever list is there by now, this one takes its place.                *)
CreateList(w) ==
  /\ At(w, "create")
  /\ \E l \in Lists \ DOMAIN list :
       /\ list' = [x \in DOMAIN list \cup {l} |->
                     IF x = l THEN [length |-> 0, head |-> Null, tail |-> Null] ELSE list[x]]
       /\ bucket' = l
       /\ Goto(w, "fetch")
  /\ UNCHANGED <<status, cell, doc, history>>

(* The bucket is read again for listAppend.                                *)
FetchList(w) ==
  /\ At(w, "fetch")
  /\ local' = [local EXCEPT ![w].pc = "append", ![w].list = bucket]
  /\ Reads

(* The length decides whether the new entry is the first.                  *)
TestLength(w) ==
  /\ At(w, "append")
  /\ Goto(w, IF list[local[w].list].length = 0 THEN "first" ELSE "behind")
  /\ Reads

(* The new entry e, which nobody sees before it is in the list.            *)
NewEntry(w, e, prev) ==
  cell' = [x \in DOMAIN cell \cup {e} |->
             IF x = e
               THEN [next |-> Null, prev |-> prev, key |-> local[w].key, doc |-> local[w].doc]
               ELSE cell[x]]

(* The first entry becomes the head of the list ...                        *)
BecomeHead(w) ==
  /\ At(w, "first")
  /\ \E e \in Cells \ DOMAIN cell :
       /\ NewEntry(w, e, Null)
       /\ list' = [list EXCEPT ![local[w].list].head = e]
       /\ local' = [local EXCEPT ![w].pc = "alone", ![w].cell = e]
  /\ UNCHANGED <<status, bucket, doc, history>>

(* ... and its tail.                                                       *)
BecomeOnlyTail(w) ==
  /\ At(w, "alone")
  /\ list' = [list EXCEPT ![local[w].list].tail = local[w].cell]
  /\ Goto(w, "link")
  /\ UNCHANGED <<status, bucket, cell, doc, history>>

(* Another one gets behind the tail ...                                    *)
ReadTail(w) ==
  /\ At(w, "behind")
  /\ local' = [local EXCEPT ![w].pc = "last", ![w].cell = list[local[w].list].tail]
  /\ Reads

(* ... and becomes the tail.                                               *)
BecomeTail(w) ==
  /\ At(w, "last")
  /\ \E e \in Cells \ DOMAIN cell :
       /\ NewEntry(w, e, local[w].cell)
       /\ list' = [list EXCEPT ![local[w].list].tail = e]
       /\ local' = [local EXCEPT ![w].pc = "link", ![w].cell = e]
  /\ UNCHANGED <<status, bucket, doc, history>>

(* entry->prev->next = entry                                               *)
LinkEntry(w) ==
  LET e == local[w].cell IN
  /\ At(w, "link")
  /\ IF e \notin DOMAIN cell THEN Stop("undefined")
     ELSE IF cell[e].prev = Null THEN Goto(w, "count") /\ Reads
     ELSE IF cell[e].prev \notin DOMAIN cell THEN Stop("undefined")
     ELSE /\ cell' = [cell EXCEPT ![cell[e].prev].next = e]
          /\ Goto(w, "count")
          /\ UNCHANGED <<status, bucket, list, doc, history>>

-----------------------------------------------------------------------------
(* list->length++ and list->length-- load the length ...                   *)
LoadLength(w) ==
  /\ At(w, "count")
  /\ local' = [local EXCEPT ![w].pc = "resize", ![w].length = list[local[w].list].length]
  /\ Reads

(* ... and store it.                                                       *)
StoreLength(w) ==
  LET change == IF local[w].cmd = "add" THEN 1 ELSE -1 IN
  /\ At(w, "resize")
  /\ list' = [list EXCEPT ![local[w].list].length = (local[w].length + change) % UInt]
  /\ Answer(w, "ok")
  /\ UNCHANGED <<status, bucket, cell, doc, history>>

-----------------------------------------------------------------------------

Lookup(w) == ReadBucket(w) \/ ReadLength(w) \/ GetSingle(w) \/ Iterate(w)
Session(w) ==
  LockDocument(w) \/ LoadCollaborators(w) \/ StoreCollaborators(w) \/ UnlockDocument(w)
Removal(w) == LocateEntry(w) \/ FreeDocument(w) \/ UnlinkEntry(w)
Addition(w) ==
  \/ TestBucket(w) \/ CreateList(w) \/ FetchList(w) \/ TestLength(w)
  \/ BecomeHead(w) \/ BecomeOnlyTail(w) \/ ReadTail(w) \/ BecomeTail(w) \/ LinkEntry(w)

Run(w) ==
  \/ Lookup(w) \/ UseDocument(w) \/ Session(w)
  \/ Removal(w) \/ Addition(w) \/ LoadLength(w) \/ StoreLength(w)
  \/ Reply(w)

Next ==
  \E w \in Workers :
    Receive(w) \/ ReceiveUnparsable(w) \/ ReceiveTruncated(w) \/ Run(w)

Spec == Init /\ [][Next]_vars

-----------------------------------------------------------------------------

(* No remove yet, or no command run at once with an add or a remove.       *)
Harmless == ~ (history.overlapped /\ history.removed)

Runs == status \in {"running", "noContents"}

(* Without a remove, whatever the others do at once to the lists, the      *)
(* documents and their collaborators, and with removes and adds that are   *)
(* run alone, no command trips the assertion of a list or follows a        *)
(* pointer to a document or an entry that has been freed.  (What ends the  *)
(* server then is an add whose contents end early.)                        *)
NeverStops == Harmless => Runs

(* The mutex of a document is held by the worker that edits its            *)
(* collaborators, which is only one, and by nobody once it is done, also   *)
(* if documentRemoveCollaborator found nothing to remove: no session ever  *)
(* waits for a worker that has gone on, unless a remove has come between.  *)
Editing(d) ==
  {w \in Workers : local[w].doc = d /\ local[w].pc \in {"load", "store", "unlock"}}

EditorsHoldMutexes ==
  \A d \in DOMAIN doc :
    Editing(d) = (IF doc[d].mutex = Nobody THEN {} ELSE {doc[d].mutex})

MutexHeldByEditor == Harmless => EditorsHoldMutexes

(* The entries along the list from its head, oldest first; Null, or an     *)
(* entry that was freed, behind the last one.                              *)
Reachable ==
  LET at[i \in 1 .. Cardinality(Cells)] ==
        IF i = 1 THEN IF bucket = Null THEN Null ELSE list[bucket].head
        ELSE IF at[i - 1] \in DOMAIN cell THEN cell[at[i - 1]].next
        ELSE Null
  IN  at

(* The collaborators of the documents of the key k, oldest first.          *)
StoreOf(k) ==
  LET at == Reachable
      from[i \in 0 .. Cardinality(Cells)] ==
        IF i = 0 THEN <<>>
        ELSE IF Alive(at[i]) /\ cell[at[i]].key = k
          THEN Append(from[i - 1], doc[cell[at[i]].doc].collaborators)
        ELSE from[i - 1]
  IN  from[Cardinality(Cells)]

Store == [k \in Keys |-> StoreOf(k)]

(* A command has taken effect once the collaborators are stored, the entry *)
(* is linked or the document is freed; the rest only tidies up.            *)
InEffect(w) ==
  \/ local[w].pc \in {"unlock", "unlink", "alone", "count", "resize"}
  \/ local[w].pc = "link" /\ local[w].cell \in DOMAIN cell /\ cell[local[w].cell].prev = Null

Requests ==
  [w \in Workers |-> [cmd |-> local[w].cmd, key |-> local[w].key, user |-> local[w].user]]

Answers == [w \in Workers |-> IF InEffect(w) THEN "ok" ELSE local[w].reply]

(* The commands of all threads take effect one after the other, each at an *)
(* instant between its arrival and its answer, and no session is lost or   *)
(* opened twice, until an add or a remove is run at once with another      *)
(* command: serverAddDocument, serverGetDocumentContents,                  *)
(* serverRemoveDocument, serverAddCollaborator, serverRemoveCollaborator.  *)
Serial == INSTANCE DocSpec WITH store <- Store, request <- Requests, answer <- Answers,
                                overlapped <- history.overlapped

IsSerial == Serial!Spec

(* The comment of serverGetDocument: "@return The matching document if it  *)
(* exists."  A document whose add was answered before the command arrived, *)
(* and that nobody removes, is found.                                      *)
StoredIsFound ==
  "remove" \notin Commands =>
    \A w \in Workers : local[w].known => local[w].reply # "nil"

=============================================================================
