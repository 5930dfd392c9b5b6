------------------------------ MODULE Session -------------------------------
(***************************************************************************)
(* One connection, from the prompt of src/cli.c to the loop of             *)
(* handleClientRequest in src/server.c and back.  Both ends treat what one *)
(* read() returns as one message, but TCP carries bytes: a read() returns  *)
(* any part of what has been written and not yet read.                     *)
(*                                                                         *)
(* A text is a sequence of pieces: words, each with the blank behind it,   *)
(* and "nl", the end of a line.  "doc" is a whole JSON value and so is     *)
(* "open", "inner", "close"; "open" alone breaks off.  Buffers are as many *)
(* pieces long as BufferSize says.  Other connections are left out.        *)
(***************************************************************************)
EXTENDS Integers, Sequences, FiniteSets, SequencesExt

CONSTANTS
  Lines,            (* what the user may type: texts that end with "nl",   *)
                    (* or the last line of the input, without it           *)
  BufferSize,       (* BUFFER_SIZE of both programs                        *)
  Stale,            (* the texts that may be found behind an argument      *)
  MaxSent           (* a bound on what the client sends                    *)

(* No line begins with NUL.  Such a line has length 0 as a string: the     *)
(* client would send nothing and wait for an answer, as the worker does for *)
(* a request, for ever.                                                     *)
ASSUME SessionAssumption ==
  /\ \A l \in Lines : l # <<>>
  /\ BufferSize \in Nat /\ BufferSize > 1
  /\ MaxSent \in Nat

VARIABLES
  status,           (* "running", or "undefined"                           *)
  stdin,            (* what was typed and not yet read                     *)
  eof,              (* whether the input has ended                         *)
  buffer,           (* the client's buffer                                 *)
  cli,              (* what the client does                                *)
  sent,             (* how often the client has sent                       *)
  toServer,         (* the bytes under way, in either direction            *)
  toClient,
  worker,           (* what the worker does                                *)
  request,          (* its buffer                                          *)
  output,           (* the answer it is about to write                     *)
  documents,        (* the documents stored, by age                        *)
  split             (* a read() has left something behind: history         *)

cliVars    == <<stdin, eof, buffer, cli, sent>>
workerVars == <<worker, request, output, documents>>
vars       == <<status, cliVars, toServer, toClient, workerVars, split>>

(* The commands of the table and the number of their arguments.            *)
commandTable ==
  [add |-> 2, commands |-> 0, clientList |-> 0, clientKill |-> 2, end |-> 2, exists |-> 1,
   get |-> 1, keys |-> 0, modify |-> 3, pause |-> 0, ping |-> 0, remove |-> 1, size |-> 0,
   start |-> 2, save |-> 0, update |-> 2]

Pieces ==
  DOMAIN commandTable
    \cup {"getk", "k", "u", "doc", "open", "inner", "close", "foo", "nl", "stale",
          "ok", "nil", "pong", "not implemented", "Invalid command"}

Text == Seq(Pieces)

ASSUME TextAssumption == \A text \in Lines \cup Stale : text \in Text

TypeOK ==
  /\ status \in {"running", "undefined"}
  /\ stdin \in Text
  /\ eof \in BOOLEAN
  /\ buffer \in Text /\ Len(buffer) <= BufferSize
  /\ cli \in {"prompt", "write", "read", "disconnected"}
  /\ sent \in 0 .. MaxSent
  /\ toServer \in Text /\ toClient \in Text
  /\ worker \in {"read", "run", "write", "aborted"}
  /\ request \in Text /\ Len(request) <= BufferSize
  /\ output \in Text
  /\ \A i \in DOMAIN documents : documents[i] \in [key : Text, contents : Text]
  /\ split \in BOOLEAN

Init ==
  /\ status = "running"
  /\ stdin = <<>> /\ eof = FALSE /\ buffer = <<>> /\ cli = "prompt" /\ sent = 0
  /\ toServer = <<>> /\ toClient = <<>>
  /\ worker = "read" /\ request = <<>> /\ output = <<>> /\ documents = <<>>
  /\ split = FALSE

Running == status = "running"

(* read(): some of what is under way, as much as the buffer takes.         *)
Readable(stream) == {SubSeq(stream, 1, n) : n \in 1 .. Min({Len(stream), BufferSize})}

Unread(stream, text) == SubSeq(stream, Len(text) + 1, Len(stream))

(* A buffer that is full has no NUL behind the text: who goes through it   *)
(* as a string goes on into other memory.                                  *)
AsString(text) == status' \in {"running"} \cup (IF Len(text) < BufferSize THEN {} ELSE {"undefined"})

-----------------------------------------------------------------------------
(* The client: clientStart.                                                *)

(* Mutant: the line is read whole, however long.                           *)
LineUnlimited(text) == text

(* fgets: the text up to the end of the line, or as much as fits.          *)
fgets(text) ==
  LET ends == {Len(text), BufferSize - 1} \cup {i \in DOMAIN text : text[i] = "nl"}
  IN  SubSeq(text, 1, Min(ends))

(* At a line that does not end, the input does.                            *)
ReadLine ==
  /\ Running /\ cli = "prompt" /\ ~ eof /\ sent < MaxSent
  /\ \E text \in IF stdin = <<>> THEN Lines ELSE {stdin} :
       /\ buffer' = fgets(text)
       /\ stdin' = Unread(text, buffer')
       /\ eof' = (stdin' = <<>> /\ Last(buffer') # "nl")
  /\ cli' = "write"
  /\ UNCHANGED <<status, sent, toServer, toClient, workerVars, split>>

(* At the end of the input fgets leaves the buffer as it is, and its       *)
(* result is ignored.  Before the first line nothing has been written into *)
(* the buffer.                                                             *)
ReadEof ==
  /\ Running /\ cli = "prompt" /\ stdin = <<>> /\ sent < MaxSent
  /\ eof' = TRUE
  /\ IF sent = 0 THEN status' = "undefined" /\ UNCHANGED cli
                 ELSE cli' = "write" /\ UNCHANGED status
  /\ UNCHANGED <<stdin, buffer, sent, toServer, toClient, workerVars, split>>

(* The buffer is not cleared, whatever the comment says.                   *)
clientWrite ==
  /\ Running /\ cli = "write"
  /\ sent' = sent + 1
  /\ IF worker = "aborted"
       THEN cli' \in {"read", "disconnected"} /\ UNCHANGED toServer
       ELSE cli' = "read" /\ toServer' = toServer \o buffer
  /\ UNCHANGED <<status, stdin, eof, buffer, toClient, workerVars, split>>

(* Mutant: the client waits for the end of the line.                       *)
ReadToNewline ==
  /\ Running /\ cli = "read"
  /\ \E text \in Readable(toClient) :
       /\ Last(text) = "nl"
       /\ buffer' = text
       /\ toClient' = Unread(toClient, text)
       /\ split' = (split \/ toClient' # <<>>)
       /\ AsString(text)
  /\ cli' = "prompt"
  /\ UNCHANGED <<stdin, eof, sent, toServer, workerVars>>

(* What one read() returns is printed as the answer.                       *)
clientRead ==
  /\ Running /\ cli = "read"
  /\ \E text \in Readable(toClient) :
       /\ buffer' = text
       /\ toClient' = Unread(toClient, text)
       /\ split' = (split \/ toClient' # <<>>)
       /\ AsString(text)
  /\ cli' = "prompt"
  /\ UNCHANGED <<stdin, eof, sent, toServer, workerVars>>

(* If the server is gone, read() returns 0, which is taken for an answer,  *)
(* or fails; so may write().                                               *)
clientReadEnd ==
  /\ Running /\ cli = "read" /\ worker = "aborted" /\ toClient = <<>>
  /\ buffer' = <<>>
  /\ cli' \in {"prompt", "disconnected"}
  /\ UNCHANGED <<status, stdin, eof, sent, toServer, toClient, workerVars, split>>

-----------------------------------------------------------------------------
(* The request: skip, jump, parseArgs and the table.                       *)

White == {"nl"}

(* The text from its n-th word on.                                         *)
From(text, n) ==
  LET words == {i \in DOMAIN text : text[i] \notin White}
      rest  == {i \in words : Cardinality({w \in words : w <= i}) >= n}
  IN  IF rest = {} THEN <<>> ELSE SubSeq(text, Min(rest), Len(text))

skip(text) == From(text, 1)

(* A word ends at the first blank.                                         *)
Word(text) == IF text = <<>> \/ Head(text) \in White THEN <<>> ELSE <<Head(text)>>

(* Every argument is a word, except the last: it is all the rest, the end  *)
(* of the line included.                                                   *)
Arguments(text, argc) ==
  [i \in 1 .. argc |-> IF i = argc THEN From(text, i) ELSE Word(From(text, i))]

(* strncpy does not terminate the copy: what the block held before may be  *)
(* part of the argument.                                                   *)
parseArgs(text, argc) ==
  {[i \in 1 .. argc |-> Arguments(text, argc)[i] \o behind[i]] : behind \in [1 .. argc -> Stale]}

(* A command is found by the beginning of the request.                     *)
Begin(text) == IF text # <<>> /\ Head(text) = "getk" THEN <<"get", "k">> \o Tail(text) ELSE text

-----------------------------------------------------------------------------
(* The commands, as far as one connection can tell.                        *)

Ok  == <<"ok", "nl">>
Nil == <<"nil", "nl">>

(* Mutant: an invalid command is not answered.                             *)
InvalidIgnored(text) == <<>>

serverInvalidCommand(text) == <<"Invalid command">> \o Word(text) \o <<"nl">>

(* jsonParse: what follows a value is not looked at.  <<>> is an error.    *)
LongValue == <<"open", "inner", "close">>

jsonParse(text) ==
  CASE text # <<>> /\ Head(text) = "doc"                  -> <<"doc">>
    [] Len(text) >= 3 /\ SubSeq(text, 1, 3) = LongValue   -> LongValue
    [] OTHER                                              -> <<>>

(* The text ends inside a value: the error is empty, and is not noticed.   *)
BreaksOff(text) ==
  LET words == SelectSeq(text, LAMBDA p : p \notin White) IN
  words \in {<<>>, <<"open">>, <<"open", "inner">>}

(* The oldest document of the key.                                         *)
Find(key) == SelectInSeq(documents, LAMBDA d : d.key = key)

Answer(text) == output' = text /\ worker' = "write"

serverAddDocument(key, contents) ==
  IF BreaksOff(contents) THEN worker' = "aborted" /\ UNCHANGED <<output, documents>>
  ELSE IF jsonParse(contents) = <<>> THEN Answer(Nil) /\ UNCHANGED documents
  ELSE /\ documents' = Append(documents, [key |-> key, contents |-> jsonParse(contents)])
       /\ Answer(Ok)

serverGetDocumentContents(key) ==
  /\ Answer(IF Find(key) = 0 THEN Nil ELSE documents[Find(key)].contents)
  /\ UNCHANGED documents

serverRemoveDocument(key) ==
  /\ documents' = IF Find(key) = 0 THEN documents ELSE RemoveAt(documents, Find(key))
  /\ Answer(Ok)

(* start and end change the document's collaborators only.                 *)
serverCollaborate(key) ==
  /\ Answer(IF Find(key) = 0 THEN Nil ELSE Ok)
  /\ UNCHANGED documents

run(name, args) ==
  CASE name = "add"              -> serverAddDocument(args[1], args[2])
    [] name = "get"              -> serverGetDocumentContents(args[1])
    [] name = "remove"           -> serverRemoveDocument(args[1])
    [] name \in {"start", "end"} -> serverCollaborate(args[1])
    [] name = "ping"             -> Answer(<<"pong", "nl">>) /\ UNCHANGED documents
    [] OTHER                     -> Answer(<<"not implemented", "nl">>) /\ UNCHANGED documents

-----------------------------------------------------------------------------
(* The worker: handleClientRequest.                                        *)

serverRead ==
  /\ Running /\ worker = "read"
  /\ \E text \in Readable(toServer) :
       /\ request' = text
       /\ toServer' = Unread(toServer, text)
       /\ split' = (split \/ toServer' # <<>>)
       /\ AsString(text)
  /\ worker' = "run"
  /\ UNCHANGED <<cliVars, toClient, output, documents>>

(* The block for the answer to an invalid command is one byte too small.   *)
serverRunCommand ==
  /\ Running /\ worker = "run"
  /\ \E text \in {Begin(skip(request))} :
       IF text # <<>> /\ Head(text) \in DOMAIN commandTable
         THEN /\ \E args \in parseArgs(Tail(text), commandTable[Head(text)]) : run(Head(text), args)
              /\ UNCHANGED status
         ELSE /\ Answer(serverInvalidCommand(text))
              /\ status' \in {"running", "undefined"}
              /\ UNCHANGED documents
  /\ UNCHANGED <<cliVars, toServer, toClient, request, split>>

(* Mutant: the end of the line is written apart.                           *)
WriteInParts ==
  /\ Running /\ worker = "write"
  /\ toClient' = Append(toClient, Head(output))
  /\ output' = Tail(output)
  /\ worker' = IF Len(output) = 1 THEN "read" ELSE "write"
  /\ UNCHANGED <<status, cliVars, toServer, request, documents, split>>

serverWrite ==
  /\ Running /\ worker = "write"
  /\ toClient' = toClient \o output
  /\ worker' = "read"
  /\ UNCHANGED <<status, cliVars, toServer, request, output, documents, split>>

-----------------------------------------------------------------------------

Client == clientWrite \/ clientRead \/ clientReadEnd
Worker == serverRead \/ serverRunCommand \/ serverWrite

Next == ReadLine \/ ReadEof \/ Client \/ Worker

(* Both programs go on when they can; the user need not type.              *)
Fairness == WF_vars(Client) /\ WF_vars(Worker)

Spec == Init /\ [][Next]_vars
FairSpec == Spec /\ Fairness

-----------------------------------------------------------------------------

(* The client waits for an answer only if one is under way, being made, or *)
(* asked for by bytes that the worker will read: whatever the reads split  *)
(* or join, the two ends never wait for each other.                        *)
NeverWaitsForNothing ==
  cli = "read" =>
    toClient # <<>> \/ toServer # <<>> \/ worker \in {"run", "write", "aborted"}

(* As long as every read() has taken all there was, the two ends are in    *)
(* step: when the client prompts, nothing is left of the last exchange,    *)
(* and what it prints next is the answer to what it sends next.            *)
InStep ==
  ~ split /\ cli = "prompt" /\ worker # "aborted" =>
    toServer = <<>> /\ toClient = <<>> /\ worker = "read"

(* After every line, however it is split, the client prints something and  *)
(* prompts again, unless it finds the server gone.                         *)
EveryLineIsAnswered ==
  (cli = "read") ~> (cli # "read" \/ status = "undefined")

(* The comment of serverGetDocumentContents: "Get the JSON contents of a   *)
(* document.", "@param key: The document to retrieve."  A line "get k"     *)
(* finds the document that a line "add k ..." has stored.                  *)
AddedIsFound ==
  \A k \in Pieces :
    /\ worker = "write" /\ request = <<"get", k, "nl">>
    /\ Find(<<k>>) # 0
    => output # Nil

=============================================================================
