--------------------------- MODULE SessionProofs ----------------------------
(***************************************************************************)
(* Proofs, for any lines that may be typed, any size of the buffers and    *)
(* any leftovers behind the arguments, that the client and the worker of   *)
(* Session never wait for each other, and that they stay in step as long   *)
(* as every read() returns all there is.                                   *)
(***************************************************************************)
EXTENDS Session, DataProofs

-----------------------------------------------------------------------------
(* The operators on texts.                                                 *)

(* What read() returns, and what it leaves.                                *)
LEMMA ReadableParts ==
  ASSUME NEW stream \in Text, NEW text \in Readable(stream)
  PROVE  /\ text \in Text /\ text # <<>> /\ Len(text) <= BufferSize
         /\ stream # <<>>
         /\ Unread(stream, text) \in Text
<1>1. PICK n \in 1 .. Min({Len(stream), BufferSize}) : text = SubSeq(stream, 1, n)
  BY DEF Readable
<1>2. Len(stream) \in Nat
  BY DEF Text
<1>3. /\ Min({Len(stream), BufferSize}) <= Len(stream)
      /\ Min({Len(stream), BufferSize}) <= BufferSize
      /\ Min({Len(stream), BufferSize}) \in Nat
  BY <1>2, MinIsLeast, SessionAssumption
<1>4. n \in 1 .. Len(stream) /\ n <= BufferSize
  BY <1>1, <1>2, <1>3, SessionAssumption
<1>5. text \in Text /\ Len(text) = n
  BY <1>1, <1>2, <1>4 DEF Text
<1>6. Unread(stream, text) \in Text
  BY <1>2, <1>4, <1>5 DEF Unread, Text
<1> QED
  BY <1>2, <1>4, <1>5, <1>6

(* fgets returns something, and leaves the rest of the line.               *)
LEMMA fgetsParts ==
  ASSUME NEW text \in Text, text # <<>>
  PROVE  /\ fgets(text) \in Text /\ fgets(text) # <<>> /\ Len(fgets(text)) <= BufferSize
         /\ Unread(text, fgets(text)) \in Text
<1> DEFINE ends == {Len(text), BufferSize - 1} \cup {i \in DOMAIN text : text[i] = "nl"}
<1>1. Len(text) \in Nat \ {0} /\ DOMAIN text = 1 .. Len(text)
  BY EmptySeq, LenProperties DEF Text
<1>2. ends \subseteq Nat \ {0} /\ ends # {}
  BY <1>1, SessionAssumption
<1>3. /\ Min(ends) \in Nat \ {0}
      /\ Min(ends) <= Len(text)
      /\ Min(ends) <= BufferSize - 1
  BY <1>2, MinIsLeast
<1>4. fgets(text) = SubSeq(text, 1, Min(ends))
  BY DEF fgets
<1> HIDE DEF ends
<1>5. fgets(text) \in Text /\ Len(fgets(text)) = Min(ends)
  BY <1>1, <1>3, <1>4 DEF Text
<1>6. Unread(text, fgets(text)) \in Text
  BY <1>1, <1>3, <1>5 DEF Unread, Text
<1> QED
  BY <1>3, <1>5, <1>6, SessionAssumption

(* The oldest document of a key is one of the documents.                   *)
LEMMA FindIsIndex ==
  ASSUME NEW key, documents \in Seq([key : Text, contents : Text])
  PROVE  Find(key) # 0 => Find(key) \in DOMAIN documents
<1> DEFINE I == {i \in 1 .. Len(documents) : documents[i].key = key}
<1>1. I \subseteq Nat /\ DOMAIN documents = 1 .. Len(documents)
  BY LenProperties
<1>2. Find(key) = IF I # {} THEN Min(I) ELSE 0
  BY DEF Find, SelectInSeq
<1>3. I # {} => Min(I) \in I
  BY <1>1, MinIsLeast
<1> QED
  BY <1>1, <1>2, <1>3

(* The words of the model are pieces.                                      *)
LEMMA WordsArePieces ==
  /\ "get" \in Pieces /\ "k" \in Pieces
  /\ "doc" \in Pieces /\ "open" \in Pieces /\ "inner" \in Pieces /\ "close" \in Pieces
  /\ "nl" \in Pieces /\ "ok" \in Pieces /\ "nil" \in Pieces /\ "pong" \in Pieces
  /\ "not implemented" \in Pieces /\ "Invalid command" \in Pieces
BY DEF Pieces, commandTable

(* Up to three pieces make a text.                                         *)
LEMMA PiecesMakeTexts ==
  ASSUME NEW a \in Pieces, NEW b \in Pieces, NEW c \in Pieces
  PROVE  /\ <<a>> \in Text /\ <<a>> # <<>>
         /\ <<a, b>> \in Text /\ <<a, b>> # <<>>
         /\ <<a, b, c>> \in Text /\ <<a, b, c>> # <<>>
<1>1. <<a>> \in Text /\ Len(<<a>>) = 1
  BY DEF Text
<1>2. <<a, b>> \in Text /\ Len(<<a, b>>) = 2
  BY DEF Text
<1>3. <<a, b, c>> \in Text /\ Len(<<a, b, c>>) = 3
  BY DEF Text
<1> QED
  BY <1>1, <1>2, <1>3, EmptySeq DEF Text

(* The answers and the values are texts, and not empty.                    *)
LEMMA AnswersAreTexts ==
  /\ Ok \in Text /\ Ok # <<>>
  /\ Nil \in Text /\ Nil # <<>>
  /\ <<"pong", "nl">> \in Text /\ <<"pong", "nl">> # <<>>
  /\ <<"not implemented", "nl">> \in Text /\ <<"not implemented", "nl">> # <<>>
  /\ <<"doc">> \in Text /\ <<"doc">> # <<>>
  /\ LongValue \in Text /\ LongValue # <<>>
BY WordsArePieces, PiecesMakeTexts DEF Ok, Nil, LongValue

(* Every command takes some number of arguments.                           *)
LEMMA ArgumentsCounted ==
  /\ \A name \in DOMAIN commandTable : commandTable[name] \in Nat
  /\ commandTable["add"] = 2 /\ commandTable["get"] = 1 /\ commandTable["remove"] = 1
  /\ commandTable["start"] = 2 /\ commandTable["end"] = 2
BY DEF commandTable

(* The rest of a text, from any word of it on.                             *)
LEMMA FromIsText ==
  ASSUME NEW text \in Text, NEW n
  PROVE  From(text, n) \in Text
<1> DEFINE words == {i \in DOMAIN text : text[i] \notin White}
           rest  == {i \in words : Cardinality({w \in words : w <= i}) >= n}
<1>1. Len(text) \in Nat /\ DOMAIN text = 1 .. Len(text)
  BY LenProperties DEF Text
<1>2. rest \subseteq 1 .. Len(text)
  BY <1>1
<1>3. From(text, n) = IF rest = {} THEN <<>> ELSE SubSeq(text, Min(rest), Len(text))
  BY DEF From
<1> HIDE DEF rest
<1>4. CASE rest = {}
  BY <1>3, <1>4 DEF Text
<1>5. CASE rest # {}
  <2>1. rest \subseteq Nat
    BY <1>1, <1>2
  <2>2. Min(rest) \in 1 .. Len(text)
    BY <1>2, <1>5, <2>1, MinIsLeast
  <2> QED
    BY <1>1, <1>3, <1>5, <2>2 DEF Text
<1> QED
  BY <1>4, <1>5

(* A word of a text.                                                       *)
LEMMA WordIsText ==
  ASSUME NEW text \in Text
  PROVE  Word(text) \in Text
BY EmptySeq DEF Word, Text

(* What a command finds as its arguments, leftovers included.              *)
LEMMA ArgumentsAreTexts ==
  ASSUME NEW text \in Text, NEW argc \in Nat, NEW args \in parseArgs(text, argc)
  PROVE  \A i \in 1 .. argc : args[i] \in Text
<1> TAKE i \in 1 .. argc
<1>1. PICK behind \in [1 .. argc -> Stale] :
        args = [j \in 1 .. argc |-> Arguments(text, argc)[j] \o behind[j]]
  BY DEF parseArgs
<1>2. Arguments(text, argc)[i] \in Text
  BY FromIsText, WordIsText DEF Arguments
<1>3. behind[i] \in Text
  BY TextAssumption
<1>4. args[i] = Arguments(text, argc)[i] \o behind[i]
  BY <1>1
<1> QED
  BY <1>2, <1>3, <1>4 DEF Text

(* A request from its command on.                                          *)
LEMMA BeginIsText ==
  ASSUME NEW text \in Text
  PROVE  Begin(text) \in Text
<1>1. CASE text = <<>>
  BY <1>1 DEF Begin
<1>2. CASE text # <<>>
  <2>1. Tail(text) \in Text
    BY <1>2, EmptySeq DEF Text
  <2>2. <<"get", "k">> \in Text
    BY WordsArePieces, PiecesMakeTexts
  <2> QED
    BY <2>1, <2>2 DEF Begin, Text
<1> QED
  BY <1>1, <1>2

(* jsonParse makes a text of any contents.                                 *)
LEMMA jsonParseIsText ==
  ASSUME NEW text
  PROVE  jsonParse(text) \in Text
<1>1. <<>> \in Text
  BY DEF Text
<1> QED
  BY <1>1, AnswersAreTexts DEF jsonParse

-----------------------------------------------------------------------------
(* The inductive invariant.                                                *)

Document == [key : Text, contents : Text]

(* What is sent, stored or answered is never the empty text: it would be   *)
(* no message.                                                             *)
NothingIsEmpty ==
  /\ worker = "write" => output # <<>>
  /\ \A i \in DOMAIN documents : documents[i].contents # <<>>
  /\ (sent > 0 \/ cli = "write") /\ worker # "aborted" => buffer # <<>>

(* The client gives up only when the server is gone, and writes only what  *)
(* the bound allows.                                                       *)
ClientGoesOn ==
  /\ cli = "disconnected" => worker = "aborted"
  /\ cli = "write" => sent < MaxSent

(* Until a read() leaves something behind there is one message, or none:   *)
(* with the client, under way, or with the worker.                         *)
OneMessage ==
  ~ split /\ worker # "aborted" =>
    /\ cli # "read" => toServer = <<>> /\ toClient = <<>> /\ worker = "read"
    /\ toServer # <<>> => toClient = <<>> /\ worker = "read"
    /\ toClient # <<>> => toServer = <<>> /\ worker = "read"

SessionInv ==
  /\ TypeOK
  /\ documents \in Seq(Document)
  /\ NothingIsEmpty
  /\ ClientGoesOn
  /\ OneMessage
  /\ NeverWaitsForNothing

-----------------------------------------------------------------------------
(* Every step keeps it.                                                    *)

(* Nothing has been sent, nothing is stored.                               *)
LEMMA InitSession == Init => SessionInv
<1> SUFFICES ASSUME Init PROVE SessionInv
  OBVIOUS
<1>1. <<>> \in Text /\ Len(<<>>) = 0 /\ DOMAIN <<>> = {} /\ <<>> \in Seq(Document)
  BY EmptySeq DEF Text
<1>2. TypeOK
  <2>1. \A i \in DOMAIN documents : documents[i] \in [key : Text, contents : Text]
    BY <1>1 DEF Init
  <2>2. 0 \in 0 .. MaxSent /\ 0 <= BufferSize
    BY SessionAssumption
  <2> QED
    BY <1>1, <2>1, <2>2, Zenon DEF Init, TypeOK
<1>3. documents \in Seq(Document) /\ NothingIsEmpty
  BY <1>1, SessionAssumption DEF Init, NothingIsEmpty
<1> QED
  BY <1>2, <1>3 DEF Init, SessionInv, ClientGoesOn, OneMessage, NeverWaitsForNothing

(* The client's steps.                                                     *)
LEMMA ReadLineStep == SessionInv /\ ReadLine => SessionInv'
<1> SUFFICES ASSUME SessionInv, ReadLine PROVE SessionInv'
  OBVIOUS
<1> USE DEF SessionInv
<1>1. PICK text \in IF stdin = <<>> THEN Lines ELSE {stdin} :
        buffer' = fgets(text) /\ stdin' = Unread(text, buffer')
  BY DEF ReadLine
<1>2. text \in Text /\ text # <<>>
  BY TextAssumption, SessionAssumption DEF TypeOK
<1>3. /\ buffer' \in Text /\ buffer' # <<>> /\ Len(buffer') <= BufferSize
      /\ stdin' \in Text
  BY <1>1, <1>2, fgetsParts
<1>4. TypeOK' /\ (documents \in Seq(Document))'
  BY <1>3 DEF ReadLine, TypeOK, workerVars
<1> QED
  BY <1>3, <1>4 DEF ReadLine, NothingIsEmpty, ClientGoesOn, OneMessage,
                    NeverWaitsForNothing, TypeOK, workerVars

LEMMA ReadEofStep == SessionInv /\ ReadEof => SessionInv'
BY DEF SessionInv, ReadEof, TypeOK, Document, NothingIsEmpty, ClientGoesOn, OneMessage,
       NeverWaitsForNothing, workerVars

LEMMA clientWriteStep == SessionInv /\ clientWrite => SessionInv'
<1> SUFFICES ASSUME SessionInv, clientWrite PROVE SessionInv'
  OBVIOUS
<1> USE DEF SessionInv
<1>1. sent' \in 0 .. MaxSent
  BY SessionAssumption DEF clientWrite, ClientGoesOn, TypeOK
<1>2. toServer' \in Text /\ (worker # "aborted" => toServer' # <<>>)
  <2>1. CASE worker = "aborted"
    BY <2>1 DEF clientWrite, TypeOK
  <2>2. CASE worker # "aborted"
    <3>1. toServer' = toServer \o buffer /\ buffer # <<>>
      BY <2>2 DEF clientWrite, NothingIsEmpty
    <3>2. toServer \in Seq(Pieces) /\ buffer \in Seq(Pieces)
      BY DEF TypeOK, Text
    <3> QED
      BY <3>1, <3>2, ConcatProperties, EmptySeq DEF Text
  <2> QED
    BY <2>1, <2>2
<1>3. TypeOK' /\ (documents \in Seq(Document))'
  BY <1>1, <1>2 DEF clientWrite, TypeOK, workerVars
<1> QED
  BY <1>2, <1>3 DEF clientWrite, NothingIsEmpty, ClientGoesOn, OneMessage,
                    NeverWaitsForNothing, workerVars

LEMMA clientReadStep == SessionInv /\ clientRead => SessionInv'
<1> SUFFICES ASSUME SessionInv, clientRead PROVE SessionInv'
  OBVIOUS
<1> USE DEF SessionInv
<1>1. PICK text \in Readable(toClient) :
        /\ buffer' = text
        /\ toClient' = Unread(toClient, text)
        /\ split' = (split \/ toClient' # <<>>)
        /\ AsString(text)
  BY DEF clientRead
<1>2. /\ buffer' \in Text /\ buffer' # <<>> /\ Len(buffer') <= BufferSize
      /\ toClient # <<>>
      /\ toClient' \in Text
  BY <1>1, ReadableParts DEF TypeOK
<1>3. status' \in {"running", "undefined"} /\ split' \in BOOLEAN
  BY <1>1 DEF AsString, TypeOK
<1>4. TypeOK' /\ (documents \in Seq(Document))'
  BY <1>2, <1>3 DEF clientRead, TypeOK, workerVars
<1> QED
  BY <1>1, <1>2, <1>4 DEF clientRead, NothingIsEmpty, ClientGoesOn, OneMessage,
                    NeverWaitsForNothing, TypeOK, workerVars

LEMMA clientReadEndStep == SessionInv /\ clientReadEnd => SessionInv'
<1> SUFFICES ASSUME SessionInv, clientReadEnd PROVE SessionInv'
  OBVIOUS
<1> USE DEF SessionInv
<1>1. buffer' \in Text /\ Len(buffer') <= BufferSize
  BY SessionAssumption DEF clientReadEnd, Text
<1> QED
  BY <1>1 DEF clientReadEnd, TypeOK, NothingIsEmpty, ClientGoesOn, OneMessage,
              NeverWaitsForNothing, workerVars

(* The worker's steps.                                                     *)
LEMMA serverReadStep == SessionInv /\ serverRead => SessionInv'
<1> SUFFICES ASSUME SessionInv, serverRead PROVE SessionInv'
  OBVIOUS
<1> USE DEF SessionInv
<1>1. PICK text \in Readable(toServer) :
        /\ request' = text
        /\ toServer' = Unread(toServer, text)
        /\ split' = (split \/ toServer' # <<>>)
        /\ AsString(text)
  BY DEF serverRead
<1>2. /\ request' \in Text /\ Len(request') <= BufferSize
      /\ toServer # <<>>
      /\ toServer' \in Text
  BY <1>1, ReadableParts DEF TypeOK
<1>3. status' \in {"running", "undefined"} /\ split' \in BOOLEAN
  BY <1>1 DEF AsString, TypeOK
<1>4. TypeOK' /\ (documents \in Seq(Document))'
  BY <1>2, <1>3 DEF serverRead, TypeOK, cliVars
<1> QED
  BY <1>1, <1>2, <1>4 DEF serverRead, NothingIsEmpty, ClientGoesOn, OneMessage,
                    NeverWaitsForNothing, TypeOK, cliVars

LEMMA serverWriteStep == SessionInv /\ serverWrite => SessionInv'
<1> SUFFICES ASSUME SessionInv, serverWrite PROVE SessionInv'
  OBVIOUS
<1> USE DEF SessionInv
<1>1. toClient' \in Text /\ toClient' # <<>>
  <2>1. toClient' = toClient \o output /\ output # <<>>
    BY DEF serverWrite, NothingIsEmpty
  <2>2. toClient \in Seq(Pieces) /\ output \in Seq(Pieces)
    BY DEF TypeOK, Text
  <2> QED
    BY <2>1, <2>2, ConcatProperties, EmptySeq DEF Text
<1>2. TypeOK' /\ (documents \in Seq(Document))'
  BY <1>1 DEF serverWrite, TypeOK, cliVars
<1> QED
  BY <1>1, <1>2 DEF serverWrite, NothingIsEmpty, ClientGoesOn, OneMessage,
                    NeverWaitsForNothing, cliVars

(* A command answers with a text that is not empty, or aborts, and stores  *)
(* only what jsonParse made of its argument.                               *)
LEMMA CommandAnswers ==
  ASSUME SessionInv, NEW name \in DOMAIN commandTable, NEW text \in Text,
         NEW args \in parseArgs(text, commandTable[name]), run(name, args)
  PROVE  /\ documents' \in Seq(Document)
         /\ \A i \in DOMAIN documents' : documents'[i].contents # <<>>
         /\ \/ worker' = "write" /\ output' \in Text /\ output' # <<>>
            \/ worker' = "aborted" /\ UNCHANGED output
<1> USE DEF SessionInv
<1>1. \A i \in 1 .. commandTable[name] : args[i] \in Text
  BY ArgumentsAreTexts, ArgumentsCounted
<1>2. CASE name = "add"
  <2>1. args[1] \in Text /\ args[2] \in Text
    BY <1>1, <1>2, ArgumentsCounted
  <2>2. serverAddDocument(args[1], args[2])
    BY <1>2 DEF run
  <2>3. CASE BreaksOff(args[2])
    BY <2>2, <2>3 DEF serverAddDocument, NothingIsEmpty
  <2>4. CASE ~ BreaksOff(args[2]) /\ jsonParse(args[2]) = <<>>
    BY <2>2, <2>4, AnswersAreTexts DEF serverAddDocument, Answer, NothingIsEmpty
  <2>5. CASE ~ BreaksOff(args[2]) /\ jsonParse(args[2]) # <<>>
    <3> DEFINE new == [key |-> args[1], contents |-> jsonParse(args[2])]
    <3>1. new \in Document
      BY <2>1, jsonParseIsText DEF Document
    <3>2. documents' = Append(documents, new) /\ Answer(Ok)
      BY <2>2, <2>5 DEF serverAddDocument
    <3>3. new.contents # <<>>
      BY <2>5
    <3> HIDE DEF new
    <3>4. documents' \in Seq(Document)
      BY <3>1, <3>2
    <3>5. \A i \in DOMAIN documents' :
            documents'[i] = new \/ (i \in DOMAIN documents /\ documents'[i] = documents[i])
      BY <3>1, <3>2, AppendRange
    <3> QED
      BY <3>2, <3>3, <3>4, <3>5, AnswersAreTexts DEF Answer, NothingIsEmpty
  <2> QED
    BY <2>3, <2>4, <2>5
<1>3. CASE name = "get"
  <2>1. serverGetDocumentContents(args[1])
    BY <1>3 DEF run
  <2>2. Find(args[1]) # 0 => Find(args[1]) \in DOMAIN documents
    BY FindIsIndex DEF Document
  <2>3. \A i \in DOMAIN documents : documents[i].contents \in Text /\ documents[i].contents # <<>>
    BY DEF NothingIsEmpty, TypeOK
  <2> QED
    BY <2>1, <2>2, <2>3, AnswersAreTexts DEF serverGetDocumentContents, Answer, NothingIsEmpty
<1>4. CASE name = "remove"
  <2>1. serverRemoveDocument(args[1])
    BY <1>4 DEF run
  <2>2. CASE Find(args[1]) = 0
    BY <2>1, <2>2, AnswersAreTexts DEF serverRemoveDocument, Answer, NothingIsEmpty
  <2>3. CASE Find(args[1]) # 0
    <3> DEFINE n == Find(args[1])
    <3>1. n \in 1 .. Len(documents)
      BY <2>3, FindIsIndex, LenProperties DEF Document
    <3>2. documents' = RemoveAt(documents, n) /\ Answer(Ok)
      BY <2>1, <2>3 DEF serverRemoveDocument
    <3> HIDE DEF n
    <3>3. /\ documents' \in Seq(Document)
          /\ \A i \in DOMAIN documents' : \E j \in DOMAIN documents : documents'[i] = documents[j]
      BY <3>1, <3>2, RemoveAtParts, RemoveAtRange
    <3> QED
      BY <3>2, <3>3, AnswersAreTexts DEF Answer, NothingIsEmpty
  <2> QED
    BY <2>2, <2>3
<1>5. CASE name \in {"start", "end"}
  <2>1. serverCollaborate(args[1])
    BY <1>5 DEF run
  <2> QED
    BY <2>1, AnswersAreTexts DEF serverCollaborate, Answer, NothingIsEmpty
<1>6. CASE name \notin {"add", "get", "remove", "start", "end"}
  BY <1>6, AnswersAreTexts DEF run, Answer, NothingIsEmpty
<1> QED
  BY <1>2, <1>3, <1>4, <1>5, <1>6

LEMMA serverRunCommandStep == SessionInv /\ serverRunCommand => SessionInv'
<1> SUFFICES ASSUME SessionInv, serverRunCommand PROVE SessionInv'
  OBVIOUS
<1> USE DEF SessionInv
<1> DEFINE text == Begin(skip(request))
<1>1. text \in Text
  BY FromIsText, BeginIsText DEF TypeOK, skip
<1>2. /\ documents' \in Seq(Document)
      /\ \A i \in DOMAIN documents' : documents'[i].contents # <<>>
      /\ \/ worker' = "write" /\ output' \in Text /\ output' # <<>>
         \/ worker' = "aborted" /\ UNCHANGED output
      /\ status' \in {"running", "undefined"}
  <2>1. CASE text # <<>> /\ Head(text) \in DOMAIN commandTable
    <3>1. Tail(text) \in Text
      BY <1>1, <2>1, HeadTailProperties DEF Text
    <3>2. PICK args \in parseArgs(Tail(text), commandTable[Head(text)]) : run(Head(text), args)
      BY <2>1 DEF serverRunCommand
    <3>3. status' = status
      BY <2>1 DEF serverRunCommand
    <3> HIDE DEF text
    <3> QED
      BY <2>1, <3>1, <3>2, <3>3, CommandAnswers DEF TypeOK
  <2>2. CASE ~ (text # <<>> /\ Head(text) \in DOMAIN commandTable)
    <3>1. Answer(serverInvalidCommand(text)) /\ documents' = documents
          /\ status' \in {"running", "undefined"}
      BY <2>2 DEF serverRunCommand
    <3> HIDE DEF text
    <3>2. <<"Invalid command">> \in Text /\ <<"nl">> \in Text /\ Word(text) \in Text
      BY <1>1, WordsArePieces, PiecesMakeTexts, WordIsText
    <3>3. <<"nl">> # <<>>
      BY WordsArePieces, PiecesMakeTexts
    <3> DEFINE front == <<"Invalid command">> \o Word(text)
    <3>4. front \in Seq(Pieces)
      BY <3>2, ConcatProperties DEF Text
    <3>5. serverInvalidCommand(text) = front \o <<"nl">>
      BY DEF serverInvalidCommand
    <3> HIDE DEF front
    <3>6. front \o <<"nl">> \in Seq(Pieces) /\ front \o <<"nl">> # <<>>
      <4>1. \A s, t \in Seq(Pieces) : s \o t \in Seq(Pieces) /\ (t # <<>> => s \o t # <<>>)
        BY ConcatProperties, ConcatEqualIffEmpty
      <4> QED
        BY <3>2, <3>3, <3>4, <4>1, Zenon DEF Text
    <3> QED
      BY <3>1, <3>5, <3>6 DEF Answer, NothingIsEmpty, Text
  <2> QED
    BY <2>1, <2>2
<1>3. /\ worker = "run"
      /\ UNCHANGED <<cliVars, toServer, toClient, request, split>>
  BY DEF serverRunCommand
<1> HIDE DEF text
<1>4. \A i \in DOMAIN documents' : documents'[i] \in [key : Text, contents : Text]
  BY <1>2, LenProperties, ElementOfSeq DEF Document
<1>5. TypeOK'
  BY <1>2, <1>3, <1>4 DEF TypeOK, cliVars
<1> QED
  BY <1>2, <1>3, <1>5 DEF NothingIsEmpty, ClientGoesOn, OneMessage,
                          NeverWaitsForNothing, cliVars

LEMMA NextSession == SessionInv /\ [Next]_vars => SessionInv'
<1> SUFFICES ASSUME SessionInv, [Next]_vars PROVE SessionInv'
  OBVIOUS
<1>1. CASE UNCHANGED vars
  BY <1>1 DEF vars, cliVars, workerVars, SessionInv, TypeOK, Document, NothingIsEmpty,
              ClientGoesOn, OneMessage, NeverWaitsForNothing
<1> QED
  BY <1>1, ReadLineStep, ReadEofStep, clientWriteStep, clientReadStep, clientReadEndStep,
     serverReadStep, serverRunCommandStep, serverWriteStep
     DEF Next, Client, Worker

-----------------------------------------------------------------------------
(* The theorems.                                                           *)

(* The invariant holds in every reachable state, for any lines, buffers    *)
(* and leftovers.                                                          *)
THEOREM SessionInvariance == Spec => []SessionInv
<1> QED
  BY InitSession, NextSession, PTL DEF Spec

(* Texts stay texts of known pieces and fit their buffers, wherever the    *)
(* reads split them and whatever strncpy leaves behind an argument.        *)
THEOREM SessionTypeCorrect == Spec => []TypeOK
<1>1. SessionInv => TypeOK
  BY DEF SessionInv
<1> QED
  BY <1>1, SessionInvariance, PTL

(* The client of src/cli.c never waits for an answer that nobody is going  *)
(* to send, and so the two ends never wait for each other: what is asked   *)
(* and what is answered is never empty.                                    *)
THEOREM NobodyWaitsForNothing == Spec => []NeverWaitsForNothing
<1>1. SessionInv => NeverWaitsForNothing
  BY DEF SessionInv
<1> QED
  BY <1>1, SessionInvariance, PTL

(* As long as every read() returns all there is, the answer that           *)
(* clientStart prints is the answer to the line it has just sent.          *)
THEOREM StaysInStep == Spec => []InStep
<1>1. SessionInv => InStep
  BY DEF SessionInv, OneMessage, InStep
<1> QED
  BY <1>1, SessionInvariance, PTL


=============================================================================
