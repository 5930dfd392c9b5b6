------------------------------ MODULE DocSpec ------------------------------
(***************************************************************************)
(* What the commands on the documents do for the clients of src/server.c,  *)
(* without threads, pointers or locks: each command takes effect at one    *)
(* instant between its arrival and its answer.  Documents added under one  *)
(* key queue up behind each other, and the commands see the oldest.        *)
(* Nothing is promised once an add or a remove has been run at the same    *)
(* time as another command.                                                *)
(***************************************************************************)
EXTENDS Integers, Sequences, SequencesExt

CONSTANTS
  Workers, Commands, Keys, Users, NoUser,
  Stored            (* the keys that have a document from the start        *)

VARIABLES
  store,            (* the collaborators of each document of a key, by age *)
  request,          (* what each worker is to do                           *)
  answer,           (* its result, once it has taken effect                *)
  overlapped        (* an add or a remove was not alone                    *)

vars == <<store, request, answer, overlapped>>

NoRequest == [cmd |-> "none", key |-> CHOOSE k \in Keys : TRUE, user |-> NoUser]

Init ==
  /\ store = [k \in Keys |-> IF k \in Stored THEN << <<>> >> ELSE <<>>]
  /\ request = [w \in Workers |-> NoRequest]
  /\ answer = [w \in Workers |-> "none"]
  /\ overlapped = FALSE

Request(w) ==
  /\ request[w] = NoRequest
  /\ \E c \in Commands, k \in Keys, u \in Users \cup {NoUser} :
       /\ (u = NoUser) <=> (c \notin {"start", "end"})
       /\ request' = [request EXCEPT ![w] = [cmd |-> c, key |-> k, user |-> u]]
  /\ UNCHANGED <<store, answer>>

(* An "add" whose contents do not parse adds nothing.                      *)
Reject(w) ==
  /\ request[w] = NoRequest
  /\ "add" \in Commands
  /\ \E k \in Keys :
       request' = [request EXCEPT ![w] = [cmd |-> "add", key |-> k, user |-> NoUser]]
  /\ answer' = [answer EXCEPT ![w] = "nil"]
  /\ UNCHANGED store

(* The command c of key k and user u turns docs, the documents of the key, *)
(* into Effect and is answered with Result.                                *)
Effect(c, docs, u) ==
  CASE c = "add"                     -> Append(docs, <<>>)
    [] c = "remove" /\ docs # <<>>   -> Tail(docs)
    [] c = "start"  /\ docs # <<>>   -> [docs EXCEPT ![1] = Append(@, u)]
    [] c = "end"    /\ docs # <<>>   -> [docs EXCEPT ![1] = RemoveFirst(@, u)]
    [] OTHER                         -> docs

Result(c, docs) ==
  IF c \in {"add", "remove"} THEN "ok"
  ELSE IF docs = <<>> THEN "nil"
  ELSE IF c = "get" THEN "contents"
  ELSE "ok"

Execute(w) ==
  LET r == request[w] IN
  /\ r # NoRequest /\ answer[w] = "none"
  /\ store' = [store EXCEPT ![r.key] = Effect(r.cmd, @, r.user)]
  /\ answer' = [answer EXCEPT ![w] = Result(r.cmd, store[r.key])]
  /\ UNCHANGED request

Respond(w) ==
  /\ answer[w] # "none"
  /\ request' = [request EXCEPT ![w] = NoRequest]
  /\ answer' = [answer EXCEPT ![w] = "none"]
  /\ UNCHANGED store

Next == \E w \in Workers : Request(w) \/ Reject(w) \/ Execute(w) \/ Respond(w)

(* From then on anything may happen.                                       *)
Break == overlapped'

Spec == Init /\ [][(Next /\ UNCHANGED overlapped) \/ Break]_vars

=============================================================================
