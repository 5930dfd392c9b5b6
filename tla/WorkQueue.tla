------------------------------ MODULE WorkQueue ------------------------------
(***************************************************************************)
(* The connection pool of src/server.c: the main thread accepts            *)
(* connections and pushes them on the work queue, worker threads pop them  *)
(* and serve one client each until it hangs up.  The queue is protected by *)
(* a mutex and a condition variable; a connection is handed over in a      *)
(* Client struct that workQueuePop copies and frees.                       *)
(*                                                                         *)
(* Each action is a maximal piece of code between two points at which      *)
(* another thread can see or change what it uses.  The commands themselves *)
(* are not modelled here: to the pool a command is one answered request.   *)
(***************************************************************************)
EXTENDS Naturals, Sequences, FiniteSets

CONSTANTS
  Peers,      (* the remote ends; a peer holds one connection at a time    *)
  Workers,    (* the threads created by serverStart                        *)
  Fds,        (* the descriptors the process may have open for clients     *)
  Main,       (* the thread that runs serverStart                          *)
  Nobody,     (* the queue's mutex is free                                 *)
  NoPeer,     (* a descriptor that is not open                             *)
  NoClient    (* a client pointer that points to no struct                 *)

ASSUME PoolAssumption ==
  /\ IsFiniteSet(Workers)
  /\ Main \notin Workers
  /\ Nobody \notin Workers \cup {Main}
  /\ NoPeer \notin Peers

(* A Client struct: the descriptor it names and the thread whose call of   *)
(* clientCreate allocated it (Main in serverStart, a worker in clientCopy). *)
Client == [fd : Fds, by : Workers \cup {Main}]

(* Mutant: the descriptor is never stored.                                 *)
ClientUnset(fd, thread) == [fd |-> NoPeer, by |-> thread]

clientCreate(fd, thread) == [fd |-> fd, by |-> thread]

ASSUME NoClientAssumption == NoClient \notin Client

VARIABLES
  status,     (* "running", "aborted" by the allocator, "killed" by a      *)
              (* signal, "undefined" after a free of another owner's block *)
  peer,       (* what each remote end has done                             *)
  request,    (* the request of each peer that has no reply yet            *)
  backlog,    (* the kernel's queue of connections not accepted yet        *)
  open,       (* the descriptor table: the peer at the end of each socket  *)
  live,       (* the Client structs that are allocated                     *)
  lock,       (* the holder of workQueue->mutex                            *)
  queue,      (* workQueue->clients                                        *)
  mainPc,     (* where the main thread is                                  *)
  accepted,   (* the Client the main thread is pushing                     *)
  pc,         (* where each worker is                                      *)
  client      (* the Client each worker has popped                         *)

peerVars   == <<peer, request, backlog>>
mainVars   == <<mainPc, accepted>>
workerVars == <<pc, client>>
vars == <<status, peerVars, open, live, lock, queue, mainVars, workerVars>>

MainPcs == {"accept", "lock", "append", "signal", "unlock"}

WorkerPcs ==
  {"lock", "test", "sleep", "wait", "woken", "take", "unlock",
   "read", "reply", "close", "free", "closeFreed", "freeAgain"}

TypeOK ==
  /\ status \in {"running", "aborted", "killed", "undefined"}
  /\ peer \in [Peers -> {"away", "connected", "gone"}]
  /\ request \in [Peers -> {"none", "sent", "read"}]
  /\ backlog \in Seq(Peers)
  /\ open \in [Fds -> Peers \cup {NoPeer}]
  /\ live \in SUBSET Client
  /\ lock \in Workers \cup {Main, Nobody}
  /\ queue \in Seq(Client)
  /\ mainPc \in MainPcs
  /\ accepted \in Client \cup {NoClient}
  /\ pc \in [Workers -> WorkerPcs]
  /\ client \in [Workers -> Client \cup {NoClient}]

(* The listening socket is bound, the queue is empty and every worker      *)
(* thread has been created and is about to pop.                            *)
Init ==
  /\ status = "running"
  /\ peer = [p \in Peers |-> "away"]
  /\ request = [p \in Peers |-> "none"]
  /\ backlog = <<>>
  /\ open = [fd \in Fds |-> NoPeer]
  /\ live = {}
  /\ lock = Nobody
  /\ queue = <<>>
  /\ mainPc = "accept"
  /\ accepted = NoClient
  /\ pc = [w \in Workers |-> "lock"]
  /\ client = [w \in Workers |-> NoClient]

-----------------------------------------------------------------------------
(* The remote ends.  They are not bound to do anything.                    *)

(* listen(server.fd, server.maxClients): the kernel queues at most as many *)
(* connections as there are worker threads.                                *)
Connect(p) ==
  /\ status = "running"
  /\ peer[p] = "away"
  /\ Len(backlog) < Cardinality(Workers)
  /\ peer' = [peer EXCEPT ![p] = "connected"]
  /\ backlog' = Append(backlog, p)
  /\ UNCHANGED <<status, request, open, live, lock, queue, mainVars, workerVars>>

(* A client sends its next request when it has the reply to the last one.  *)
SendRequest(p) ==
  /\ status = "running"
  /\ peer[p] = "connected"
  /\ request[p] = "none"
  /\ request' = [request EXCEPT ![p] = "sent"]
  /\ UNCHANGED <<status, peer, backlog, open, live, lock, queue, mainVars, workerVars>>

(* It may go at any time, also in the backlog or with a request under way. *)
HangUp(p) ==
  /\ status = "running"
  /\ peer[p] = "connected"
  /\ peer' = [peer EXCEPT ![p] = "gone"]
  /\ UNCHANGED <<status, request, backlog, open, live, lock, queue, mainVars, workerVars>>

-----------------------------------------------------------------------------
(* The main thread: the accept loop of serverStart, and workQueuePush.     *)

MainAt(from, to) ==
  /\ status = "running"
  /\ mainPc = from
  /\ mainPc' = to

(* accept() takes the oldest connection and a free descriptor, and         *)
(* clientCreate wraps it.  With no descriptor left accept() fails and the  *)
(* loop tries again, which changes nothing.                                *)
Accept ==
  /\ MainAt("accept", "lock")
  /\ backlog # <<>>
  /\ \E fd \in Fds :
       /\ open[fd] = NoPeer
       /\ open' = [open EXCEPT ![fd] = Head(backlog)]
       /\ accepted' = clientCreate(fd, Main)
  /\ backlog' = Tail(backlog)
  /\ live' = live \cup {accepted'}
  /\ UNCHANGED <<status, peer, request, lock, queue, workerVars>>

PushLock ==
  /\ MainAt("lock", "append")
  /\ lock = Nobody
  /\ lock' = Main
  /\ UNCHANGED <<status, peerVars, open, live, queue, accepted, workerVars>>

(* Mutant: the newest connection is served first.                          *)
PushInFront ==
  /\ MainAt("append", "signal")
  /\ queue' = <<accepted>> \o queue
  /\ UNCHANGED <<status, peerVars, open, live, lock, accepted, workerVars>>

PushAppend ==
  /\ MainAt("append", "signal")
  /\ queue' = Append(queue, accepted)
  /\ UNCHANGED <<status, peerVars, open, live, lock, accepted, workerVars>>

Waiting == {w \in Workers : pc[w] = "wait"}

(* Mutant: only the client that ends the queue's emptiness is signalled.   *)
SignalFirstOnly ==
  /\ MainAt("signal", "unlock")
  /\ IF Waiting = {} \/ Len(queue) > 1
       THEN UNCHANGED pc
       ELSE \E w \in Waiting : pc' = [pc EXCEPT ![w] = "woken"]
  /\ UNCHANGED <<status, peerVars, open, live, lock, queue, accepted, client>>

(* condSignal wakes one of the threads that wait, if there is one.         *)
PushSignal ==
  /\ MainAt("signal", "unlock")
  /\ IF Waiting = {}
       THEN UNCHANGED pc
       ELSE \E w \in Waiting : pc' = [pc EXCEPT ![w] = "woken"]
  /\ UNCHANGED <<status, peerVars, open, live, lock, queue, accepted, client>>

PushUnlock ==
  /\ MainAt("unlock", "accept")
  /\ lock' = Nobody
  /\ accepted' = NoClient
  /\ UNCHANGED <<status, peerVars, open, live, queue, workerVars>>

-----------------------------------------------------------------------------
(* A worker thread: workQueuePop.                                          *)

WorkerAt(w, from, to) ==
  /\ status = "running"
  /\ pc[w] = from
  /\ pc' = [pc EXCEPT ![w] = to]

(* Mutant: if instead of while, a woken thread does not test again.        *)
PopLockUntested(w) ==
  /\ WorkerAt(w, "lock", "test") \/ WorkerAt(w, "woken", "take")
  /\ lock = Nobody
  /\ lock' = w
  /\ UNCHANGED <<status, peerVars, open, live, queue, mainVars, client>>

(* mutexLock at the start of workQueuePop, or inside condWait once woken.  *)
PopLock(w) ==
  /\ WorkerAt(w, "lock", "test") \/ WorkerAt(w, "woken", "test")
  /\ lock = Nobody
  /\ lock' = w
  /\ UNCHANGED <<status, peerVars, open, live, queue, mainVars, client>>

(* while (listLength(queue->clients) == 0)                                 *)
PopTest(w) ==
  /\ WorkerAt(w, "test", IF queue = <<>> THEN "sleep" ELSE "take")
  /\ UNCHANGED <<status, peerVars, open, live, lock, queue, mainVars, client>>

(* condWait releases the mutex and blocks in one step.                     *)
PopWait(w) ==
  /\ WorkerAt(w, "sleep", "wait")
  /\ lock' = Nobody
  /\ UNCHANGED <<status, peerVars, open, live, queue, mainVars, client>>

(* POSIX lets condWait return without a signal.                            *)
SpuriousWakeup(w) ==
  /\ WorkerAt(w, "wait", "woken")
  /\ UNCHANGED <<status, peerVars, open, live, lock, queue, mainVars, client>>

(* Mutant: the client popped is the one listRemove frees, not a copy.      *)
TakeUncopied(w) ==
  /\ WorkerAt(w, "take", "unlock")
  /\ queue # <<>>
  /\ client' = [client EXCEPT ![w] = Head(queue)]
  /\ queue' = Tail(queue)
  /\ live' = live \ {Head(queue)}
  /\ UNCHANGED <<status, peerVars, open, lock, mainVars>>

(* Mutant: the client popped stays in the queue.                           *)
TakeUnremoved(w) ==
  /\ WorkerAt(w, "take", "unlock")
  /\ queue # <<>>
  /\ client' = [client EXCEPT ![w] = clientCreate(Head(queue).fd, w)]
  /\ live' = live \cup {client'[w]}
  /\ UNCHANGED <<status, peerVars, open, lock, queue, mainVars>>

(* clientCopy of the first client, then listRemove, which frees it.        *)
PopTake(w) ==
  /\ WorkerAt(w, "take", "unlock")
  /\ queue # <<>>
  /\ client' = [client EXCEPT ![w] = clientCreate(Head(queue).fd, w)]
  /\ queue' = Tail(queue)
  /\ live' = (live \ {Head(queue)}) \cup {client'[w]}
  /\ UNCHANGED <<status, peerVars, open, lock, mainVars>>

PopUnlock(w) ==
  /\ WorkerAt(w, "unlock", "read")
  /\ lock' = Nobody
  /\ UNCHANGED <<status, peerVars, open, live, queue, mainVars, client>>

-----------------------------------------------------------------------------
(* A worker thread: handleClientRequest.                                   *)

(* NoPeer once another worker has closed the descriptor under this one:    *)
(* read() and write() then fail.  It may since be somebody else's.         *)
PeerOf(w) == open[client[w].fd]

Unreachable(w) == PeerOf(w) \in {NoPeer} \cup {p \in Peers : peer[p] = "gone"}

(* serverRead returns the bytes of a request.                              *)
ReadRequest(w) ==
  /\ WorkerAt(w, "read", "reply")
  /\ PeerOf(w) # NoPeer
  /\ request[PeerOf(w)] = "sent"
  /\ request' = [request EXCEPT ![PeerOf(w)] = "read"]
  /\ UNCHANGED <<status, peer, backlog, open, live, lock, queue, mainVars, client>>

(* serverRead returns 0 at the end of the stream, or -1 after a reset,     *)
(* which may also discard a request that was sent.                         *)
ReadEnd(w) ==
  /\ WorkerAt(w, "read", "close")
  /\ Unreachable(w)
  /\ UNCHANGED <<status, peerVars, open, live, lock, queue, mainVars, client>>

(* Mutant: a command without output is not replied to.                     *)
ReplyDropped(w) ==
  /\ WorkerAt(w, "reply", "read")
  /\ UNCHANGED <<status, peerVars, open, live, lock, queue, mainVars, client>>

(* serverRunCommand, and serverWrite takes the whole reply, for whoever is *)
(* at the other end by now.                                                *)
Reply(w) ==
  /\ WorkerAt(w, "reply", "read")
  /\ PeerOf(w) # NoPeer
  /\ request' = [request EXCEPT ![PeerOf(w)] = IF @ = "sent" THEN "sent" ELSE "none"]
  /\ UNCHANGED <<status, peer, backlog, open, live, lock, queue, mainVars, client>>

(* serverWrite returns -1: the peer is gone.  The branch frees the client  *)
(* and leaves the loop for the code that closes and frees it.              *)
ReplyFails(w) ==
  /\ WorkerAt(w, "reply", "closeFreed")
  /\ Unreachable(w)
  /\ live' = live \ {client[w]}
  /\ UNCHANGED <<status, peerVars, open, lock, queue, mainVars, client>>

(* Or write() raises SIGPIPE, whose default action ends the process.       *)
ReplyKills(w) ==
  /\ status = "running"
  /\ pc[w] = "reply"
  /\ PeerOf(w) \in {p \in Peers : peer[p] = "gone"}
  /\ status' = "killed"
  /\ UNCHANGED <<peerVars, open, live, lock, queue, mainVars, workerVars>>

(* The connection is over, if there is one: its peer can connect anew.     *)
CloseDescriptor(fd) ==
  /\ open' = [open EXCEPT ![fd] = NoPeer]
  /\ peer' = [p \in Peers |-> IF open[fd] = p THEN "away" ELSE peer[p]]
  /\ request' = [p \in Peers |-> IF open[fd] = p THEN "none" ELSE request[p]]

(* Mutant: what is closed is the oldest client in the queue.               *)
CloseHead(w) ==
  /\ WorkerAt(w, "close", "free")
  /\ CloseDescriptor(IF queue = <<>> THEN client[w].fd ELSE Head(queue).fd)
  /\ UNCHANGED <<status, backlog, live, lock, queue, mainVars, client>>

CloseClient(w) ==
  /\ WorkerAt(w, "close", "free")
  /\ CloseDescriptor(client[w].fd)
  /\ UNCHANGED <<status, backlog, live, lock, queue, mainVars, client>>

(* client->fd is read from freed memory.  Its bytes may still be there, or *)
(* those of whoever got the block since, which may name any descriptor, be *)
(* it the one in a Client of another peer, or none that close() knows.     *)
(* (Of the open descriptors only those of clients are modelled.)           *)
CloseFreed(w) ==
  /\ WorkerAt(w, "closeFreed", "freeAgain")
  /\ \/ \E fd \in Fds : CloseDescriptor(fd)
     \/ UNCHANGED <<open, peer, request>>
  /\ UNCHANGED <<status, backlog, live, lock, queue, mainVars, client>>

FreeClient(w) ==
  /\ WorkerAt(w, "free", "lock")
  /\ live' = live \ {client[w]}
  /\ client' = [client EXCEPT ![w] = NoClient]
  /\ UNCHANGED <<status, peerVars, open, lock, queue, mainVars>>

(* The second clientFree of the same struct: free() finds the block in its *)
(* free list and aborts the process, unless the block has been given out   *)
(* again.  Then it is freed under its new owner, which may be a Client,    *)
(* and what the program does from there is undefined; it is not followed.  *)
FreeAgain(w) ==
  /\ status = "running"
  /\ pc[w] = "freeAgain"
  /\ \/ status' = "aborted" /\ UNCHANGED live
     \/ status' = "undefined" /\ \E c \in live \cup {NoClient} : live' = live \ {c}
  /\ UNCHANGED <<peerVars, open, lock, queue, mainVars, workerVars>>

-----------------------------------------------------------------------------

MainStep == PushLock \/ PushAppend \/ PushSignal \/ PushUnlock

PopStep(w) == PopTest(w) \/ PopWait(w) \/ PopTake(w) \/ PopUnlock(w)

ServeStep(w) ==
  \/ ReadRequest(w)
  \/ ReadEnd(w)
  \/ Reply(w)
  \/ ReplyFails(w)
  \/ ReplyKills(w)
  \/ CloseClient(w)
  \/ CloseFreed(w)
  \/ FreeClient(w)
  \/ FreeAgain(w)

Next ==
  \/ \E p \in Peers : Connect(p) \/ SendRequest(p) \/ HangUp(p)
  \/ Accept
  \/ MainStep
  \/ \E w \in Workers : PopLock(w) \/ PopStep(w) \/ SpuriousWakeup(w) \/ ServeStep(w)

(* The scheduler runs every thread that can run, and a thread that keeps   *)
(* asking for the mutex gets it.  Nothing is assumed of the peers.         *)
Fairness ==
  /\ WF_vars(Accept)
  /\ SF_vars(MainStep)
  /\ \A w \in Workers : SF_vars(PopLock(w)) /\ WF_vars(PopStep(w)) /\ WF_vars(ServeStep(w))

Spec == Init /\ [][Next]_vars
FairSpec == Spec /\ Fairness
-----------------------------------------------------------------------------
(* Who holds a connection: the main thread until it has appended it, the   *)
(* queue, then the worker that popped it until it closes it.               *)

MainHolds == mainPc \in {"lock", "append"}

Serving == {w \in Workers : pc[w] \in {"unlock", "read", "reply", "close", "closeFreed"}}

Holders(fd) ==
  {<<"main", Main>> : x \in {y \in {1} : MainHolds /\ accepted.fd = fd}}
    \cup {<<"queue", i>> : i \in {j \in DOMAIN queue : queue[j].fd = fd}}
    \cup {<<"worker", w>> : w \in {v \in Serving : client[v].fd = fd}}

(* A descriptor read from freed memory may have been closed: from here     *)
(* until the process stops, in FreeAgain, a descriptor can be closed or    *)
(* reused under the thread that has it.                                    *)
Astray == \E w \in Workers : pc[w] = "freeAgain"

(* Workers on their way to the head of the queue.                          *)
Seeking == {w \in Workers : pc[w] \in {"lock", "woken", "test", "take"}}

-----------------------------------------------------------------------------
(* Safety.                                                                 *)

(* No lost wake-up: while a worker sleeps in condWait, every queued client *)
(* has another worker on its way to pop it, or the main thread about to    *)
(* signal for it.  (workQueuePush signals once per client, under the lock.) *)
NoStrandedClient ==
  Waiting # {} =>
    Len(queue) <= Cardinality(Seeking) + (IF mainPc = "signal" THEN 1 ELSE 0)

(* When workQueuePop leaves its while loop the queue still has a client,   *)
(* so the assertion of listGet(queue->clients, 0) cannot fail: what was    *)
(* tested is still so when it is used.                                     *)
TakeFindsClient ==
  \A w \in Workers : pc[w] = "take" => queue # <<>>

(* An open connection is held in exactly one place, a closed descriptor    *)
(* nowhere: the handover from accept() through the queue to a worker       *)
(* neither drops a connection nor serves it twice.  It holds until         *)
(* handleClientRequest, after a failed write, closes what it reads from    *)
(* the Client it has freed.                                                *)
OneHolder ==
  ~ Astray =>
    \A fd \in Fds : Cardinality(Holders(fd)) = (IF open[fd] = NoPeer THEN 0 ELSE 1)

(* The Client structs that somebody will free: the original until          *)
(* workQueuePop replaces it by its copy, the copy until                    *)
(* handleClientRequest frees it.                                           *)
OwnedClients ==
  {accepted : x \in {y \in {1} : MainHolds}}
    \cup {queue[i] : i \in DOMAIN queue}
    \cup {client[w] : w \in {v \in Workers :
            pc[v] \in {"unlock", "read", "reply", "close", "free"}}}

(* The Client structs that are allocated are those: none is leaked, and    *)
(* none that somebody still has is freed.  As OneHolder, until a close     *)
(* goes astray, after which two structs may name the same descriptor.      *)
NoClientLeak == ~ Astray => live = OwnedClients

(* The comment of clientFree: "Free an existing client."  What             *)
(* handleClientRequest passes to clientFree has not been freed.            *)
FreesExistingClient ==
  \A w \in Workers : pc[w] \in {"free", "freeAgain"} => client[w] \in live

(* The server only closes a connection whose peer has gone, although       *)
(* descriptors are reused as soon as they are closed; this, too, until a   *)
(* worker closes what it reads from a freed Client.                        *)
ClosesOnlyAfterHangUp ==
  [][~ Astray' =>
       \A fd \in Fds : open[fd] # NoPeer /\ open'[fd] = NoPeer => peer[open[fd]] = "gone"]_vars

(* Connections are served in order of arrival, each by one worker: the     *)
(* pool implements ConnService, which promises nothing once a close has    *)
(* gone astray.                                                            *)
PendingPeers ==
  [i \in 1 .. Len(queue) |-> open[queue[i].fd]]
    \o (IF MainHolds THEN <<open[accepted.fd]>> ELSE <<>>)
    \o backlog

ServedPeer == [w \in Workers |-> IF w \in Serving THEN PeerOf(w) ELSE NoPeer]

Service == INSTANCE ConnService WITH
  pending <- PendingPeers, served <- ServedPeer, broken <- Astray

ServesInOrder == Service!Spec

-----------------------------------------------------------------------------
(* Liveness, under Fairness.                                               *)

Queued(p) == \E i \in DOMAIN queue : open[queue[i].fd] = p

Stopped == status # "running"

(* A queued connection is popped, provided workers keep becoming free (a   *)
(* worker that serves a silent peer waits for it in read() without limit). *)
QueuedIsServed ==
  \A p \in Peers : []<>(Serving # Workers) => (Queued(p) ~> (~ Queued(p) \/ Stopped))

(* A request of a peer that a worker serves is answered, or the peer goes. *)
ServedIsAnswered ==
  \A p \in Peers :
    (\E w \in Workers : pc[w] = "read" /\ PeerOf(w) = p /\ request[p] = "sent")
      ~> (request[p] = "none" \/ Stopped)

=============================================================================
