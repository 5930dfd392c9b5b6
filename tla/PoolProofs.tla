----------------------------- MODULE PoolProofs -----------------------------
(***************************************************************************)
(* Proofs about the pool of WorkQueue, for any set of peers, any number of *)
(* workers and any descriptor table.  First that the pool is type correct, *)
(* that what a worker tests under the mutex still holds when it pops, and  *)
(* that no wake-up is lost; the last two need mutual exclusion, which is   *)
(* proved with them.  Then who holds what: an open connection has one      *)
(* holder, the Client structs that are allocated are those somebody will   *)
(* free, and a connection is closed only when its peer has gone; all three *)
(* rest on one invariant about ownership, which holds until a worker       *)
(* closes what it reads from a freed Client.  Last that the pool           *)
(* implements ConnService: until then each of its steps is a peer's        *)
(* arrival, the oldest connection taken by an idle worker, the end of a    *)
(* connection, or nothing that a peer can tell.                            *)
(***************************************************************************)
EXTENDS WorkQueue, FiniteSetTheorems, SequenceTheorems, TLAPS

-----------------------------------------------------------------------------
(* Who holds the mutex: the inductive invariant behind wake-ups.           *)

Critical(w)  == pc[w] \in {"test", "sleep", "take", "unlock"}
MainCritical == mainPc \in {"append", "signal", "unlock"}

(* The mutex is held by exactly the thread that runs between a lock and    *)
(* the matching unlock or wait.                                            *)
MutualExclusion ==
  /\ \A w \in Workers : Critical(w) <=> lock = w
  /\ MainCritical <=> lock = Main

(* The client being pushed is a Client struct.                             *)
AcceptedIsClient == MainHolds => accepted \in Client

(* A worker only decides to wait on an empty queue.                        *)
SleepFindsEmpty == \A w \in Workers : pc[w] = "sleep" => queue = <<>>

CoreInv ==
  /\ TypeOK
  /\ AcceptedIsClient
  /\ MutualExclusion
  /\ SleepFindsEmpty
  /\ TakeFindsClient

IInv == CoreInv /\ NoStrandedClient

-----------------------------------------------------------------------------
(* The state the server starts in satisfies the invariant: every worker is *)
(* on its way to the queue and nobody waits.                               *)
LEMMA InitIInv == Init => IInv
<1> SUFFICES ASSUME Init PROVE IInv
  OBVIOUS
<1>1. TypeOK
  BY PoolAssumption DEF Init, TypeOK, MainPcs, WorkerPcs
<1>2. AcceptedIsClient /\ SleepFindsEmpty /\ TakeFindsClient
  BY DEF Init, AcceptedIsClient, MainHolds, SleepFindsEmpty, TakeFindsClient
<1>3. MutualExclusion
  BY PoolAssumption DEF Init, MutualExclusion, Critical, MainCritical
<1>4. NoStrandedClient
  BY DEF Init, NoStrandedClient, Waiting
<1> QED
  BY <1>1, <1>2, <1>3, <1>4 DEF IInv, CoreInv

(* Steps of the remote ends do not touch what the threads share.           *)
LEMMA PeerStepCore ==
  ASSUME CoreInv, NEW p \in Peers, Connect(p) \/ SendRequest(p) \/ HangUp(p)
  PROVE  CoreInv'
<1>1. TypeOK'
  <2>1. CASE Connect(p)
    BY <2>1 DEF CoreInv, TypeOK, Connect, mainVars, workerVars
  <2>2. CASE SendRequest(p)
    BY <2>2 DEF CoreInv, TypeOK, SendRequest, mainVars, workerVars
  <2>3. CASE HangUp(p)
    BY <2>3 DEF CoreInv, TypeOK, HangUp, mainVars, workerVars
  <2> QED
    BY <2>1, <2>2, <2>3
<1>2. AcceptedIsClient' /\ MutualExclusion' /\ SleepFindsEmpty' /\ TakeFindsClient'
  BY DEF CoreInv, AcceptedIsClient, MainHolds, MutualExclusion, Critical, MainCritical,
         SleepFindsEmpty, TakeFindsClient, Connect, SendRequest, HangUp, mainVars, workerVars
<1> QED
  BY <1>1, <1>2 DEF CoreInv

(* Steps of the main thread: it appends only while it holds the mutex, so  *)
(* no worker is between its test and its wait.                             *)
LEMMA MainStepCore ==
  ASSUME CoreInv, Accept \/ MainStep
  PROVE  CoreInv'
<1> USE PoolAssumption
<1>1. CASE Accept
  <2>1. accepted' \in Client
    BY <1>1 DEF Accept, Client, clientCreate
  <2>2. TypeOK'
    BY <1>1, <2>1 DEF CoreInv, TypeOK, Accept, MainAt, MainPcs, workerVars
  <2>3. AcceptedIsClient' /\ MutualExclusion' /\ SleepFindsEmpty' /\ TakeFindsClient'
    BY <1>1, <2>1 DEF CoreInv, AcceptedIsClient, MutualExclusion, Critical, MainCritical,
         SleepFindsEmpty, TakeFindsClient, Accept, MainAt, workerVars
  <2> QED
    BY <2>2, <2>3 DEF CoreInv
<1>2. CASE PushLock
  <2>1. TypeOK'
    BY <1>2 DEF CoreInv, TypeOK, PushLock, MainAt, MainPcs, peerVars, workerVars
  <2>2. AcceptedIsClient' /\ MutualExclusion' /\ SleepFindsEmpty' /\ TakeFindsClient'
    BY <1>2 DEF CoreInv, TypeOK, AcceptedIsClient, MainHolds, MutualExclusion, Critical,
         MainCritical, SleepFindsEmpty, TakeFindsClient, PushLock, MainAt, workerVars
  <2> QED
    BY <2>1, <2>2 DEF CoreInv
<1>3. CASE PushAppend
  <2>1. accepted \in Client /\ lock = Main
    BY <1>3 DEF CoreInv, AcceptedIsClient, MainHolds, MutualExclusion, MainCritical,
         PushAppend, MainAt
  <2>2. queue' \in Seq(Client) /\ queue' # <<>>
    BY <1>3, <2>1 DEF CoreInv, TypeOK, PushAppend
  <2>3. TypeOK'
    BY <1>3, <2>2 DEF CoreInv, TypeOK, PushAppend, MainAt, MainPcs, peerVars, workerVars
  <2>4. \A w \in Workers : pc[w] # "sleep"
    BY <2>1 DEF CoreInv, MutualExclusion, Critical
  <2>5. AcceptedIsClient' /\ MutualExclusion' /\ SleepFindsEmpty' /\ TakeFindsClient'
    BY <1>3, <2>2, <2>4 DEF CoreInv, AcceptedIsClient, MainHolds, MutualExclusion, Critical,
         MainCritical, SleepFindsEmpty, TakeFindsClient, PushAppend, MainAt, workerVars
  <2> QED
    BY <2>3, <2>5 DEF CoreInv
<1>4. CASE PushSignal
  <2>1. TypeOK'
    BY <1>4 DEF CoreInv, TypeOK, PushSignal, MainAt, MainPcs, WorkerPcs, Waiting, peerVars
  <2>2. AcceptedIsClient'
    BY <1>4 DEF AcceptedIsClient, MainHolds, PushSignal, MainAt
  <2>3. \A w \in Workers : pc'[w] = pc[w] \/ (pc[w] = "wait" /\ pc'[w] = "woken")
    BY <1>4 DEF CoreInv, TypeOK, PushSignal, Waiting
  <2>4. MutualExclusion' /\ SleepFindsEmpty' /\ TakeFindsClient'
    BY <1>4, <2>3 DEF CoreInv, MutualExclusion, Critical, MainCritical, SleepFindsEmpty,
         TakeFindsClient, PushSignal, MainAt
  <2> QED
    BY <2>1, <2>2, <2>4 DEF CoreInv
<1>5. CASE PushUnlock
  <2>1. TypeOK'
    BY <1>5 DEF CoreInv, TypeOK, PushUnlock, MainAt, MainPcs, peerVars, workerVars
  <2>2. AcceptedIsClient' /\ MutualExclusion' /\ SleepFindsEmpty' /\ TakeFindsClient'
    BY <1>5 DEF CoreInv, TypeOK, AcceptedIsClient, MainHolds, MutualExclusion, Critical,
         MainCritical, SleepFindsEmpty, TakeFindsClient, PushUnlock, MainAt, workerVars
  <2> QED
    BY <2>1, <2>2 DEF CoreInv
<1> QED
  BY <1>1, <1>2, <1>3, <1>4, <1>5 DEF MainStep

(* Steps of a worker in workQueuePop: the queue only shrinks under the      *)
(* mutex, so it is as long at listGet as it was at the test.               *)
LEMMA PopStepCore ==
  ASSUME CoreInv, NEW w \in Workers, PopLock(w) \/ PopStep(w) \/ SpuriousWakeup(w)
  PROVE  CoreInv'
<1> USE PoolAssumption
<1>1. CASE PopLock(w)
  <2>1. TypeOK'
    BY <1>1 DEF CoreInv, TypeOK, PopLock, WorkerAt, WorkerPcs, peerVars, mainVars
  <2>2. AcceptedIsClient' /\ MutualExclusion' /\ SleepFindsEmpty' /\ TakeFindsClient'
    BY <1>1 DEF CoreInv, TypeOK, AcceptedIsClient, MainHolds, MutualExclusion, Critical,
         MainCritical, SleepFindsEmpty, TakeFindsClient, PopLock, WorkerAt, mainVars
  <2> QED
    BY <2>1, <2>2 DEF CoreInv
<1>2. CASE PopTest(w)
  <2>1. TypeOK'
    BY <1>2 DEF CoreInv, TypeOK, PopTest, WorkerAt, WorkerPcs, peerVars, mainVars
  <2>2. AcceptedIsClient' /\ MutualExclusion' /\ SleepFindsEmpty' /\ TakeFindsClient'
    BY <1>2 DEF CoreInv, TypeOK, AcceptedIsClient, MainHolds, MutualExclusion, Critical,
         MainCritical, SleepFindsEmpty, TakeFindsClient, PopTest, WorkerAt, mainVars
  <2> QED
    BY <2>1, <2>2 DEF CoreInv
<1>3. CASE PopWait(w)
  <2>1. TypeOK'
    BY <1>3 DEF CoreInv, TypeOK, PopWait, WorkerAt, WorkerPcs, peerVars, mainVars
  <2>2. AcceptedIsClient' /\ MutualExclusion' /\ SleepFindsEmpty' /\ TakeFindsClient'
    BY <1>3 DEF CoreInv, TypeOK, AcceptedIsClient, MainHolds, MutualExclusion, Critical,
         MainCritical, SleepFindsEmpty, TakeFindsClient, PopWait, WorkerAt, mainVars
  <2> QED
    BY <2>1, <2>2 DEF CoreInv
<1>4. CASE PopTake(w)
  <2>1. Head(queue) \in Client /\ Tail(queue) \in Seq(Client)
    BY <1>4 DEF CoreInv, TypeOK, PopTake
  <2>2. clientCreate(Head(queue).fd, w) \in Client
    BY <2>1 DEF Client, clientCreate
  <2>3. client' \in [Workers -> Client \cup {NoClient}] /\ live' \in SUBSET Client
    BY <1>4, <2>1, <2>2 DEF CoreInv, TypeOK, PopTake
  <2>4. TypeOK'
    BY <1>4, <2>1, <2>3 DEF CoreInv, TypeOK, PopTake, WorkerAt, WorkerPcs, peerVars, mainVars
  <2>5. \A v \in Workers : v # w => pc[v] \notin {"sleep", "take"}
    BY <1>4 DEF CoreInv, MutualExclusion, Critical, PopTake, WorkerAt
  <2>6. AcceptedIsClient' /\ MutualExclusion' /\ SleepFindsEmpty' /\ TakeFindsClient'
    BY <1>4, <2>5 DEF CoreInv, TypeOK, AcceptedIsClient, MainHolds, MutualExclusion, Critical,
         MainCritical, SleepFindsEmpty, TakeFindsClient, PopTake, WorkerAt, mainVars
  <2> QED
    BY <2>4, <2>6 DEF CoreInv
<1>5. CASE PopUnlock(w)
  <2>1. TypeOK'
    BY <1>5 DEF CoreInv, TypeOK, PopUnlock, WorkerAt, WorkerPcs, peerVars, mainVars
  <2>2. AcceptedIsClient' /\ MutualExclusion' /\ SleepFindsEmpty' /\ TakeFindsClient'
    BY <1>5 DEF CoreInv, TypeOK, AcceptedIsClient, MainHolds, MutualExclusion, Critical,
         MainCritical, SleepFindsEmpty, TakeFindsClient, PopUnlock, WorkerAt, mainVars
  <2> QED
    BY <2>1, <2>2 DEF CoreInv
<1>6. CASE SpuriousWakeup(w)
  <2>1. TypeOK'
    BY <1>6 DEF CoreInv, TypeOK, SpuriousWakeup, WorkerAt, WorkerPcs, peerVars, mainVars
  <2>2. AcceptedIsClient' /\ MutualExclusion' /\ SleepFindsEmpty' /\ TakeFindsClient'
    BY <1>6 DEF CoreInv, TypeOK, AcceptedIsClient, MainHolds, MutualExclusion, Critical,
         MainCritical, SleepFindsEmpty, TakeFindsClient, SpuriousWakeup, WorkerAt, mainVars
  <2> QED
    BY <2>1, <2>2 DEF CoreInv
<1> QED
  BY <1>1, <1>2, <1>3, <1>4, <1>5, <1>6 DEF PopStep

(* Steps of a worker that serves a client: it does not hold the mutex and  *)
(* does not touch the queue.                                               *)
LEMMA ServeStepCore ==
  ASSUME CoreInv, NEW w \in Workers, ServeStep(w)
  PROVE  CoreInv'
<1> USE PoolAssumption
<1> DEFINE Apart == {"read", "reply", "close", "free", "closeFreed", "freeAgain"}
<1>1. UNCHANGED <<lock, queue, mainPc, accepted>>
  BY DEF ServeStep, ReadRequest, ReadEnd, Reply, ReplyFails, ReplyKills, CloseClient, CloseFreed,
         FreeClient, FreeAgain, mainVars
<1>2. /\ \A v \in Workers : v # w => pc'[v] = pc[v]
      /\ pc[w] \in Apart
      /\ pc'[w] \in Apart \cup {"lock"}
      /\ pc' \in [Workers -> WorkerPcs]
  BY DEF CoreInv, TypeOK, ServeStep, ReadRequest, ReadEnd, Reply, ReplyFails, ReplyKills,
         CloseClient, CloseFreed, FreeClient, FreeAgain, WorkerAt, WorkerPcs, workerVars
<1>3. AcceptedIsClient' /\ MutualExclusion' /\ SleepFindsEmpty' /\ TakeFindsClient'
  BY <1>1, <1>2 DEF CoreInv, AcceptedIsClient, MainHolds, MutualExclusion, Critical,
         MainCritical, SleepFindsEmpty, TakeFindsClient
<1>4. /\ status' \in {"running", "aborted", "killed", "undefined"}
      /\ peer' \in [Peers -> {"away", "connected", "gone"}]
      /\ request' \in [Peers -> {"none", "sent", "read"}]
      /\ backlog' \in Seq(Peers)
      /\ open' \in [Fds -> Peers \cup {NoPeer}]
  BY DEF CoreInv, TypeOK, ServeStep, ReadRequest, ReadEnd, Reply, ReplyFails, ReplyKills,
         CloseClient, CloseFreed, FreeClient, FreeAgain, CloseDescriptor, WorkerAt, peerVars
<1>5. live' \in SUBSET Client /\ client' \in [Workers -> Client \cup {NoClient}]
  BY DEF CoreInv, TypeOK, ServeStep, ReadRequest, ReadEnd, Reply, ReplyFails, ReplyKills,
         CloseClient, CloseFreed, FreeClient, FreeAgain, WorkerAt, workerVars
<1>6. TypeOK'
  BY <1>1, <1>2, <1>4, <1>5 DEF CoreInv, TypeOK
<1> QED
  BY <1>3, <1>6 DEF CoreInv

LEMMA NextCore == CoreInv /\ [Next]_vars => CoreInv'
<1> SUFFICES ASSUME CoreInv, [Next]_vars PROVE CoreInv'
  OBVIOUS
<1>1. CASE UNCHANGED vars
  BY <1>1 DEF vars, peerVars, mainVars, workerVars, CoreInv, TypeOK, AcceptedIsClient, MainHolds,
         MutualExclusion, Critical, MainCritical, SleepFindsEmpty, TakeFindsClient
<1> QED
  BY <1>1, PeerStepCore, MainStepCore, PopStepCore, ServeStepCore DEF Next

-----------------------------------------------------------------------------
(* No wake-up is lost.                                                     *)

(* The seekers are finitely many, so they can be counted.                  *)
LEMMA SeekingFinite ==
  /\ IsFiniteSet(Seeking) /\ Cardinality(Seeking) \in Nat
  /\ IsFiniteSet(Seeking') /\ Cardinality(Seeking') \in Nat
BY PoolAssumption, FS_Subset, FS_CardinalityType DEF Seeking

LEMMA SeekingGrows ==
  ASSUME Seeking \subseteq Seeking'
  PROVE  Cardinality(Seeking) <= Cardinality(Seeking')
BY SeekingFinite, FS_Subset

(* One action of a worker moves at most that worker.                       *)
LEMMA OthersStay ==
  ASSUME CoreInv, NEW w \in Workers,
         PopLock(w) \/ PopStep(w) \/ SpuriousWakeup(w) \/ ServeStep(w)
  PROVE  /\ \A v \in Workers : v # w => pc'[v] = pc[v]
         /\ pc' = [pc EXCEPT ![w] = pc'[w]]
         /\ mainPc' = mainPc
<1>1. CASE PopLock(w) \/ PopStep(w) \/ SpuriousWakeup(w)
  BY <1>1 DEF CoreInv, TypeOK, PopLock, PopStep, PopTest, PopWait, PopTake, PopUnlock,
              SpuriousWakeup, WorkerAt, mainVars
<1>2. CASE ServeStep(w)
  BY <1>2 DEF CoreInv, TypeOK, ServeStep, ReadRequest, ReadEnd, Reply, ReplyFails, ReplyKills,
              CloseClient, CloseFreed, FreeClient, FreeAgain, WorkerAt, mainVars, workerVars
<1> QED
  BY <1>1, <1>2

(* The queue grows only with the debt of a signal, which is paid by waking *)
(* a waiter, if there is one.                                              *)
LEMMA MainStepStranded ==
  ASSUME IInv, Accept \/ MainStep
  PROVE  NoStrandedClient'
<1> USE DEF IInv, CoreInv
<1>1. CASE Accept \/ PushLock \/ PushUnlock
  <2>1. /\ pc' = pc /\ queue' = queue
        /\ mainPc # "signal" /\ mainPc' # "signal"
    BY <1>1 DEF Accept, PushLock, PushUnlock, MainAt, workerVars
  <2> QED
    BY <2>1, SeekingFinite DEF NoStrandedClient, Waiting, Seeking
<1>2. CASE PushAppend
  <2>1. /\ pc' = pc /\ mainPc # "signal" /\ mainPc' = "signal"
        /\ queue' = Append(queue, accepted)
    BY <1>2 DEF PushAppend, MainAt, workerVars
  <2>2. Len(queue') = Len(queue) + 1 /\ Len(queue) \in Nat
    BY <2>1 DEF TypeOK
  <2>3. Seeking' = Seeking /\ Waiting' = Waiting
    BY <2>1 DEF Seeking, Waiting
  <2> QED
    BY <2>1, <2>2, <2>3, SeekingFinite DEF NoStrandedClient
<1>3. CASE PushSignal
  <2>1. queue' = queue /\ mainPc = "signal" /\ mainPc' # "signal" /\ Len(queue) \in Nat
    BY <1>3 DEF PushSignal, MainAt, TypeOK
  <2>2. CASE Waiting = {}
    <3>1. Waiting' = {}
      BY <1>3, <2>2 DEF PushSignal, Waiting
    <3> QED
      BY <3>1 DEF NoStrandedClient
  <2>3. CASE Waiting # {}
    <3>1. PICK w \in Waiting : pc' = [pc EXCEPT ![w] = "woken"]
      BY <1>3, <2>3 DEF PushSignal
    <3>2. w \notin Seeking /\ Seeking' = Seeking \cup {w}
      BY <3>1 DEF TypeOK, Waiting, Seeking
    <3>3. Cardinality(Seeking') = Cardinality(Seeking) + 1
      BY <3>2, SeekingFinite, FS_AddElement
    <3> QED
      BY <2>1, <2>3, <3>3, SeekingFinite DEF NoStrandedClient
  <2> QED
    BY <2>2, <2>3
<1> QED
  BY <1>1, <1>2, <1>3 DEF MainStep

(* A worker leaves the seekers either with a client or having found the    *)
(* queue empty, and joins them again when it has served its client.        *)
LEMMA WorkerStepStranded ==
  ASSUME IInv, NEW w \in Workers,
         PopLock(w) \/ PopStep(w) \/ SpuriousWakeup(w) \/ ServeStep(w)
  PROVE  NoStrandedClient'
<1> USE DEF IInv, CoreInv
<1>1. /\ \A v \in Workers : v # w => pc'[v] = pc[v]
      /\ pc' = [pc EXCEPT ![w] = pc'[w]]
      /\ mainPc' = mainPc
  BY OthersStay
<1>2. CASE PopTake(w)
  <2>1. queue # <<>> /\ queue' = Tail(queue) /\ pc[w] = "take" /\ pc'[w] = "unlock"
    BY <1>2 DEF PopTake, WorkerAt, TypeOK
  <2>2. Len(queue') = Len(queue) - 1 /\ Len(queue) \in Nat
    BY <2>1 DEF TypeOK
  <2>3. w \in Seeking /\ Seeking' = Seeking \ {w} /\ Waiting' = Waiting
    BY <1>1, <2>1 DEF Seeking, Waiting
  <2>4. Cardinality(Seeking') = Cardinality(Seeking) - 1
    BY <2>3, SeekingFinite, FS_RemoveElement
  <2> QED
    BY <1>1, <2>2, <2>3, <2>4, SeekingFinite DEF NoStrandedClient
<1>3. CASE PopTest(w) /\ pc'[w] = "sleep"
  <2>1. queue = <<>> /\ queue' = queue
    BY <1>3 DEF PopTest, WorkerAt, TypeOK
  <2> QED
    BY <2>1, SeekingFinite DEF NoStrandedClient
<1>4. CASE PopWait(w)
  <2>1. queue = <<>> /\ queue' = queue
    BY <1>4 DEF PopWait, WorkerAt, SleepFindsEmpty
  <2> QED
    BY <2>1, SeekingFinite DEF NoStrandedClient
<1>5. CASE \/ PopLock(w) \/ PopUnlock(w) \/ SpuriousWakeup(w) \/ ServeStep(w)
           \/ (PopTest(w) /\ pc'[w] # "sleep")
  <2>1. queue' = queue
    BY <1>5 DEF PopLock, PopUnlock, SpuriousWakeup, PopTest, ServeStep, ReadRequest, ReadEnd,
                Reply, ReplyFails, ReplyKills, CloseClient, CloseFreed, FreeClient, FreeAgain
  <2>2. /\ pc'[w] # "wait"
        /\ w \in Seeking => w \in Seeking'
    BY <1>5 DEF TypeOK, Seeking, PopLock, PopUnlock, SpuriousWakeup, PopTest, ServeStep,
                ReadRequest, ReadEnd, Reply, ReplyFails, ReplyKills, CloseClient, CloseFreed,
                FreeClient, FreeAgain, WorkerAt, workerVars
  <2>3. Seeking \subseteq Seeking' /\ Waiting' \subseteq Waiting
    BY <1>1, <2>2 DEF Seeking, Waiting
  <2> QED
    BY <1>1, <2>1, <2>3, SeekingGrows, SeekingFinite DEF NoStrandedClient, TypeOK
<1> QED
  BY <1>2, <1>3, <1>4, <1>5 DEF PopStep

LEMMA NextIInv == IInv /\ [Next]_vars => IInv'
<1> SUFFICES ASSUME IInv, [Next]_vars PROVE NoStrandedClient'
  BY NextCore DEF IInv
<1>1. CASE UNCHANGED <<vars>>
  BY <1>1 DEF vars, mainVars, workerVars, IInv, NoStrandedClient, Waiting, Seeking
<1>2. ASSUME NEW p \in Peers, Connect(p) \/ SendRequest(p) \/ HangUp(p)
      PROVE  NoStrandedClient'
  BY <1>2 DEF Connect, SendRequest, HangUp, mainVars, workerVars,
              IInv, NoStrandedClient, Waiting, Seeking
<1> QED
  BY <1>1, <1>2, MainStepStranded, WorkerStepStranded DEF Next

-----------------------------------------------------------------------------
(* Whatever main thread, workers and peers do, the queue's mutex excludes, *)
(* and nobody sleeps on a client.                                          *)
THEOREM Invariance == Spec => []IInv
BY InitIInv, NextIInv, PTL DEF Spec

(* Every variable keeps its type, with any number of peers and workers.    *)
THEOREM TypeCorrect == Spec => []TypeOK
BY Invariance, PTL DEF IInv, CoreInv

(* The assertion of listGet in workQueuePop never fails: the while loop    *)
(* around condWait and the mutex make the test and the use one.            *)
THEOREM TakeIsSafe == Spec => []TakeFindsClient
BY Invariance, PTL DEF IInv, CoreInv

(* workQueuePush and workQueuePop lose no wake-up, however many threads    *)
(* wait and whatever spurious wake-ups occur.                              *)
THEOREM NoLostWakeup == Spec => []NoStrandedClient
BY Invariance, PTL DEF IInv

-----------------------------------------------------------------------------
(* Who holds what: the inductive invariant of ownership.                   *)

(* The workers with a Client of their own.                                 *)
Owns(w) ==
  pc[w] \in {"unlock", "read", "reply", "close", "free", "closeFreed", "freeAgain"}

(* Clients that wait were created by the main thread, the others by the    *)
(* worker that has them: no two structs are ever the same.                 *)
StructsNamed ==
  /\ MainHolds => accepted.by = Main
  /\ \A i \in DOMAIN queue : queue[i].by = Main
  /\ \A w \in Workers : Owns(w) => client[w] \in Client /\ client[w].by = w

(* No two clients that are queued, about to be queued or being served have *)
(* the same descriptor.                                                    *)
HeldApart ==
  /\ \A i, j \in DOMAIN queue : queue[i].fd = queue[j].fd => i = j
  /\ MainHolds => \A i \in DOMAIN queue : queue[i].fd # accepted.fd
  /\ \A w \in Serving :
       /\ \A v \in Serving : client[v].fd = client[w].fd => v = w
       /\ \A i \in DOMAIN queue : queue[i].fd # client[w].fd
       /\ MainHolds => accepted.fd # client[w].fd

(* Their descriptors are open.                                             *)
HeldOpen ==
  /\ MainHolds => open[accepted.fd] # NoPeer
  /\ \A i \in DOMAIN queue : open[queue[i].fd] # NoPeer
  /\ \A w \in Serving : PeerOf(w) # NoPeer

(* And every open descriptor is one of theirs.                             *)
OpenHeld ==
  \A fd \in Fds : open[fd] # NoPeer =>
    \/ MainHolds /\ accepted.fd = fd
    \/ \E i \in DOMAIN queue : queue[i].fd = fd
    \/ \E w \in Serving : client[w].fd = fd

(* A peer has one connection: one descriptor, or one place in the backlog. *)
PeersApart ==
  /\ \A f, g \in Fds : open[f] # NoPeer /\ open[f] = open[g] => f = g
  /\ \A i, j \in DOMAIN backlog : backlog[i] = backlog[j] => i = j
  /\ \A i \in DOMAIN backlog, f \in Fds : open[f] # backlog[i]

(* A peer that is away has none.                                           *)
AwayIsNowhere ==
  \A p \in Peers : peer[p] = "away" =>
    /\ \A i \in DOMAIN backlog : backlog[i] # p
    /\ \A f \in Fds : open[f] # p

(* A worker about to close has seen that the peer has gone.                *)
ClosesGone ==
  \A w \in Workers : pc[w] \in {"close", "closeFreed"} => peer[PeerOf(w)] = "gone"

(* The structs that are allocated are those that somebody will free.       *)
Balanced == live = OwnedClients

OwnInv ==
  /\ StructsNamed
  /\ HeldApart
  /\ HeldOpen
  /\ OpenHeld
  /\ PeersApart
  /\ AwayIsNowhere
  /\ ClosesGone
  /\ Balanced

-----------------------------------------------------------------------------
(* At the start nothing is open, queued or allocated.                      *)
LEMMA InitOwn == Init => OwnInv
<1> SUFFICES ASSUME Init PROVE OwnInv
  OBVIOUS
<1>1. ~ MainHolds /\ queue = <<>> /\ Serving = {} /\ \A w \in Workers : ~ Owns(w)
  BY DEF Init, MainHolds, Serving, Owns
<1>2. StructsNamed /\ HeldApart /\ HeldOpen /\ OpenHeld
  BY <1>1 DEF Init, StructsNamed, HeldApart, HeldOpen, OpenHeld
<1>3. PeersApart /\ AwayIsNowhere /\ ClosesGone
  BY PoolAssumption DEF Init, PeersApart, AwayIsNowhere, ClosesGone
<1>4. Balanced
  BY <1>1 DEF Init, Balanced, OwnedClients, MainHolds
<1> QED
  BY <1>2, <1>3, <1>4 DEF OwnInv

(* Steps that move no connection: the worker that steps stays without a    *)
(* Client, or goes on serving the one it has.                              *)
LEMMA QuietStep ==
  ASSUME OwnInv,
         UNCHANGED <<peer, backlog, open, live, queue, client>>,
         MainHolds' = MainHolds,
         MainHolds => accepted' = accepted,
         \A w \in Workers :
           \/ pc'[w] = pc[w]
           \/ /\ pc[w]  \in {"lock", "test", "sleep", "wait", "woken", "take"}
              /\ pc'[w] \in {"lock", "test", "sleep", "wait", "woken", "take"}
           \/ /\ pc[w]  \in {"unlock", "read", "reply"}
              /\ pc'[w] \in {"unlock", "read", "reply"}
  PROVE  OwnInv'
<1>1. /\ Serving' = Serving
      /\ \A w \in Workers : Owns(w)' <=> Owns(w)
  BY DEF Serving, Owns
<1>2. StructsNamed' /\ HeldApart' /\ HeldOpen' /\ OpenHeld'
  BY <1>1 DEF OwnInv, StructsNamed, HeldApart, HeldOpen, OpenHeld, PeerOf
<1>3. PeersApart' /\ AwayIsNowhere' /\ ClosesGone'
  BY DEF OwnInv, PeersApart, AwayIsNowhere, ClosesGone, PeerOf
<1>4. Balanced'
  BY DEF OwnInv, Balanced, OwnedClients
<1> QED
  BY <1>2, <1>3, <1>4 DEF OwnInv

(* What is held is a descriptor.                                           *)
LEMMA HeldFds ==
  ASSUME CoreInv, OwnInv
  PROVE  /\ MainHolds => accepted.fd \in Fds
         /\ \A i \in DOMAIN queue : queue[i].fd \in Fds
         /\ \A w \in Serving : client[w].fd \in Fds
<1>1. MainHolds => accepted \in Client
  BY DEF CoreInv, AcceptedIsClient
<1>2. \A i \in DOMAIN queue : queue[i] \in Client
  BY DEF CoreInv, TypeOK
<1>3. \A w \in Serving : client[w] \in Client
  BY DEF OwnInv, StructsNamed, Owns, Serving
<1>4. \A c \in Client : c.fd \in Fds
  BY DEF Client
<1> QED
  BY <1>1, <1>2, <1>3, <1>4

(* A struct that somebody will free, and Balanced in terms of it.          *)
WillFree(w) == pc[w] \in {"unlock", "read", "reply", "close", "free"}

Accounted(c) ==
  \/ MainHolds /\ c = accepted
  \/ \E i \in DOMAIN queue : c = queue[i]
  \/ \E w \in Workers : WillFree(w) /\ c = client[w]

LEMMA LeakByStruct == Balanced <=> \A c : c \in live <=> Accounted(c)
BY DEF Balanced, OwnedClients, Accounted, WillFree

(* Steps of the remote ends: only who is away can connect, and who has     *)
(* gone stays gone until its connection is closed.                         *)
LEMMA PeerStepOwn ==
  ASSUME CoreInv, OwnInv, NEW p \in Peers, Connect(p) \/ SendRequest(p) \/ HangUp(p)
  PROVE  OwnInv'
<1> USE PoolAssumption
<1>1. /\ UNCHANGED <<open, live, queue, mainPc, accepted, pc, client>>
      /\ MainHolds' = MainHolds /\ Serving' = Serving
  BY DEF Connect, SendRequest, HangUp, mainVars, workerVars, MainHolds, Serving
<1>2. StructsNamed' /\ HeldApart' /\ HeldOpen' /\ OpenHeld' /\ Balanced'
  BY <1>1 DEF OwnInv, StructsNamed, Owns, HeldApart, HeldOpen, OpenHeld, PeerOf, Balanced, OwnedClients
<1>3. CASE SendRequest(p)
  <2>1. PeersApart' /\ AwayIsNowhere' /\ ClosesGone'
    BY <1>1, <1>3 DEF OwnInv, PeersApart, AwayIsNowhere, ClosesGone, PeerOf, SendRequest
  <2> QED
    BY <1>2, <2>1 DEF OwnInv
<1>4. CASE HangUp(p)
  <2>1. backlog' = backlog /\ peer[p] = "connected" /\ peer' = [peer EXCEPT ![p] = "gone"]
    BY <1>4 DEF HangUp
  <2>2. \A q \in Peers : peer'[q] = "away" => peer[q] = "away"
    BY <2>1 DEF CoreInv, TypeOK
  <2>3. PeersApart' /\ AwayIsNowhere'
    BY <1>1, <2>1, <2>2 DEF OwnInv, PeersApart, AwayIsNowhere
  <2>4. ClosesGone'
    BY <1>1, <2>1 DEF CoreInv, TypeOK, OwnInv, ClosesGone, PeerOf
  <2> QED
    BY <1>2, <2>3, <2>4 DEF OwnInv
<1>5. CASE Connect(p)
  <2>1. /\ peer[p] = "away"
        /\ peer' = [peer EXCEPT ![p] = "connected"]
        /\ backlog' = Append(backlog, p) /\ backlog \in Seq(Peers)
    BY <1>5 DEF Connect, CoreInv, TypeOK
  <2>2. \A i \in DOMAIN backlog' :
          (i \in DOMAIN backlog /\ backlog'[i] = backlog[i]) \/ (i = Len(backlog) + 1 /\ backlog'[i] = p)
    BY <2>1
  <2>3. \A i \in DOMAIN backlog : backlog[i] # p
    BY <2>1 DEF OwnInv, AwayIsNowhere
  <2>4. \A f \in Fds : open[f] # p
    BY <2>1 DEF OwnInv, AwayIsNowhere
  <2>5. PeersApart'
    BY <1>1, <2>2, <2>3, <2>4 DEF OwnInv, PeersApart
  <2>6. AwayIsNowhere'
    BY <1>1, <2>1, <2>2 DEF CoreInv, TypeOK, OwnInv, AwayIsNowhere
  <2>7. ClosesGone'
    BY <1>1, <2>1 DEF CoreInv, TypeOK, OwnInv, ClosesGone, PeerOf
  <2> QED
    BY <1>2, <2>5, <2>6, <2>7 DEF OwnInv
<1> QED
  BY <1>3, <1>4, <1>5

(* accept() gives the oldest connection a descriptor that nobody holds.    *)
LEMMA AcceptOwn ==
  ASSUME CoreInv, OwnInv, Accept
  PROVE  OwnInv'
<1> USE PoolAssumption
<1>1. PICK fd \in Fds :
        /\ open[fd] = NoPeer
        /\ open' = [open EXCEPT ![fd] = Head(backlog)]
        /\ accepted' = clientCreate(fd, Main)
  BY DEF Accept
<1>2. /\ ~ MainHolds /\ MainHolds'
      /\ backlog \in Seq(Peers) /\ backlog # <<>> /\ backlog' = Tail(backlog)
      /\ live' = live \cup {accepted'}
      /\ UNCHANGED <<peer, queue, pc, client>>
  BY DEF Accept, MainAt, MainHolds, workerVars, CoreInv, TypeOK
<1>3. /\ Serving' = Serving
      /\ accepted'.fd = fd /\ accepted'.by = Main
  BY <1>1, <1>2 DEF Serving, clientCreate
<1>4. /\ Head(backlog) \in Peers
      /\ open \in [Fds -> Peers \cup {NoPeer}]
      /\ open'[fd] = Head(backlog)
      /\ \A f \in Fds : f # fd => open'[f] = open[f]
  BY <1>1, <1>2 DEF CoreInv, TypeOK
<1>5. /\ 1 \in DOMAIN backlog /\ Head(backlog) = backlog[1]
      /\ \A i \in DOMAIN backlog' :
           i \in Nat \ {0} /\ i + 1 \in DOMAIN backlog /\ backlog'[i] = backlog[i + 1]
  BY <1>2
<1>6. /\ \A i \in DOMAIN queue : queue[i].fd \in Fds /\ queue[i].fd # fd
      /\ \A w \in Serving : client[w].fd \in Fds /\ client[w].fd # fd
  BY <1>1, HeldFds DEF OwnInv, HeldOpen, PeerOf
<1>7. StructsNamed' /\ HeldApart' /\ HeldOpen' /\ OpenHeld'
  <2>1. StructsNamed'
    BY <1>2, <1>3 DEF OwnInv, StructsNamed, Owns
  <2>2. HeldApart'
    BY <1>2, <1>3, <1>6 DEF OwnInv, HeldApart
  <2>3. HeldOpen'
    BY <1>2, <1>3, <1>4, <1>6 DEF OwnInv, HeldOpen, PeerOf
  <2>4. OpenHeld'
    BY <1>2, <1>3, <1>4 DEF OwnInv, OpenHeld
  <2> QED
    BY <2>1, <2>2, <2>3, <2>4
<1>8. PeersApart'
  <2>1. \A f \in Fds : f # fd => open'[f] # open'[fd]
    BY <1>4, <1>5 DEF OwnInv, PeersApart
  <2>2. \A i \in DOMAIN backlog' : backlog'[i] # open'[fd]
    BY <1>4, <1>5 DEF OwnInv, PeersApart
  <2>3. \A i, j \in DOMAIN backlog' : backlog'[i] = backlog'[j] => i = j
    BY <1>5 DEF OwnInv, PeersApart
  <2>4. \A i \in DOMAIN backlog', f \in Fds : open'[f] # backlog'[i]
    BY <1>4, <1>5, <2>2 DEF OwnInv, PeersApart
  <2>5. \A f, g \in Fds : open'[f] # NoPeer /\ open'[f] = open'[g] => f = g
    BY <1>4, <2>1 DEF OwnInv, PeersApart
  <2> QED
    BY <2>3, <2>4, <2>5 DEF PeersApart
<1>9. AwayIsNowhere'
  BY <1>2, <1>4, <1>5 DEF OwnInv, AwayIsNowhere
<1>10. ClosesGone'
  <2>1. \A w \in Workers : pc[w] \in {"close", "closeFreed"} => w \in Serving
    BY DEF Serving
  <2> QED
    BY <1>2, <1>4, <1>6, <2>1 DEF OwnInv, ClosesGone, PeerOf
<1>11. Balanced'
  BY <1>2 DEF OwnInv, Balanced, OwnedClients
<1> QED
  BY <1>7, <1>8, <1>9, <1>10, <1>11 DEF OwnInv

(* The rest of workQueuePush: the client goes from the main thread to the  *)
(* queue.                                                                  *)
LEMMA MainStepOwn ==
  ASSUME CoreInv, OwnInv, MainStep
  PROVE  OwnInv'
<1> USE PoolAssumption
<1>1. CASE PushLock \/ PushSignal \/ PushUnlock
  <2>1. /\ UNCHANGED <<peer, backlog, open, live, queue, client>>
        /\ MainHolds' = MainHolds
        /\ MainHolds => accepted' = accepted
    BY <1>1 DEF PushLock, PushSignal, PushUnlock, MainAt, MainHolds, peerVars, workerVars
  <2>2. \A w \in Workers : pc'[w] = pc[w] \/ (pc[w] = "wait" /\ pc'[w] = "woken")
    BY <1>1 DEF PushLock, PushSignal, PushUnlock, Waiting, workerVars, CoreInv, TypeOK
  <2> QED
    BY <2>1, <2>2, QuietStep
<1>2. CASE PushAppend
  <2>1. /\ MainHolds /\ ~ MainHolds'
        /\ queue' = Append(queue, accepted) /\ queue \in Seq(Client)
        /\ UNCHANGED <<peer, backlog, open, live, pc, client>>
    BY <1>2 DEF PushAppend, MainAt, MainHolds, peerVars, workerVars, CoreInv, TypeOK
  <2>2. /\ Serving' = Serving
        /\ \A w \in Workers : Owns(w)' <=> Owns(w)
    BY <2>1 DEF Serving, Owns
  <2>3. /\ \A i \in DOMAIN queue' :
             \/ i \in DOMAIN queue /\ queue'[i] = queue[i]
             \/ i = Len(queue) + 1 /\ queue'[i] = accepted
        /\ \A i \in DOMAIN queue : i \in DOMAIN queue' /\ queue'[i] = queue[i]
        /\ Len(queue) + 1 \in DOMAIN queue' /\ queue'[Len(queue) + 1] = accepted
    BY <2>1
  <2>4. StructsNamed' /\ HeldApart' /\ HeldOpen'
    BY <2>1, <2>2, <2>3 DEF OwnInv, StructsNamed, HeldApart, HeldOpen, PeerOf
  <2>5. OpenHeld'
    BY <2>1, <2>2, <2>3 DEF OwnInv, OpenHeld
  <2>6. PeersApart' /\ AwayIsNowhere' /\ ClosesGone'
    BY <2>1 DEF OwnInv, PeersApart, AwayIsNowhere, ClosesGone, PeerOf
  <2>7. Balanced'
    BY <2>1, <2>3 DEF OwnInv, Balanced, OwnedClients
  <2> QED
    BY <2>4, <2>5, <2>6, <2>7 DEF OwnInv
<1> QED
  BY <1>1, <1>2 DEF MainStep

(* workQueuePop: the oldest client goes from the queue to the worker, in a *)
(* copy, and the original is freed.                                        *)
LEMMA TakeOwn ==
  ASSUME CoreInv, OwnInv, NEW w \in Workers, PopTake(w)
  PROVE  OwnInv'
<1> USE PoolAssumption
<1>1. /\ queue # <<>> /\ queue \in Seq(Client) /\ queue' = Tail(queue)
      /\ client' = [client EXCEPT ![w] = clientCreate(Head(queue).fd, w)]
      /\ live' = (live \ {Head(queue)}) \cup {client'[w]}
      /\ pc[w] = "take" /\ pc' = [pc EXCEPT ![w] = "unlock"]
      /\ UNCHANGED <<peer, backlog, open, accepted, mainPc>>
      /\ MainHolds' = MainHolds
  BY DEF PopTake, WorkerAt, peerVars, mainVars, MainHolds, CoreInv, TypeOK
<1>2. /\ client'[w] = [fd |-> Head(queue).fd, by |-> w]
      /\ \A v \in Workers : v # w => client'[v] = client[v]
      /\ pc'[w] = "unlock"
      /\ \A v \in Workers : v # w => pc'[v] = pc[v]
  BY <1>1 DEF clientCreate, CoreInv, TypeOK
<1>3. /\ w \notin Serving /\ Serving' = Serving \cup {w}
      /\ \A v \in Workers : v # w => (Owns(v)' <=> Owns(v))
  BY <1>1, <1>2 DEF Serving, Owns
<1>4. /\ 1 \in DOMAIN queue /\ Head(queue) = queue[1] /\ Head(queue) \in Client
      /\ \A i \in DOMAIN queue' :
           i \in Nat \ {0} /\ i + 1 \in DOMAIN queue /\ queue'[i] = queue[i + 1]
      /\ \A i \in DOMAIN queue :
           i # 1 => i \in Nat /\ i - 1 \in DOMAIN queue' /\ queue'[i - 1] = queue[i]
  BY <1>1
<1>5. client'[w] \in Client /\ client'[w].fd = Head(queue).fd /\ client'[w].by = w
  BY <1>2, <1>4 DEF Client
<1>6. StructsNamed'
  BY <1>1, <1>2, <1>3, <1>4, <1>5 DEF OwnInv, StructsNamed
<1>7. HeldApart'
  <2>1. \A v \in Serving : client'[v] = client[v] /\ client[v].fd # client'[w].fd
    BY <1>2, <1>3, <1>4, <1>5 DEF OwnInv, HeldApart, Serving
  <2>2. \A i \in DOMAIN queue' : queue'[i].fd # client'[w].fd
    BY <1>4, <1>5 DEF OwnInv, HeldApart
  <2>3. \A i, j \in DOMAIN queue' : queue'[i].fd = queue'[j].fd => i = j
    BY <1>4 DEF OwnInv, HeldApart
  <2>4. MainHolds' => /\ accepted'.fd # client'[w].fd
                      /\ \A i \in DOMAIN queue' : queue'[i].fd # accepted'.fd
    BY <1>1, <1>4, <1>5 DEF OwnInv, HeldApart
  <2>5. \A v \in Serving : /\ \A i \in DOMAIN queue' : queue'[i].fd # client'[v].fd
                           /\ MainHolds' => accepted'.fd # client'[v].fd
    BY <1>1, <1>4, <2>1 DEF OwnInv, HeldApart
  <2>6. \A u, v \in Serving : client'[u].fd = client'[v].fd => u = v
    BY <2>1 DEF OwnInv, HeldApart
  <2> QED
    BY <1>3, <2>1, <2>2, <2>3, <2>4, <2>5, <2>6 DEF HeldApart
<1>8. HeldOpen'
  BY <1>1, <1>2, <1>3, <1>4, <1>5 DEF OwnInv, HeldOpen, PeerOf
<1>9. OpenHeld'
  <2> SUFFICES ASSUME NEW fd \in Fds, open[fd] # NoPeer
               PROVE  \/ MainHolds' /\ accepted'.fd = fd
                      \/ \E i \in DOMAIN queue' : queue'[i].fd = fd
                      \/ \E v \in Serving' : client'[v].fd = fd
    BY <1>1 DEF OpenHeld
  <2>1. CASE MainHolds /\ accepted.fd = fd
    BY <1>1, <2>1
  <2>2. CASE \E i \in DOMAIN queue : queue[i].fd = fd
    BY <1>3, <1>4, <1>5, <2>2
  <2>3. CASE \E v \in Serving : client[v].fd = fd
    BY <1>2, <1>3, <2>3 DEF Serving
  <2> QED
    BY <2>1, <2>2, <2>3 DEF OwnInv, OpenHeld
<1>10. PeersApart' /\ AwayIsNowhere'
  BY <1>1 DEF OwnInv, PeersApart, AwayIsNowhere
<1>11. ClosesGone'
  BY <1>1, <1>2 DEF OwnInv, ClosesGone, PeerOf
<1>12. Balanced'
  <2>1. \A c : c \in live <=> Accounted(c)
    BY LeakByStruct DEF OwnInv
  <2>2. MainHolds => accepted # Head(queue)
    BY <1>4 DEF OwnInv, HeldApart
  <2>3. \A i \in DOMAIN queue : i # 1 => queue[i] # Head(queue)
    BY <1>4 DEF OwnInv, HeldApart
  <2>4. \A v \in Workers : WillFree(v) => client[v] # Head(queue)
    BY <1>4 DEF OwnInv, StructsNamed, Owns, WillFree
  <2>5. /\ ~ WillFree(w) /\ WillFree(w)'
        /\ \A v \in Workers : v # w => (WillFree(v)' <=> WillFree(v))
    BY <1>1, <1>2 DEF WillFree
  <2>6. ASSUME NEW c, c \in live' PROVE Accounted(c)'
    <3>1. CASE c = client'[w]
      BY <2>5, <3>1 DEF Accounted
    <3>2. CASE MainHolds /\ c = accepted
      BY <1>1, <3>2 DEF Accounted
    <3>3. CASE c # Head(queue) /\ \E i \in DOMAIN queue : c = queue[i]
      <4>1. PICK i \in DOMAIN queue : i # 1 /\ c = queue[i]
        BY <1>4, <3>3
      <4>2. i - 1 \in DOMAIN queue' /\ c = queue'[i - 1]
        BY <1>4, <4>1
      <4> QED
        BY <4>2 DEF Accounted
    <3>4. CASE \E v \in Workers : WillFree(v) /\ c = client[v]
      BY <1>2, <2>5, <3>4 DEF Accounted
    <3> QED
      BY <1>1, <2>1, <2>6, <3>1, <3>2, <3>3, <3>4 DEF Accounted
  <2>7. ASSUME NEW c, Accounted(c)' PROVE c \in live'
    <3>1. CASE MainHolds' /\ c = accepted'
      BY <1>1, <2>1, <2>2, <3>1 DEF Accounted
    <3>2. CASE \E i \in DOMAIN queue' : c = queue'[i]
      <4>1. PICK i \in DOMAIN queue' : c = queue'[i]
        BY <3>2
      <4>2. i + 1 \in DOMAIN queue /\ i + 1 # 1 /\ c = queue[i + 1]
        BY <1>4, <4>1
      <4>3. Accounted(c) /\ c # Head(queue)
        BY <2>3, <4>2 DEF Accounted
      <4> QED
        BY <1>1, <2>1, <4>3
    <3>3. CASE \E v \in Workers : WillFree(v)' /\ c = client'[v]
      BY <1>1, <1>2, <2>1, <2>4, <2>5, <3>3 DEF Accounted
    <3> QED
      BY <2>7, <3>1, <3>2, <3>3 DEF Accounted
  <2> QED
    BY <2>6, <2>7 DEF Balanced, OwnedClients, Accounted, WillFree
<1> QED
  BY <1>6, <1>7, <1>8, <1>9, <1>10, <1>11, <1>12 DEF OwnInv

(* A worker that cannot reach its peer serves one that has gone.           *)
LEMMA ReachesGone ==
  ASSUME OwnInv, NEW w \in Serving, Unreachable(w)
  PROVE  peer[PeerOf(w)] = "gone"
BY DEF OwnInv, HeldOpen, Unreachable

(* A step of a worker by which it neither takes nor closes a connection:   *)
(* the reads, the replies, and the end of the process by a signal.         *)
LEMMA ReadReplyOwn ==
  ASSUME CoreInv, OwnInv, NEW w \in Workers,
         ReadRequest(w) \/ ReadEnd(w) \/ Reply(w) \/ ReplyKills(w)
  PROVE  OwnInv'
<1>1. /\ UNCHANGED <<peer, backlog, open, live, queue, client, mainPc, accepted>>
      /\ MainHolds' = MainHolds
  BY DEF ReadRequest, ReadEnd, Reply, ReplyKills, peerVars, mainVars, workerVars,
         MainHolds
<1>2. CASE ReadRequest(w) \/ Reply(w) \/ ReplyKills(w)
  <2>1. \A v \in Workers :
          \/ pc'[v] = pc[v]
          \/ pc[v] \in {"unlock", "read", "reply"} /\ pc'[v] \in {"unlock", "read", "reply"}
    BY <1>2 DEF ReadRequest, Reply, ReplyKills, WorkerAt, workerVars, CoreInv, TypeOK
  <2> QED
    BY <1>1, <2>1, QuietStep
<1>3. CASE ReadEnd(w)
  <2>1. /\ pc[w] = "read" /\ pc'[w] = "close" /\ peer[PeerOf(w)] = "gone"
        /\ \A v \in Workers : v # w => pc'[v] = pc[v]
    BY <1>3, ReachesGone DEF ReadEnd, WorkerAt, Serving, CoreInv, TypeOK
  <2>2. /\ Serving' = Serving
        /\ \A v \in Workers : /\ Owns(v)' <=> Owns(v)
                              /\ WillFree(v)' <=> WillFree(v)
    BY <2>1 DEF Serving, Owns, WillFree
  <2>3. StructsNamed' /\ HeldApart' /\ HeldOpen' /\ OpenHeld'
    BY <1>1, <2>2 DEF OwnInv, StructsNamed, HeldApart, HeldOpen, OpenHeld, PeerOf
  <2>4. PeersApart' /\ AwayIsNowhere' /\ ClosesGone'
    BY <1>1, <2>1 DEF OwnInv, PeersApart, AwayIsNowhere, ClosesGone, PeerOf
  <2>5. Balanced'
    BY <1>1, <2>2 DEF OwnInv, Balanced, OwnedClients, WillFree
  <2> QED
    BY <2>3, <2>4, <2>5 DEF OwnInv
<1> QED
  BY <1>2, <1>3

(* No other struct is the one a worker has, so freeing it takes away       *)
(* exactly that one.                                                       *)
LEMMA FreesOwn ==
  ASSUME OwnInv, NEW w \in Workers, WillFree(w), ~ WillFree(w)',
         \A v \in Workers : v # w => /\ WillFree(v)' <=> WillFree(v)
                                     /\ client'[v] = client[v],
         live' = live \ {client[w]},
         UNCHANGED queue, MainHolds' = MainHolds, MainHolds => accepted' = accepted
  PROVE  Balanced'
<1> USE PoolAssumption
<1>1. \A c : c \in live <=> Accounted(c)
  BY LeakByStruct DEF OwnInv
<1>2. client[w].by = w
  BY DEF OwnInv, StructsNamed, Owns, WillFree
<1>3. MainHolds => accepted # client[w]
  BY <1>2 DEF OwnInv, StructsNamed
<1>4. \A i \in DOMAIN queue : queue[i] # client[w]
  BY <1>2 DEF OwnInv, StructsNamed
<1>5. \A v \in Workers : v # w /\ WillFree(v) => client[v] # client[w]
  BY <1>2 DEF OwnInv, StructsNamed, Owns, WillFree
<1>6. \A c : Accounted(c)' <=> Accounted(c) /\ c # client[w]
  BY <1>3, <1>4, <1>5 DEF Accounted
<1>7. \A c : c \in live' <=> Accounted(c)'
  BY <1>1, <1>6
<1> QED
  BY <1>7 DEF Balanced, OwnedClients, Accounted, WillFree

(* The two frees of handleClientRequest: after closing, or, when the reply *)
(* cannot be written, before.                                              *)
LEMMA FreeOwn ==
  ASSUME CoreInv, OwnInv, NEW w \in Workers, FreeClient(w) \/ ReplyFails(w)
  PROVE  OwnInv'
<1>1. /\ UNCHANGED <<peer, backlog, open, queue, mainPc, accepted>>
      /\ MainHolds' = MainHolds
      /\ live' = live \ {client[w]}
      /\ \A v \in Workers : v # w => client'[v] = client[v] /\ pc'[v] = pc[v]
  BY DEF FreeClient, ReplyFails, WorkerAt, peerVars, mainVars, MainHolds, CoreInv, TypeOK
<1>2. WillFree(w) /\ ~ WillFree(w)'
  BY DEF FreeClient, ReplyFails, WorkerAt, WillFree, CoreInv, TypeOK
<1>3. Balanced'
  <2>1. \A v \in Workers : v # w => (WillFree(v)' <=> WillFree(v))
    BY <1>1 DEF WillFree
  <2> QED
    BY <1>1, <1>2, <2>1, FreesOwn
<1>4. /\ Serving' = Serving
      /\ \A v \in Serving : client'[v] = client[v]
  <2>1. CASE FreeClient(w)
    BY <1>1, <2>1 DEF FreeClient, WorkerAt, Serving, CoreInv, TypeOK
  <2>2. CASE ReplyFails(w)
    BY <1>1, <2>2 DEF ReplyFails, WorkerAt, Serving, CoreInv, TypeOK
  <2> QED
    BY <2>1, <2>2
<1>5. StructsNamed'
  <2>1. Owns(w)' => Owns(w) /\ client'[w] = client[w]
    BY DEF FreeClient, ReplyFails, WorkerAt, Owns, CoreInv, TypeOK
  <2>2. \A v \in Workers : v # w => (Owns(v)' <=> Owns(v))
    BY <1>1 DEF Owns
  <2> QED
    BY <1>1, <2>1, <2>2 DEF OwnInv, StructsNamed
<1>6. HeldApart' /\ HeldOpen' /\ OpenHeld'
  BY <1>1, <1>4 DEF OwnInv, HeldApart, HeldOpen, OpenHeld, PeerOf
<1>7. PeersApart' /\ AwayIsNowhere'
  BY <1>1 DEF OwnInv, PeersApart, AwayIsNowhere
<1>8. ClosesGone'
  <2>1. pc'[w] \in {"close", "closeFreed"} => client'[w] = client[w] /\ peer[PeerOf(w)] = "gone"
    BY ReachesGone DEF Serving, FreeClient, ReplyFails, WorkerAt, CoreInv, TypeOK
  <2> QED
    BY <1>1, <2>1 DEF OwnInv, ClosesGone, PeerOf
<1> QED
  BY <1>3, <1>5, <1>6, <1>7, <1>8 DEF OwnInv

(* Closing: the descriptor was in the worker's hands only, and its peer    *)
(* had no other connection.                                                *)
LEMMA CloseOwn ==
  ASSUME CoreInv, OwnInv, NEW w \in Workers, CloseClient(w)
  PROVE  OwnInv'
<1> USE PoolAssumption
<1> DEFINE fd == client[w].fd
<1>0. /\ pc[w] = "close" /\ pc'[w] = "free"
      /\ \A v \in Workers : v # w => pc'[v] = pc[v]
      /\ UNCHANGED <<backlog, live, queue, mainPc, accepted, client>>
      /\ CloseDescriptor(fd)
  BY DEF CloseClient, WorkerAt, mainVars, CoreInv, TypeOK
<1>1. /\ MainHolds' = MainHolds
      /\ w \in Serving /\ Serving' = Serving \ {w}
      /\ \A v \in Workers : (Owns(v)' <=> Owns(v)) /\ (WillFree(v)' <=> WillFree(v))
  BY <1>0 DEF MainHolds, Serving, Owns, WillFree
<1>2. /\ fd \in Fds /\ open[fd] # NoPeer /\ open[fd] \in Peers
      /\ open'[fd] = NoPeer
      /\ \A f \in Fds : f # fd => open'[f] = open[f]
  BY <1>0, <1>1, HeldFds DEF CoreInv, TypeOK, OwnInv, HeldOpen, PeerOf, CloseDescriptor
<1>3. \A p \in Peers : peer'[p] = IF p = open[fd] THEN "away" ELSE peer[p]
  BY <1>0 DEF CoreInv, TypeOK, CloseDescriptor
<1>4. /\ MainHolds => accepted.fd \in Fds /\ accepted.fd # fd
      /\ \A i \in DOMAIN queue : queue[i].fd \in Fds /\ queue[i].fd # fd
      /\ \A v \in Serving : client[v].fd \in Fds /\ (v # w => client[v].fd # fd)
  BY <1>1, HeldFds DEF OwnInv, HeldApart
<1>5. StructsNamed' /\ Balanced'
  BY <1>0, <1>1 DEF OwnInv, StructsNamed, Balanced, OwnedClients, WillFree
<1>6. HeldApart'
  BY <1>0, <1>1 DEF OwnInv, HeldApart
<1>7. HeldOpen'
  BY <1>0, <1>1, <1>2, <1>4 DEF OwnInv, HeldOpen, PeerOf
<1>8. OpenHeld'
  <2> SUFFICES ASSUME NEW f \in Fds, open'[f] # NoPeer
               PROVE  \/ MainHolds' /\ accepted'.fd = f
                      \/ \E i \in DOMAIN queue' : queue'[i].fd = f
                      \/ \E v \in Serving' : client'[v].fd = f
    BY DEF OpenHeld
  <2>1. f # fd /\ open[f] # NoPeer
    BY <1>2
  <2>2. CASE \E v \in Serving : client[v].fd = f
    BY <1>0, <1>1, <2>1, <2>2
  <2> QED
    BY <1>0, <1>1, <2>1, <2>2 DEF OwnInv, OpenHeld
<1>9. PeersApart'
  <2>1. \A f \in Fds : open'[f] = open[f] \/ open'[f] = NoPeer
    BY <1>2
  <2>2. \A i \in DOMAIN backlog : backlog[i] \in Peers
    BY DEF CoreInv, TypeOK
  <2>3. backlog' = backlog
    BY <1>0
  <2> QED
    BY <2>1, <2>2, <2>3 DEF OwnInv, PeersApart
<1>10. AwayIsNowhere'
  <2>1. ASSUME NEW p \in Peers, peer'[p] = "away", p # open[fd]
        PROVE  /\ \A i \in DOMAIN backlog : backlog[i] # p
               /\ \A f \in Fds : open'[f] # p
    BY <1>0, <1>2, <1>3, <2>1 DEF OwnInv, AwayIsNowhere
  <2>2. \A i \in DOMAIN backlog : backlog[i] # open[fd]
    BY <1>2 DEF OwnInv, PeersApart
  <2>3. \A f \in Fds : open'[f] # open[fd]
    BY <1>2 DEF OwnInv, PeersApart
  <2> QED
    BY <1>0, <2>1, <2>2, <2>3 DEF AwayIsNowhere
<1>11. ClosesGone'
  <2> SUFFICES ASSUME NEW v \in Workers, pc'[v] \in {"close", "closeFreed"}
               PROVE  peer'[open'[client[v].fd]] = "gone"
    BY <1>0 DEF ClosesGone, PeerOf
  <2>1. v # w /\ pc[v] \in {"close", "closeFreed"} /\ v \in Serving
    BY <1>0 DEF Serving
  <2>2. /\ client[v].fd \in Fds /\ client[v].fd # fd
        /\ open'[client[v].fd] = open[client[v].fd]
        /\ open[client[v].fd] \in Peers
    BY <1>2, <1>4, <2>1 DEF OwnInv, HeldOpen, PeerOf, CoreInv, TypeOK
  <2>3. open[client[v].fd] # open[fd]
    BY <1>2, <2>2 DEF OwnInv, PeersApart
  <2> QED
    BY <1>3, <2>1, <2>2, <2>3 DEF OwnInv, ClosesGone, PeerOf
<1> QED
  BY <1>5, <1>6, <1>7, <1>8, <1>9, <1>10, <1>11 DEF OwnInv

(* The steps of a worker that serves, but for those around the close of a  *)
(* freed Client.                                                           *)
LEMMA ServeStepOwn ==
  ASSUME CoreInv, OwnInv, ~ Astray', NEW w \in Workers, ServeStep(w)
  PROVE  OwnInv'
<1>1. ~ CloseFreed(w) /\ ~ FreeAgain(w)
  BY DEF CloseFreed, FreeAgain, WorkerAt, workerVars, Astray, CoreInv, TypeOK
<1> QED
  BY <1>1, CloseOwn, ReadReplyOwn, FreeOwn DEF ServeStep

(* The rest of workQueuePop moves no connection.                           *)
LEMMA PopStepOwn ==
  ASSUME CoreInv, OwnInv, NEW w \in Workers, PopLock(w) \/ PopStep(w) \/ SpuriousWakeup(w)
  PROVE  OwnInv'
<1>1. CASE PopLock(w) \/ PopTest(w) \/ PopWait(w) \/ PopUnlock(w) \/ SpuriousWakeup(w)
  <2>1. /\ UNCHANGED <<peer, backlog, open, live, queue, client, accepted>>
        /\ MainHolds' = MainHolds
    BY <1>1 DEF PopLock, PopTest, PopWait, PopUnlock, SpuriousWakeup, peerVars, mainVars, MainHolds
  <2>2. \A v \in Workers :
          \/ pc'[v] = pc[v]
          \/ /\ pc[v]  \in {"lock", "test", "sleep", "wait", "woken", "take"}
             /\ pc'[v] \in {"lock", "test", "sleep", "wait", "woken", "take"}
          \/ pc[v] \in {"unlock", "read", "reply"} /\ pc'[v] \in {"unlock", "read", "reply"}
    BY <1>1 DEF PopLock, PopTest, PopWait, PopUnlock, SpuriousWakeup, WorkerAt, CoreInv, TypeOK
  <2> QED
    BY <2>1, <2>2, QuietStep
<1> QED
  BY <1>1, TakeOwn DEF PopStep

LEMMA NextOwn ==
  ASSUME CoreInv, OwnInv, [Next]_vars, ~ Astray'
  PROVE  OwnInv'
<1>1. CASE UNCHANGED vars
  BY <1>1, QuietStep DEF vars, peerVars, mainVars, workerVars, MainHolds
<1> QED
  BY <1>1, PeerStepOwn, AcceptOwn, MainStepOwn, PopStepOwn, ServeStepOwn DEF Next

(* Nothing leads back: the worker that closed what it read from its freed  *)
(* Client can only end the process.                                        *)
LEMMA AstrayStays ==
  ASSUME CoreInv, [Next]_vars, Astray
  PROVE  Astray'
<1>1. PICK w \in Workers : pc[w] = "freeAgain"
  BY DEF Astray
<1>2. CASE UNCHANGED pc
  BY <1>1, <1>2 DEF Astray
<1>3. CASE PushSignal
  BY <1>1, <1>3 DEF PushSignal, Waiting, Astray, CoreInv, TypeOK
<1>4. ASSUME NEW v \in Workers, PopLock(v) \/ PopStep(v) \/ SpuriousWakeup(v) \/ ServeStep(v)
      PROVE  Astray'
  <2>1. CASE v # w
    BY <1>1, <1>4, <2>1, OthersStay DEF Astray
  <2>2. CASE v = w
    BY <1>1, <1>4, <2>2 DEF PopLock, PopStep, PopTest, PopWait, PopTake, PopUnlock,
         SpuriousWakeup, ServeStep, ReadRequest, ReadEnd, Reply, ReplyFails, ReplyKills,
         CloseClient, CloseFreed, FreeClient, FreeAgain, WorkerAt, workerVars, Astray
  <2> QED
    BY <2>1, <2>2
<1> QED
  BY <1>2, <1>3, <1>4 DEF Next, vars, Connect, SendRequest, HangUp, Accept, MainStep, PushLock,
       PushAppend, PushUnlock, workerVars

OwnedInv == CoreInv /\ (~ Astray => OwnInv)

-----------------------------------------------------------------------------
(* What follows for the runs' properties.                                  *)

(* Whatever main thread, workers and peers do: until a worker closes what  *)
(* it reads from a freed Client, a descriptor stands for the connection it *)
(* was opened for until whoever holds it closes it, no connection is       *)
(* queued or served twice, and each struct has one owner.                  *)
THEOREM OwnershipInvariance == Spec => []OwnedInv
<1>1. Init => OwnedInv
  BY InitIInv, InitOwn DEF IInv, OwnedInv
<1>2. OwnedInv /\ [Next]_vars => OwnedInv'
  BY NextCore, NextOwn, AstrayStays DEF OwnedInv
<1> QED
  BY <1>1, <1>2, PTL DEF Spec

(* Two holders of one descriptor are the same holder.                      *)
LEMMA HoldersAgree ==
  ASSUME OwnInv, NEW fd \in Fds, NEW x \in Holders(fd), NEW y \in Holders(fd)
  PROVE  x = y
<1> DEFINE Main1(h) == h = <<"main", Main>> /\ MainHolds /\ accepted.fd = fd
           Queue1(h) == \E i \in DOMAIN queue : h = <<"queue", i>> /\ queue[i].fd = fd
           Work1(h)  == \E w \in Serving : h = <<"worker", w>> /\ client[w].fd = fd
<1>1. \A h \in Holders(fd) : Main1(h) \/ Queue1(h) \/ Work1(h)
  BY DEF Holders
<1>2. ASSUME NEW g \in Holders(fd), NEW h \in Holders(fd), Main1(g) PROVE g = h
  BY <1>1, <1>2 DEF OwnInv, HeldApart
<1>3. ASSUME NEW g \in Holders(fd), NEW h \in Holders(fd), Queue1(g) PROVE g = h
  BY <1>1, <1>3 DEF OwnInv, HeldApart
<1>4. ASSUME NEW g \in Holders(fd), NEW h \in Holders(fd), Work1(g) PROVE g = h
  BY <1>1, <1>4 DEF OwnInv, HeldApart
<1> QED
  BY <1>1, <1>2, <1>3, <1>4

LEMMA OneHolderHolds == OwnedInv => OneHolder
<1> SUFFICES ASSUME CoreInv, OwnInv, NEW fd \in Fds
             PROVE  Cardinality(Holders(fd)) = (IF open[fd] = NoPeer THEN 0 ELSE 1)
  BY DEF OneHolder, OwnedInv
<1>1. CASE Holders(fd) = {}
  <2>1. ~ (MainHolds /\ accepted.fd = fd)
    <3>1. MainHolds /\ accepted.fd = fd => <<"main", Main>> \in Holders(fd)
      BY DEF Holders
    <3> QED
      BY <1>1, <3>1
  <2>2. ~ \E i \in DOMAIN queue : queue[i].fd = fd
    <3>1. \A i \in DOMAIN queue : queue[i].fd = fd => <<"queue", i>> \in Holders(fd)
      BY DEF Holders
    <3> QED
      BY <1>1, <3>1
  <2>3. ~ \E w \in Serving : client[w].fd = fd
    <3>1. \A w \in Serving : client[w].fd = fd => <<"worker", w>> \in Holders(fd)
      BY DEF Holders
    <3> QED
      BY <1>1, <3>1
  <2>4. open[fd] = NoPeer
    BY <2>1, <2>2, <2>3 DEF OwnInv, OpenHeld
  <2> QED
    BY <1>1, <2>4, FS_EmptySet
<1>2. CASE Holders(fd) # {}
  <2>1. PICK h \in Holders(fd) : TRUE
    BY <1>2
  <2>2. Holders(fd) = {h}
    BY <2>1, HoldersAgree
  <2>3. open[fd] # NoPeer
    BY <2>1 DEF OwnInv, HeldOpen, PeerOf, Holders
  <2> QED
    BY <1>2, <2>2, <2>3, FS_Singleton
<1> QED
  BY <1>1, <1>2

(* An open connection is always with the main thread, in the queue or with *)
(* one worker: in exactly one of these places, however many descriptors    *)
(* are opened and closed around it, until a close goes astray.             *)
THEOREM ConnectionHasOneHolder == Spec => []OneHolder
BY OwnershipInvariance, OneHolderHolds, PTL

(* The copy that workQueuePop makes and the original that it frees never   *)
(* get out of balance: until a close goes astray, the structs allocated    *)
(* are those to be freed.                                                  *)
THEOREM StructsAreBalanced == Spec => []NoClientLeak
<1>1. OwnedInv => NoClientLeak
  BY DEF OwnedInv, OwnInv, Balanced, NoClientLeak
<1> QED
  BY <1>1, OwnershipInvariance, PTL

(* Of all the steps only the close of handleClientRequest makes a          *)
(* descriptor free, and it does so to the connection whose end was read.   *)
LEMMA ClosingStep ==
  ASSUME CoreInv, OwnInv, Next, ~ Astray', NEW fd \in Fds, open[fd] # NoPeer, open'[fd] = NoPeer
  PROVE  peer[open[fd]] = "gone"
<1> USE PoolAssumption
<1>1. CASE Accept
  <2>1. PICK f \in Fds : open[f] = NoPeer /\ open' = [open EXCEPT ![f] = Head(backlog)]
    BY <1>1 DEF Accept
  <2> QED
    BY <2>1 DEF CoreInv, TypeOK
<1>2. CASE \E w \in Workers : CloseClient(w)
  <2>1. PICK w \in Workers : CloseClient(w)
    BY <1>2
  <2>2. pc[w] = "close"
    BY <2>1 DEF CloseClient, WorkerAt
  <2>3. open' = [open EXCEPT ![client[w].fd] = NoPeer]
    BY <2>1 DEF CloseClient, CloseDescriptor
  <2>4. fd = client[w].fd
    BY <2>3 DEF CoreInv, TypeOK
  <2> QED
    BY <2>2, <2>4 DEF OwnInv, ClosesGone, PeerOf
<1>3. CASE ~ Accept /\ ~ \E w \in Workers : CloseClient(w)
  <2>1. \A w \in Workers : ~ CloseFreed(w)
    BY DEF CloseFreed, WorkerAt, Astray, CoreInv, TypeOK
  <2>2. open' = open
    BY <1>3, <2>1 DEF Next, Connect, SendRequest, HangUp, MainStep, PushLock, PushAppend,
         PushSignal, PushUnlock, PopLock, PopStep, PopTest, PopWait, PopTake, PopUnlock,
         SpuriousWakeup, ServeStep, ReadRequest, ReadEnd, Reply, ReplyFails, ReplyKills,
         FreeClient, FreeAgain
  <2> QED
    BY <2>2
<1> QED
  BY <1>1, <1>2, <1>3

(* Until a worker closes what it reads from a freed Client, the server     *)
(* closes no connection of a peer that is still there, although            *)
(* descriptors are used again as soon as they are closed.                  *)
THEOREM ClosesAfterHangUp == Spec => ClosesOnlyAfterHangUp
<1>1. OwnedInv /\ [Next]_vars =>
        [~ Astray' => \A fd \in Fds : open[fd] # NoPeer /\ open'[fd] = NoPeer
                                         => peer[open[fd]] = "gone"]_vars
  BY ClosingStep, AstrayStays DEF OwnedInv
<1> QED
  BY <1>1, OwnershipInvariance, PTL DEF Spec, ClosesOnlyAfterHangUp

-----------------------------------------------------------------------------
(* Sequences.                                                              *)

LEMMA ConcatAppend ==
  ASSUME NEW S, NEW s \in Seq(S), NEW t \in Seq(S), NEW e \in S
  PROVE  s \o Append(t, e) = Append(s \o t, e)
<1>1. <<e>> \in Seq(S) /\ s \o t \in Seq(S)
  BY ConcatProperties
<1>2. s \o Append(t, e) = s \o (t \o <<e>>)
  BY AppendIsConcat
<1>3. s \o (t \o <<e>>) = (s \o t) \o <<e>>
  BY <1>1, ConcatAssociative
<1> QED
  BY <1>1, <1>2, <1>3, AppendIsConcat

LEMMA HeadThenTail ==
  ASSUME NEW S, NEW s \in Seq(S), s # <<>>
  PROVE  <<Head(s)>> \in Seq(S) /\ <<Head(s)>> \o Tail(s) = s
<1>1. /\ Head(s) \in S /\ Head(s) = s[1]
      /\ <<Head(s)>> \in Seq(S) /\ Len(<<Head(s)>>) = 1
      /\ Tail(s) \in Seq(S) /\ Len(Tail(s)) = Len(s) - 1
      /\ \A i \in 1 .. Len(Tail(s)) : Tail(s)[i] = s[i + 1]
  BY HeadTailProperties
<1>2. <<Head(s)>> \o Tail(s) \in Seq(S) /\ Len(<<Head(s)>> \o Tail(s)) = Len(s)
  BY <1>1, ConcatProperties, LenProperties
<1>3. \A i \in 1 .. Len(s) : (<<Head(s)>> \o Tail(s))[i] = s[i]
  BY <1>1
<1> QED
  BY <1>1, <1>2, <1>3, SeqEqual

LEMMA ConcatTail ==
  ASSUME NEW S, NEW s \in Seq(S), NEW t \in Seq(S), s # <<>>
  PROVE  /\ s \o t # <<>>
         /\ Head(s \o t) = Head(s)
         /\ Tail(s \o t) = Tail(s) \o t
<1>1. Len(s) \in Nat \ {0} /\ Len(t) \in Nat
  BY EmptySeq, LenProperties
<1>2. /\ s \o t \in Seq(S)
      /\ Len(s \o t) = Len(s) + Len(t)
      /\ \A i \in 1 .. Len(s) + Len(t) :
           (s \o t)[i] = IF i <= Len(s) THEN s[i] ELSE t[i - Len(s)]
  BY ConcatProperties
<1>3. s \o t # <<>>
  BY <1>1, <1>2, EmptySeq
<1>4. /\ Tail(s \o t) \in Seq(S)
      /\ Len(Tail(s \o t)) = Len(s) + Len(t) - 1
      /\ \A i \in 1 .. Len(Tail(s \o t)) : Tail(s \o t)[i] = (s \o t)[i + 1]
  BY <1>2, <1>3, HeadTailProperties
<1>5. /\ Tail(s) \in Seq(S)
      /\ Len(Tail(s)) = Len(s) - 1
      /\ \A i \in 1 .. Len(Tail(s)) : Tail(s)[i] = s[i + 1]
  BY HeadTailProperties
<1>6. /\ Tail(s) \o t \in Seq(S)
      /\ Len(Tail(s) \o t) = Len(s) - 1 + Len(t)
      /\ \A i \in 1 .. Len(s) - 1 + Len(t) :
           (Tail(s) \o t)[i] = IF i <= Len(s) - 1 THEN Tail(s)[i] ELSE t[i - (Len(s) - 1)]
  BY <1>5, ConcatProperties
<1>7. \A i \in 1 .. Len(Tail(s \o t)) : Tail(s \o t)[i] = (Tail(s) \o t)[i]
  BY <1>1, <1>2, <1>4, <1>5, <1>6
<1>8. Tail(s \o t) = Tail(s) \o t
  BY <1>1, <1>4, <1>6, <1>7, SeqEqual
<1>9. Head(s \o t) = Head(s)
  BY <1>1, <1>2
<1> QED
  BY <1>3, <1>8, <1>9

-----------------------------------------------------------------------------
(* The parts of the peers that wait: in the queue, then the one the main   *)
(* thread holds, then the backlog.                                         *)
QueuePeers == [i \in 1 .. Len(queue) |-> open[queue[i].fd]]
MainPeers  == IF MainHolds THEN <<open[accepted.fd]>> ELSE <<>>

LEMMA PendingParts == PendingPeers = QueuePeers \o MainPeers \o backlog
BY DEF PendingPeers, QueuePeers, MainPeers

LEMMA PartsAreSeqs ==
  ASSUME CoreInv, OwnInv
  PROVE  /\ QueuePeers \in Seq(Peers) /\ Len(QueuePeers) = Len(queue)
         /\ MainPeers \in Seq(Peers)
         /\ backlog \in Seq(Peers)
         /\ QueuePeers \o MainPeers \in Seq(Peers)
<1>1. queue \in Seq(Client) /\ Len(queue) \in Nat /\ DOMAIN queue = 1 .. Len(queue)
  BY LenProperties DEF CoreInv, TypeOK
<1>2. \A i \in 1 .. Len(queue) : open[queue[i].fd] \in Peers
  BY <1>1, HeldFds DEF CoreInv, TypeOK, OwnInv, HeldOpen
<1>3. QueuePeers \in Seq(Peers) /\ Len(QueuePeers) = Len(queue)
  BY <1>1, <1>2 DEF QueuePeers
<1>4. MainHolds => open[accepted.fd] \in Peers
  BY HeldFds DEF CoreInv, TypeOK, OwnInv, HeldOpen
<1>5. MainPeers \in Seq(Peers)
  BY <1>4 DEF MainPeers
<1> QED
  BY <1>3, <1>5, ConcatProperties DEF CoreInv, TypeOK

(* Who waits is in the backlog or at the end of an open descriptor.        *)
LEMMA WaitersAreSomewhere ==
  ASSUME CoreInv, OwnInv, NEW i \in DOMAIN PendingPeers
  PROVE  \/ \E f \in Fds : PendingPeers[i] = open[f]
         \/ \E j \in DOMAIN backlog : PendingPeers[i] = backlog[j]
<1> DEFINE Front == QueuePeers \o MainPeers
<1>1. /\ \A j \in 1 .. Len(QueuePeers) : \E f \in Fds : QueuePeers[j] = open[f]
      /\ \A j \in 1 .. Len(MainPeers) : \E f \in Fds : MainPeers[j] = open[f]
  <2>1. Len(queue) \in Nat /\ DOMAIN queue = 1 .. Len(queue)
    BY LenProperties DEF CoreInv, TypeOK
  <2>2. \A j \in 1 .. Len(QueuePeers) : \E f \in Fds : QueuePeers[j] = open[f]
    BY <2>1, PartsAreSeqs, HeldFds DEF QueuePeers
  <2>3. \A j \in 1 .. Len(MainPeers) : MainHolds /\ MainPeers[j] = open[accepted.fd]
    BY DEF MainPeers
  <2> QED
    BY <2>2, <2>3, HeldFds
<1>2. /\ Front \in Seq(Peers) /\ Len(Front) = Len(QueuePeers) + Len(MainPeers)
      /\ \A j \in 1 .. Len(Front) : Front[j] = IF j <= Len(QueuePeers) THEN QueuePeers[j]
                                               ELSE MainPeers[j - Len(QueuePeers)]
  BY PartsAreSeqs, ConcatProperties
<1>3. /\ Len(QueuePeers) \in Nat /\ Len(MainPeers) \in Nat /\ Len(backlog) \in Nat
      /\ DOMAIN backlog = 1 .. Len(backlog)
  BY PartsAreSeqs, LenProperties
<1>4. \A j \in 1 .. Len(Front) : \E f \in Fds : Front[j] = open[f]
  <2> SUFFICES ASSUME NEW j \in 1 .. Len(Front) PROVE \E f \in Fds : Front[j] = open[f]
    OBVIOUS
  <2>1. CASE j <= Len(QueuePeers)
    BY <1>1, <1>2, <1>3, <2>1
  <2>2. CASE ~ (j <= Len(QueuePeers))
    <3>1. j - Len(QueuePeers) \in 1 .. Len(MainPeers)
      BY <1>2, <1>3, <2>2
    <3> QED
      BY <1>1, <1>2, <2>2, <3>1
  <2> QED
    BY <2>1, <2>2
<1>5. /\ PendingPeers \in Seq(Peers)
      /\ Len(PendingPeers) = Len(Front) + Len(backlog)
      /\ DOMAIN PendingPeers = 1 .. Len(PendingPeers)
      /\ \A j \in 1 .. Len(PendingPeers) :
           PendingPeers[j] = IF j <= Len(Front) THEN Front[j] ELSE backlog[j - Len(Front)]
  BY PartsAreSeqs, PendingParts, ConcatProperties, LenProperties
<1>6. CASE i <= Len(Front)
  BY <1>2, <1>3, <1>4, <1>5, <1>6
<1>7. CASE ~ (i <= Len(Front))
  <2>1. i - Len(Front) \in DOMAIN backlog
    BY <1>2, <1>3, <1>5, <1>7
  <2> QED
    BY <1>5, <1>7, <2>1
<1> QED
  BY <1>6, <1>7

(* A step that leaves alone who waits and who is served is a stutter.      *)
LEMMA ServedStays ==
  ASSUME Serving' = Serving,
         \A w \in Serving : client'[w] = client[w],
         \A w \in Serving : open'[client[w].fd] = open[client[w].fd]
  PROVE  ServedPeer' = ServedPeer
BY DEF ServedPeer, PeerOf

LEMMA PendingStays ==
  ASSUME UNCHANGED <<open, queue, backlog>>, MainHolds' = MainHolds, MainHolds => accepted' = accepted
  PROVE  PendingPeers' = PendingPeers
BY DEF PendingPeers

-----------------------------------------------------------------------------
(* One lemma for each kind of step.                                        *)

LEMMA InitService == Init => Service!Init
<1> SUFFICES ASSUME Init PROVE Service!Init
  OBVIOUS
<1>1. queue = <<>> /\ backlog = <<>> /\ ~ MainHolds /\ Serving = {}
  BY DEF Init, MainHolds, Serving
<1>2. QueuePeers = <<>> /\ MainPeers = <<>>
  BY <1>1 DEF QueuePeers, MainPeers
<1>3. PendingPeers = <<>> /\ Astray = FALSE
  BY <1>1, <1>2, PendingParts, ConcatEmptySeq, EmptySeq DEF Init, Astray
<1>4. ServedPeer = [w \in Workers |-> NoPeer]
  BY <1>1 DEF ServedPeer
<1> QED
  BY <1>3, <1>4 DEF Service!Init

(* A peer that connects had no connection, and queues up behind the others. *)
LEMMA ConnectArrives ==
  ASSUME CoreInv, OwnInv, NEW p \in Peers, Connect(p)
  PROVE  Service!Arrive(p)
<1>1. /\ backlog' = Append(backlog, p)
      /\ peer[p] = "away"
      /\ UNCHANGED <<open, queue, mainPc, accepted, pc, client>>
  BY DEF Connect, mainVars, workerVars
<1>2. /\ \A f \in Fds : open[f] # p
      /\ \A j \in DOMAIN backlog : backlog[j] # p
  BY <1>1 DEF OwnInv, AwayIsNowhere
<1>3. PendingPeers' = Append(PendingPeers, p)
  <2>1. QueuePeers' = QueuePeers /\ MainPeers' = MainPeers
    BY <1>1 DEF QueuePeers, MainPeers, MainHolds
  <2>2. PendingPeers' = QueuePeers \o MainPeers \o Append(backlog, p)
    BY <1>1, <2>1 DEF PendingPeers, QueuePeers, MainPeers
  <2> QED
    BY <2>2, PartsAreSeqs, PendingParts, ConcatAppend
<1>4. ServedPeer' = ServedPeer
  BY <1>1 DEF ServedPeer, Serving, PeerOf
<1>5. ~ Service!Waits(p)
  BY <1>2, WaitersAreSomewhere DEF Service!Waits
<1>6. ~ Service!IsServed(p)
  BY <1>2, HeldFds, PoolAssumption DEF Service!IsServed, ServedPeer, PeerOf
<1> QED
  BY <1>3, <1>4, <1>5, <1>6 DEF Service!Arrive

(* accept() only moves the boundary between the backlog and the main       *)
(* thread, workQueuePush the one between the main thread and the queue.    *)
LEMMA AcceptStutters ==
  ASSUME CoreInv, OwnInv, Accept
  PROVE  PendingPeers' = PendingPeers /\ ServedPeer' = ServedPeer
<1>1. PICK fd \in Fds :
        /\ open[fd] = NoPeer
        /\ open' = [open EXCEPT ![fd] = Head(backlog)]
        /\ accepted' = clientCreate(fd, Main)
  BY DEF Accept
<1>2. /\ backlog # <<>> /\ backlog' = Tail(backlog)
      /\ ~ MainHolds /\ MainHolds'
      /\ UNCHANGED <<queue, pc, client>>
  BY DEF Accept, MainAt, MainHolds, workerVars
<1>3. \A f \in Fds : open[f] # NoPeer => open'[f] = open[f]
  BY <1>1 DEF CoreInv, TypeOK
<1>4. ServedPeer' = ServedPeer
  <2>1. Serving' = Serving
    BY <1>2 DEF Serving
  <2> QED
    BY <1>2, <1>3, <2>1, HeldFds, ServedStays DEF OwnInv, HeldOpen, PeerOf
<1>5. QueuePeers' = QueuePeers
  <2>1. DOMAIN queue = 1 .. Len(queue)
    BY LenProperties DEF CoreInv, TypeOK
  <2> QED
    BY <1>2, <1>3, <2>1, HeldFds DEF QueuePeers, OwnInv, HeldOpen
<1>6. MainPeers = <<>> /\ MainPeers' = <<Head(backlog)>>
  BY <1>1, <1>2 DEF MainPeers, clientCreate, CoreInv, TypeOK
<1>7. PendingPeers' = (QueuePeers \o <<Head(backlog)>>) \o Tail(backlog)
  BY <1>2, <1>5, <1>6 DEF PendingPeers, QueuePeers, MainPeers
<1>8. (QueuePeers \o <<Head(backlog)>>) \o Tail(backlog) = QueuePeers \o backlog
  <2>1. <<Head(backlog)>> \in Seq(Peers) /\ <<Head(backlog)>> \o Tail(backlog) = backlog
    BY <1>2, PartsAreSeqs, HeadThenTail
  <2>2. Tail(backlog) \in Seq(Peers)
    BY <1>2, PartsAreSeqs, HeadTailProperties
  <2> QED
    BY <2>1, <2>2, PartsAreSeqs, ConcatAssociative, SMTT(40)
<1>9. PendingPeers = QueuePeers \o backlog
  BY <1>6, PendingParts, PartsAreSeqs, ConcatEmptySeq
<1> QED
  BY <1>4, <1>7, <1>8, <1>9

LEMMA AppendStutters ==
  ASSUME CoreInv, OwnInv, PushAppend
  PROVE  PendingPeers' = PendingPeers /\ ServedPeer' = ServedPeer
<1>1. /\ MainHolds /\ ~ MainHolds'
      /\ queue' = Append(queue, accepted)
      /\ UNCHANGED <<open, backlog, accepted, pc, client>>
  BY DEF PushAppend, MainAt, MainHolds, peerVars, workerVars
<1>2. ServedPeer' = ServedPeer
  BY <1>1 DEF ServedPeer, Serving, PeerOf
<1>3. MainPeers = <<open[accepted.fd]>> /\ MainPeers' = <<>>
  BY <1>1 DEF MainPeers
<1>4. open[accepted.fd] \in Peers
  BY <1>1, HeldFds DEF CoreInv, TypeOK, OwnInv, HeldOpen
<1>5. QueuePeers' = QueuePeers \o MainPeers
  <2>1. /\ queue \in Seq(Client) /\ Len(queue) \in Nat
        /\ Len(queue') = Len(queue) + 1
        /\ \A i \in 1 .. Len(queue) : queue'[i] = queue[i]
        /\ queue'[Len(queue) + 1] = accepted
    BY <1>1 DEF CoreInv, TypeOK
  <2>2. QueuePeers' = [i \in 1 .. Len(queue) + 1 |-> open[queue'[i].fd]]
    BY <1>1, <2>1 DEF QueuePeers
  <2>3. /\ QueuePeers \o MainPeers \in Seq(Peers)
        /\ Len(QueuePeers \o MainPeers) = Len(queue) + 1
        /\ \A i \in 1 .. Len(queue) : (QueuePeers \o MainPeers)[i] = open[queue[i].fd]
        /\ (QueuePeers \o MainPeers)[Len(queue) + 1] = open[accepted.fd]
    <3>1. QueuePeers \in Seq(Peers) /\ Len(QueuePeers) = Len(queue)
      BY <2>1, PartsAreSeqs DEF QueuePeers
    <3>2. \A i \in 1 .. Len(queue) : QueuePeers[i] = open[queue[i].fd]
      BY DEF QueuePeers
    <3>3. QueuePeers \o MainPeers = Append(QueuePeers, open[accepted.fd])
      BY <1>3, <1>4, <3>1, AppendIsConcat
    <3>4. /\ Append(QueuePeers, open[accepted.fd]) \in Seq(Peers)
          /\ Len(Append(QueuePeers, open[accepted.fd])) = Len(queue) + 1
          /\ \A i \in 1 .. Len(queue) : Append(QueuePeers, open[accepted.fd])[i] = QueuePeers[i]
          /\ Append(QueuePeers, open[accepted.fd])[Len(queue) + 1] = open[accepted.fd]
      BY <1>4, <3>1, AppendProperties
    <3> QED
      BY <3>2, <3>3, <3>4
  <2>4. \A i \in 1 .. Len(queue) + 1 : QueuePeers'[i] = (QueuePeers \o MainPeers)[i]
    <3>1. \A i \in 1 .. Len(queue) + 1 : i \in 1 .. Len(queue) \/ i = Len(queue) + 1
      BY <2>1
    <3>2. \A i \in 1 .. Len(queue) + 1 : QueuePeers'[i] = open[queue'[i].fd]
      BY <2>2
    <3> QED
      BY <2>1, <2>3, <3>1, <3>2
  <2>5. QueuePeers' \in Seq(Peers) /\ Len(QueuePeers') = Len(queue) + 1
    <3>1. \A i \in 1 .. Len(queue) : open[queue[i].fd] \in Peers
      BY PartsAreSeqs, ElementOfSeq DEF QueuePeers
    <3>2. \A i \in 1 .. Len(queue) + 1 : open[queue'[i].fd] \in Peers
      BY <1>4, <2>1, <3>1
    <3> QED
      BY <2>1, <2>2, <3>2
  <2> QED
    BY <2>3, <2>4, <2>5, SeqEqual
<1>6. PendingPeers' = (QueuePeers \o MainPeers) \o <<>> \o backlog
  BY <1>1, <1>3, <1>5 DEF PendingPeers, QueuePeers, MainPeers
<1> QED
  BY <1>2, <1>6, PendingParts, PartsAreSeqs, ConcatEmptySeq

(* The oldest client is the head of the queue, and it has waited longest.  *)
LEMMA TakeTakes ==
  ASSUME CoreInv, OwnInv, NEW w \in Workers, PopTake(w)
  PROVE  Service!Take(w)
<1>1. /\ queue # <<>> /\ queue \in Seq(Client) /\ queue' = Tail(queue)
      /\ client' = [client EXCEPT ![w] = clientCreate(Head(queue).fd, w)]
      /\ pc[w] = "take" /\ pc' = [pc EXCEPT ![w] = "unlock"]
      /\ UNCHANGED <<open, backlog, mainPc, accepted>>
  BY DEF PopTake, WorkerAt, peerVars, mainVars, CoreInv, TypeOK
<1>2. /\ Len(queue) \in Nat \ {0} /\ Head(queue) = queue[1]
      /\ Len(queue') = Len(queue) - 1
      /\ \A i \in 1 .. Len(queue') : queue'[i] = queue[i + 1]
  BY <1>1
<1>3. /\ client'[w].fd = queue[1].fd
      /\ \A v \in Workers : v # w => client'[v] = client[v]
      /\ w \notin Serving /\ Serving' = Serving \cup {w}
  BY <1>1, <1>2 DEF clientCreate, Serving, CoreInv, TypeOK
<1>4. /\ QueuePeers # <<>> /\ Head(QueuePeers) = open[queue[1].fd]
      /\ QueuePeers' = Tail(QueuePeers)
  <2>1. QueuePeers # <<>> /\ Head(QueuePeers) = open[queue[1].fd]
    BY <1>2, PartsAreSeqs DEF QueuePeers
  <2>2. /\ Tail(QueuePeers) \in Seq(Peers)
        /\ Len(Tail(QueuePeers)) = Len(queue) - 1
        /\ \A i \in 1 .. Len(queue) - 1 : Tail(QueuePeers)[i] = QueuePeers[i + 1]
    BY <2>1, PartsAreSeqs, HeadTailProperties
  <2>3. QueuePeers' = [i \in 1 .. Len(queue) - 1 |-> open[queue'[i].fd]]
    BY <1>1, <1>2 DEF QueuePeers
  <2>4. \A i \in 1 .. Len(queue) - 1 : QueuePeers'[i] = Tail(QueuePeers)[i]
    BY <1>2, <2>2, <2>3 DEF QueuePeers
  <2>5. QueuePeers' \in Seq(Peers) /\ Len(QueuePeers') = Len(queue) - 1
    BY <1>2, <2>2, <2>3, <2>4, ElementOfSeq
  <2> QED
    BY <2>1, <2>2, <2>4, <2>5, SeqEqual
<1>5. PendingPeers = QueuePeers \o (MainPeers \o backlog)
  BY PendingParts, PartsAreSeqs, ConcatAssociative, SMTT(40)
<1>6. PendingPeers' = Tail(QueuePeers) \o (MainPeers \o backlog)
  <2>1. MainPeers' = MainPeers
    BY <1>1 DEF MainPeers, MainHolds
  <2>2. PendingPeers' = (Tail(QueuePeers) \o MainPeers) \o backlog
    BY <1>1, <1>4, <2>1 DEF PendingPeers, QueuePeers, MainPeers
  <2>3. Tail(QueuePeers) \in Seq(Peers)
    BY <1>4, PartsAreSeqs, HeadTailProperties
  <2> QED
    BY <2>2, <2>3, PartsAreSeqs, ConcatAssociative
<1>7. /\ PendingPeers # <<>>
      /\ Head(PendingPeers) = open[queue[1].fd]
      /\ PendingPeers' = Tail(PendingPeers)
  <2>1. MainPeers \o backlog \in Seq(Peers)
    BY PartsAreSeqs, ConcatProperties
  <2> QED
    BY <1>4, <1>5, <1>6, <2>1, PartsAreSeqs, ConcatTail
<1>8. /\ ServedPeer[w] = NoPeer
      /\ ServedPeer' = [ServedPeer EXCEPT ![w] = open[queue[1].fd]]
  <2>1. ServedPeer' = [v \in Workers |-> IF v \in Serving' THEN open[client'[v].fd] ELSE NoPeer]
    BY <1>1 DEF ServedPeer, PeerOf
  <2>2. ServedPeer = [v \in Workers |-> IF v \in Serving THEN open[client[v].fd] ELSE NoPeer]
    BY DEF ServedPeer, PeerOf
  <2> QED
    BY <1>3, <2>1, <2>2
<1> QED
  BY <1>7, <1>8 DEF Service!Take

(* The close ends the service of a connection that nobody else holds.      *)
LEMMA CloseFinishes ==
  ASSUME CoreInv, OwnInv, NEW w \in Workers, CloseClient(w)
  PROVE  Service!Finish(w)
<1>1. /\ pc[w] = "close" /\ pc'[w] = "free"
      /\ \A v \in Workers : v # w => pc'[v] = pc[v]
      /\ UNCHANGED <<backlog, queue, mainPc, accepted, client>>
      /\ CloseDescriptor(client[w].fd)
  BY DEF CloseClient, WorkerAt, mainVars, CoreInv, TypeOK
<1>2. w \in Serving /\ Serving' = Serving \ {w} /\ MainHolds' = MainHolds
  BY <1>1 DEF Serving, MainHolds
<1>3. \A f \in Fds : f # client[w].fd => open'[f] = open[f]
  BY <1>1, <1>2, HeldFds DEF CloseDescriptor, CoreInv, TypeOK
<1>4. PendingPeers' = PendingPeers
  <2>1. MainHolds => open'[accepted.fd] = open[accepted.fd]
    BY <1>2, <1>3, HeldFds DEF OwnInv, HeldApart
  <2>2. MainPeers' = MainPeers
    BY <1>1, <1>2, <2>1 DEF MainPeers
  <2>3. \A i \in 1 .. Len(queue) : open'[queue[i].fd] = open[queue[i].fd]
    <3>1. DOMAIN queue = 1 .. Len(queue)
      BY LenProperties DEF CoreInv, TypeOK
    <3> QED
      BY <1>2, <1>3, <3>1, HeldFds DEF OwnInv, HeldApart
  <2>4. QueuePeers' = QueuePeers
    BY <1>1, <2>3 DEF QueuePeers
  <2> QED
    BY <1>1, <2>2, <2>4 DEF PendingPeers, QueuePeers, MainPeers
<1>5. ServedPeer' = [ServedPeer EXCEPT ![w] = NoPeer]
  <2>1. \A v \in Serving : v # w => open'[client[v].fd] = open[client[v].fd]
    BY <1>2, <1>3, HeldFds DEF OwnInv, HeldApart
  <2>2. ServedPeer' = [v \in Workers |-> IF v \in Serving' THEN open'[client[v].fd] ELSE NoPeer]
    BY <1>1 DEF ServedPeer, PeerOf
  <2> QED
    BY <1>2, <2>1, <2>2 DEF ServedPeer, PeerOf
<1>6. ServedPeer[w] # NoPeer
  BY <1>2 DEF ServedPeer, OwnInv, HeldOpen
<1> QED
  BY <1>4, <1>5, <1>6 DEF Service!Finish

(* All other steps are within one thread, as far as a peer can tell.       *)
LEMMA OthersStutter ==
  ASSUME CoreInv, OwnInv,
         \/ \E p \in Peers : SendRequest(p) \/ HangUp(p)
         \/ PushLock \/ PushSignal \/ PushUnlock
         \/ \E w \in Workers :
              \/ PopLock(w) \/ PopTest(w) \/ PopWait(w) \/ PopUnlock(w) \/ SpuriousWakeup(w)
              \/ ReadRequest(w) \/ ReadEnd(w) \/ Reply(w) \/ ReplyFails(w) \/ ReplyKills(w)
              \/ FreeClient(w)
  PROVE  PendingPeers' = PendingPeers /\ ServedPeer' = ServedPeer
<1>1. CASE \/ \E p \in Peers : SendRequest(p) \/ HangUp(p)
           \/ PushLock \/ PushSignal \/ PushUnlock
  <2>1. /\ UNCHANGED <<open, queue, backlog, client>>
        /\ MainHolds' = MainHolds /\ (MainHolds => accepted' = accepted)
    BY <1>1 DEF SendRequest, HangUp, PushLock, PushSignal, PushUnlock, MainAt, MainHolds,
                peerVars, mainVars, workerVars
  <2>2. \A v \in Workers : pc'[v] = pc[v] \/ (pc[v] = "wait" /\ pc'[v] = "woken")
    BY <1>1 DEF SendRequest, HangUp, PushLock, PushSignal, PushUnlock, Waiting, workerVars,
                CoreInv, TypeOK
  <2>3. Serving' = Serving
    BY <2>2 DEF Serving
  <2> QED
    BY <2>1, <2>3, PendingStays, ServedStays
<1>2. ASSUME NEW w \in Workers,
             \/ PopLock(w) \/ PopTest(w) \/ PopWait(w) \/ PopUnlock(w) \/ SpuriousWakeup(w)
             \/ ReadRequest(w) \/ ReadEnd(w) \/ Reply(w) \/ ReplyFails(w) \/ ReplyKills(w)
             \/ FreeClient(w)
      PROVE  PendingPeers' = PendingPeers /\ ServedPeer' = ServedPeer
  <2>1. /\ UNCHANGED <<open, queue, backlog, accepted, mainPc>>
        /\ MainHolds' = MainHolds
    BY <1>2 DEF PopLock, PopTest, PopWait, PopUnlock, SpuriousWakeup, ReadRequest, ReadEnd, Reply,
                ReplyFails, ReplyKills, FreeClient, MainHolds, peerVars, mainVars
  <2>2. /\ \A v \in Workers : v # w => pc'[v] = pc[v] /\ client'[v] = client[v]
        /\ w \in Serving <=> pc'[w] \in {"unlock", "read", "reply", "close", "closeFreed"}
        /\ w \in Serving => client'[w] = client[w]
    BY <1>2 DEF PopLock, PopTest, PopWait, PopUnlock, SpuriousWakeup, ReadRequest, ReadEnd, Reply,
                ReplyFails, ReplyKills, FreeClient, WorkerAt, workerVars, Serving,
                CoreInv, TypeOK
  <2>3. Serving' = Serving
    BY <2>2 DEF Serving
  <2>4. \A v \in Serving : client'[v] = client[v]
    BY <2>2 DEF Serving
  <2> QED
    BY <2>1, <2>3, <2>4, PendingStays, ServedStays
<1> QED
  BY <1>1, <1>2

LEMMA NextService ==
  ASSUME CoreInv, OwnInv, [Next]_vars, ~ Astray'
  PROVE  Service!Next \/ (PendingPeers' = PendingPeers /\ ServedPeer' = ServedPeer)
<1>1. CASE UNCHANGED vars
  BY <1>1 DEF vars, peerVars, mainVars, workerVars, PendingPeers, ServedPeer, Serving, PeerOf,
              MainHolds
<1>2. CASE \E p \in Peers : Connect(p)
  BY <1>2, ConnectArrives DEF Service!Next
<1>3. CASE Accept \/ PushAppend
  BY <1>3, AcceptStutters, AppendStutters
<1>4. CASE \E w \in Workers : PopTake(w)
  BY <1>4, TakeTakes DEF Service!Next
<1>5. CASE \E w \in Workers : CloseClient(w)
  BY <1>5, CloseFinishes DEF Service!Next
<1>6. CASE ~ (Accept \/ PushAppend \/ UNCHANGED vars)
           /\ ~ (\E p \in Peers : Connect(p))
           /\ ~ (\E w \in Workers : PopTake(w) \/ CloseClient(w))
  <2>1. \/ \E p \in Peers : SendRequest(p) \/ HangUp(p)
        \/ PushLock \/ PushSignal \/ PushUnlock
        \/ \E w \in Workers :
             \/ PopLock(w) \/ PopTest(w) \/ PopWait(w) \/ PopUnlock(w) \/ SpuriousWakeup(w)
             \/ ReadRequest(w) \/ ReadEnd(w) \/ Reply(w) \/ ReplyFails(w) \/ ReplyKills(w)
             \/ FreeClient(w)
    <3>1. \A w \in Workers : ~ CloseFreed(w) /\ ~ FreeAgain(w)
      BY DEF CloseFreed, FreeAgain, WorkerAt, workerVars, Astray, CoreInv, TypeOK
    <3> QED
      BY <1>6, <3>1 DEF Next, MainStep, PopStep, ServeStep
  <2> QED
    BY <2>1, OthersStutter
<1> QED
  BY <1>1, <1>2, <1>3, <1>4, <1>5, <1>6

-----------------------------------------------------------------------------
(* The pool implements ConnService: connections are served in the order in *)
(* which they arrived, each by one worker, and a worker that has closed a  *)
(* connection is free for the next.  Threads, mutex, condition variable,   *)
(* the reuse of descriptors and the copies of Client structs do not show,  *)
(* until a worker closes what it reads from a freed Client: that breaks    *)
(* the service, and nothing is said of it from there on.                   *)
THEOREM PoolImplementsService == Spec => ServesInOrder
<1>1. Init => Service!Init
  BY InitService
<1>2. ASSUME OwnedInv, [Next]_vars
      PROVE  [(Service!Next /\ UNCHANGED Astray) \/ Service!Break]_(Service!vars)
  <2>1. CASE Astray'
    BY <2>1 DEF Service!Break
  <2>2. CASE ~ Astray'
    <3>1. ~ Astray
      BY <1>2, <2>2, AstrayStays DEF OwnedInv
    <3>2. UNCHANGED Astray
      BY <2>2, <3>1 DEF Astray
    <3>3. Service!Next \/ (PendingPeers' = PendingPeers /\ ServedPeer' = ServedPeer)
      BY <1>2, <2>2, <3>1, NextService DEF OwnedInv
    <3> QED
      BY <3>2, <3>3 DEF Service!vars
  <2> QED
    BY <2>1, <2>2
<1> QED
  BY <1>1, <1>2, OwnershipInvariance, PTL DEF Spec, ServesInOrder, Service!Spec

=============================================================================
