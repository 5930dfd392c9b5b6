------------------------------ MODULE Mmalloc -------------------------------
(***************************************************************************)
(* The allocator of src/mmalloc.c, called by several threads at once.  It  *)
(* keeps the size of each block in front of it and the sum of all sizes in *)
(* totalAllocated, which has no lock: each += and -= is a load and a store.*)
(*                                                                         *)
(* A block is an address with its size.  Threads hand blocks to each other *)
(* but no two of them free or reallocate the same block.                   *)
(***************************************************************************)
EXTENDS Integers, FiniteSets, FiniteSetsExt

CONSTANTS
  Threads,
  Blocks,           (* the addresses of blocks                             *)
  Sizes,            (* the sizes that are asked for                        *)
  Limits,           (* the limits that are set; 0 is none                  *)
  Null,
  Word              (* size_t wraps at Word, which is 2^64 in the program  *)

ASSUME MmallocAssumption ==
  /\ Word \in Nat \ {0}
  /\ Sizes \subseteq 0 .. Word - 1
  /\ Limits \subseteq 0 .. Word - 1
  /\ Null \notin Blocks

VARIABLES
  status,           (* "running", "aborted", or "undefined" after a write  *)
                    (* through a null pointer                              *)
  mLimit,
  OOMHandler,       (* "none", or "returns": a handler that comes back     *)
  totalAllocated,
  size,             (* the blocks that are allocated, with their sizes     *)
  call,             (* each thread's place in a call, and its registers    *)
  overlapped        (* a call has ever begun during another: history       *)

vars == <<status, mLimit, OOMHandler, totalAllocated, size, call, overlapped>>

Calls == {"mmalloc", "mrealloc", "mfree"}

CallRec ==
  [pc : {"idle", "check", "refuse", "load-", "store-", "free", "obtain", "load+", "store+"},
   fn : Calls \cup {"none"}, size : Sizes \cup {0}, ptr : Blocks \cup {Null},
   new : Blocks \cup {Null}, total : 0 .. Word - 1]

TypeOK ==
  /\ status \in {"running", "aborted", "undefined"}
  /\ mLimit \in Limits \cup {0}
  /\ OOMHandler \in {"none", "returns"}
  /\ totalAllocated \in 0 .. Word - 1
  /\ DOMAIN size \subseteq Blocks /\ \A b \in DOMAIN size : size[b] \in Sizes
  /\ call \in [Threads -> CallRec]
  /\ overlapped \in BOOLEAN

Idle == [pc |-> "idle", fn |-> "none", size |-> 0, ptr |-> Null, new |-> Null, total |-> 0]

Init ==
  /\ status = "running"
  /\ mLimit = 0
  /\ OOMHandler = "none"
  /\ totalAllocated = 0
  /\ size = [b \in {} |-> 0]
  /\ call = [t \in Threads |-> Idle]
  /\ overlapped = FALSE

-----------------------------------------------------------------------------
(* Steps.                                                                  *)

At(t, pc) == status = "running" /\ call[t].pc = pc

Busy(t) == call[t].pc # "idle"

Settings == <<mLimit, OOMHandler>>

Stop(how) ==
  /\ status' = how
  /\ UNCHANGED <<Settings, totalAllocated, size, call, overlapped>>

(* mmallocOOM with a handler that comes back: the call goes on with rest.  *)
mmallocOOM(rest) == IF OOMHandler = "none" THEN Stop("aborted") ELSE rest

(* The blocks that no call in progress frees, moves or is about to return. *)
Settled == DOMAIN size \ {call[t].ptr : t \in Threads}

Unused == Blocks \ (DOMAIN size \cup {call[t].new : t \in Threads})

(* A call begins, perhaps while others are in progress.                    *)
Overlap == overlapped' = (overlapped \/ \E t \in Threads : Busy(t))

Begin(t, pc, fn, n, ptr) ==
  /\ At(t, "idle")
  /\ call' = [call EXCEPT ![t] = [Idle EXCEPT !.pc = pc, !.fn = fn, !.size = n, !.ptr = ptr]]
  /\ Overlap
  /\ UNCHANGED <<status, Settings, totalAllocated, size>>

(* mmalloc and mcalloc differ in the contents of the block only.           *)
mmalloc(t)  == \E n \in Sizes : Begin(t, "check", "mmalloc", n, Null)
mrealloc(t) == \E n \in Sizes, b \in Settled : Begin(t, "check", "mrealloc", n, b)
mfree(t)    == \E b \in Settled : Begin(t, "load-", "mfree", 0, b)

setMemoryLimit ==
  /\ status = "running"
  /\ mLimit' \in Limits
  /\ Overlap
  /\ UNCHANGED <<status, OOMHandler, totalAllocated, size, call>>

setOOMHandler ==
  /\ status = "running"
  /\ OOMHandler' \in {"none", "returns"}
  /\ UNCHANGED <<status, mLimit, totalAllocated, size, call, overlapped>>

-----------------------------------------------------------------------------
(* allocate.                                                               *)

(* Mutant: the new block is not counted yet.                               *)
CanAllocateOneMore(n) == mLimit = 0 \/ totalAllocated <= mLimit

(* A block that is reallocated is counted along with its new size.         *)
canAllocate(n) == mLimit = 0 \/ (n + totalAllocated) % Word <= mLimit

(* Over the limit, the answer is NULL and nothing has changed.             *)
Check(t) ==
  /\ At(t, "check")
  /\ IF canAllocate(call[t].size)
       THEN /\ call' = [call EXCEPT ![t].pc = IF call[t].fn = "mrealloc" THEN "load-" ELSE "obtain"]
            /\ UNCHANGED <<status, Settings, totalAllocated, size, overlapped>>
       ELSE mmallocOOM(/\ call' = [call EXCEPT ![t] = Idle]
                       /\ UNCHANGED <<status, Settings, totalAllocated, size, overlapped>>)

(* totalAllocated is read ...                                              *)
Load(t, from, to) ==
  /\ At(t, from)
  /\ call' = [call EXCEPT ![t].pc = to, ![t].total = totalAllocated]
  /\ UNCHANGED <<status, Settings, totalAllocated, size, overlapped>>

(* Mutant: the total is a signed number.                                   *)
StoreSigned(t, change) == totalAllocated' = call[t].total + change

(* ... and written, whatever others have written in between.               *)
Store(t, change) == totalAllocated' = (call[t].total + change) % Word

Subtract(t) ==
  /\ At(t, "store-")
  /\ Store(t, - size[call[t].ptr])
  /\ call' = [call EXCEPT ![t].pc = IF call[t].fn = "mfree" THEN "free" ELSE "obtain"]
  /\ UNCHANGED <<status, Settings, size, overlapped>>

(* malloc or calloc gives any unused address; realloc may also stay where  *)
(* it is, and otherwise frees the old block.                               *)
Obtain(t) ==
  /\ At(t, "obtain")
  /\ \E b \in Unused \cup ({call[t].ptr} \ {Null}) :
       call' = [call EXCEPT ![t].pc = "load+", ![t].new = b, ![t].ptr = Null]
  /\ size' = [b \in DOMAIN size \ {call[t].ptr} |-> size[b]]
  /\ UNCHANGED <<status, Settings, totalAllocated, overlapped>>

(* The system is out of memory.  If the handler comes back, allocate goes  *)
(* on to write the size through the null pointer.                          *)
ObtainNothing(t) ==
  /\ At(t, "obtain")
  /\ mmallocOOM(Stop("undefined"))

(* Mutant: the size of a reallocated block is not added again.             *)
AddFresh(t) ==
  /\ At(t, "store+")
  /\ Store(t, IF call[t].fn = "mrealloc" THEN 0 ELSE call[t].size)
  /\ size' = [b \in DOMAIN size \cup {call[t].new} |->
                IF b = call[t].new THEN call[t].size ELSE size[b]]
  /\ call' = [call EXCEPT ![t] = Idle]
  /\ UNCHANGED <<status, Settings, overlapped>>

(* The size is counted and written in front of the block.                  *)
Add(t) ==
  /\ At(t, "store+")
  /\ Store(t, call[t].size)
  /\ size' = [b \in DOMAIN size \cup {call[t].new} |->
                IF b = call[t].new THEN call[t].size ELSE size[b]]
  /\ call' = [call EXCEPT ![t] = Idle]
  /\ UNCHANGED <<status, Settings, overlapped>>

Free(t) ==
  /\ At(t, "free")
  /\ size' = [b \in DOMAIN size \ {call[t].ptr} |-> size[b]]
  /\ call' = [call EXCEPT ![t] = Idle]
  /\ UNCHANGED <<status, Settings, totalAllocated, overlapped>>

allocate(t) ==
  \/ Check(t)
  \/ Load(t, "load-", "store-") \/ Subtract(t)
  \/ Obtain(t) \/ ObtainNothing(t)
  \/ Load(t, "load+", "store+") \/ Add(t)

-----------------------------------------------------------------------------

Next ==
  \/ \E t \in Threads : mmalloc(t) \/ mrealloc(t) \/ mfree(t) \/ allocate(t) \/ Free(t)
  \/ setMemoryLimit \/ setOOMHandler

Spec == Init /\ [][Next]_vars

-----------------------------------------------------------------------------

(* A block is counted from the moment its size is added until it is        *)
(* subtracted, just before it is freed or reallocated.                     *)
Counted == DOMAIN size \ {call[t].ptr : t \in {u \in Threads : call[u].pc \in {"free", "obtain"}}}

Usage == MapThenSumSet(LAMBDA b : size[b], Counted)

(* The comment of memoryUsage: "@return The number of bytes currently      *)
(* allocated."  It is what all blocks have together whenever no call is in *)
(* progress that is about to change it.                                    *)
ReportsUsage == (\A t \in Threads : ~ Busy(t)) => totalAllocated = Usage

(* While no call of the allocator has ever begun during another, as before *)
(* serverStart creates its threads, memoryUsage is at every step the sum   *)
(* of the sizes of the blocks, whatever has been allocated, moved, refused *)
(* and freed.  With the first overlap it is lost: see ReportsUsage.        *)
UsageIsAccounted == ~ overlapped => totalAllocated = Usage % Word

(* All blocks together, and one more, do not wrap, as in any memory that   *)
(* Word can address.                                                       *)
Roomy ==
  /\ IsFiniteSet(Blocks)
  /\ \E m \in 0 .. Word - 1 :
       (\A n \in Sizes : n <= m) /\ (Cardinality(Blocks) + 1) * m < Word

(* The comment of canAllocate: whether the limit will be satisfied.  Until *)
(* calls overlap, none takes the usage above the limit, as long as the     *)
(* sizes are Roomy.                                                        *)
LimitHonoured ==
  [][\A t \in Threads :
       call[t].pc = "store+" /\ ~ overlapped /\ mLimit # 0 /\ ~ Busy(t)'
       => Usage' <= mLimit]_vars

=============================================================================
