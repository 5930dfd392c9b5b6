--------------------------- MODULE MmallocProofs ----------------------------
(***************************************************************************)
(* Proofs, for any threads, addresses, sizes and word size, that the total *)
(* which memoryUsage returns is the sum of the blocks, and that no call    *)
(* exceeds the limit, until a call begins during another.                  *)
(***************************************************************************)
EXTENDS Mmalloc, DataProofs

-----------------------------------------------------------------------------
(* The inductive invariant.                                                *)

(* What a call may have in its registers at each of its places.            *)
CallFits(c, dom) ==
  /\ c.pc = "idle" => c.ptr = Null
  /\ c.ptr = Null \/ c.ptr \in dom
  /\ c.pc \in {"load-", "store-", "free"} => c.ptr # Null
  /\ c.pc = "check" /\ c.fn = "mrealloc" => c.ptr # Null
  /\ c.fn = "mmalloc" => c.ptr = Null
  /\ c.pc \in {"load+", "store+"} => c.ptr = Null /\ c.new \in Blocks /\ c.new \notin dom
  /\ c.pc \notin {"load+", "store+"} => c.new = Null
  /\ c.pc \in {"check", "obtain", "load+", "store+"} => c.fn \in {"mmalloc", "mrealloc"}
  /\ c.pc \in {"load-", "store-"} => c.fn \in {"mfree", "mrealloc"}
  /\ c.pc = "free" => c.fn = "mfree"
  /\ c.fn \in {"mmalloc", "mrealloc"} => c.size \in Sizes

(* No two calls free, move or return the same block.                       *)
Apart ==
  \A t, u \in Threads :
    t # u => /\ call[t].ptr = call[u].ptr => call[t].ptr = Null
             /\ call[t].new = call[u].new => call[t].new = Null

ShapeInv ==
  /\ TypeOK
  /\ IsFiniteSet(DOMAIN size)
  /\ \A t \in Threads : CallFits(call[t], DOMAIN size)
  /\ Apart

-----------------------------------------------------------------------------
(* The sum of the blocks.                                                  *)

Away == {call[t].ptr : t \in {u \in Threads : call[u].pc \in {"free", "obtain"}}}

UsageDef == Usage = SumOf(size, Counted) /\ Counted = DOMAIN size \ Away

LEMMA UsageIsSum == UsageDef
BY DEF UsageDef, Usage, SumOf, Counted, Away

LEMMA SizesAreNumbers ==
  ASSUME ShapeInv
  PROVE  /\ IsFiniteSet(Counted) /\ Usage \in Int
         /\ \A b \in DOMAIN size : size[b] \in Int
         /\ \A n \in Sizes : n \in Int
<1>1. \A n \in Sizes : n \in Int
  BY MmallocAssumption
<1>2. \A b \in DOMAIN size : size[b] \in Int
  BY <1>1 DEF ShapeInv, TypeOK
<1>3. IsFiniteSet(Counted) /\ Counted \subseteq DOMAIN size
  BY UsageIsSum, FS_Subset DEF ShapeInv, UsageDef
<1>4. SumOf(size, Counted) \in Int
  BY <1>2, <1>3, SumIsInteger
<1> QED
  BY <1>1, <1>2, <1>3, <1>4, UsageIsSum DEF UsageDef

(* A step after which the same blocks are counted.                         *)
LEMMA UsageStays ==
  ASSUME ShapeInv, Counted' = Counted, \A b \in Counted : size'[b] = size[b]
  PROVE  Usage' = Usage
<1>1. IsFiniteSet(Counted)
  BY SizesAreNumbers
<1>2. SumOf(size', Counted) = SumOf(size, Counted)
  BY <1>1, SumOfAgrees
<1>3. UsageDef'
  BY UsageIsSum, PTL
<1> QED
  BY <1>2, <1>3, UsageIsSum DEF UsageDef

-----------------------------------------------------------------------------
(* The steps.                                                              *)

LEMMA SettingStep ==
  ASSUME ShapeInv,
         \/ setMemoryLimit \/ setOOMHandler
         \/ \E how \in {"aborted", "undefined"} : Stop(how)
  PROVE  ShapeInv' /\ Usage' = Usage
<1>1. /\ totalAllocated' = totalAllocated /\ size' = size /\ call' = call
      /\ status' \in {"running", "aborted", "undefined"}
      /\ mLimit' \in Limits \cup {0} /\ OOMHandler' \in {"none", "returns"}
      /\ overlapped' \in BOOLEAN
  BY DEF setMemoryLimit, setOOMHandler, Stop, Settings, Overlap, ShapeInv, TypeOK
<1>2. ShapeInv'
  BY <1>1 DEF ShapeInv, TypeOK, Apart
<1>3. Counted' = Counted
  BY <1>1 DEF Counted
<1> QED
  BY <1>1, <1>2, <1>3, UsageStays

(* A call begins, with a block that no other has or with none.             *)
LEMMA BeginStep ==
  ASSUME ShapeInv, NEW t \in Threads,
         NEW pc \in {"check", "load-"}, NEW fn \in Calls, NEW n \in Sizes \cup {0},
         NEW ptr \in Settled \cup {Null},
         fn = "mfree" \/ n \in Sizes,
         pc = (IF fn = "mfree" THEN "load-" ELSE "check"),
         (ptr = Null) <=> (fn = "mmalloc"),
         Begin(t, pc, fn, n, ptr)
  PROVE  ShapeInv' /\ Usage' = Usage
<1>1. /\ status' = status /\ mLimit' = mLimit /\ OOMHandler' = OOMHandler
      /\ totalAllocated' = totalAllocated /\ size' = size
      /\ call[t].pc = "idle" /\ overlapped' \in BOOLEAN
  BY DEF Begin, At, Settings, Overlap, ShapeInv, TypeOK
<1>2. ptr \in DOMAIN size \cup {Null} /\ \A u \in Threads : ptr # Null => call[u].ptr # ptr
  BY MmallocAssumption DEF Settled, ShapeInv, TypeOK
<1>3. 0 \in 0 .. Word - 1
  BY MmallocAssumption
<1>4. /\ call' \in [Threads -> CallRec]
      /\ call'[t].pc = pc /\ call'[t].fn = fn /\ call'[t].size = n
      /\ call'[t].ptr = ptr /\ call'[t].new = Null
      /\ \A u \in Threads : u # t => call'[u] = call[u]
  <2>1. call \in [Threads -> CallRec]
    BY DEF ShapeInv, TypeOK
  <2>2. PICK c : c = [Idle EXCEPT !.pc = pc, !.fn = fn, !.size = n, !.ptr = ptr]
    OBVIOUS
  <2>3. call' = [call EXCEPT ![t] = c]
    BY <2>2 DEF Begin
  <2>4. ptr \in Blocks \cup {Null}
    BY <1>2 DEF ShapeInv, TypeOK
  <2>5. /\ c \in CallRec
        /\ c.pc = pc /\ c.fn = fn /\ c.size = n /\ c.ptr = ptr /\ c.new = Null
    BY <1>3, <2>2, <2>4 DEF CallRec, Calls, Idle
  <2> QED
    BY <2>1, <2>3, <2>5
<1>5. ShapeInv'
  <2>1. TypeOK'
    BY <1>1, <1>4 DEF ShapeInv, TypeOK
  <2>2. \A u \in Threads : CallFits(call'[u], DOMAIN size')
    <3>1. ASSUME NEW u \in Threads, u # t
          PROVE  CallFits(call'[u], DOMAIN size')
      BY <1>1, <1>4, <3>1 DEF ShapeInv, CallFits
    <3>2. CallFits(call'[t], DOMAIN size')
      BY <1>1, <1>2, <1>4 DEF CallFits, Calls
    <3> QED
      BY <3>1, <3>2
  <2>3. Apart'
    BY <1>2, <1>4 DEF ShapeInv, Apart
  <2> QED
    BY <1>1, <2>1, <2>2, <2>3 DEF ShapeInv
<1>6. Counted' = Counted
  <2>1. \A u \in Threads :
          call'[u].pc \in {"free", "obtain"} <=> u # t /\ call[u].pc \in {"free", "obtain"}
    BY <1>1, <1>4
  <2>2. \A u \in Threads : call[u].pc \in {"free", "obtain"} => u # t
    BY <1>1
  <2> QED
    BY <1>1, <1>4, <2>1, <2>2 DEF Counted
<1>7. Usage' = Usage
  BY <1>1, <1>6, UsageStays DEF ShapeInv
<1> QED
  BY <1>1, <1>5, <1>7 DEF ShapeInv

(* A call moves on, or ends, and has the same block or drops none.         *)
LEMMA MoveStep ==
  ASSUME ShapeInv, NEW t \in Threads, NEW c \in CallRec,
         call' = [call EXCEPT ![t] = c], CallFits(c, DOMAIN size),
         c.ptr \in {call[t].ptr, Null}, c.new \in {call[t].new, Null},
         call[t].pc \notin {"free", "obtain"},
         c.pc \in {"free", "obtain"} => c.ptr = Null,
         UNCHANGED <<status, Settings, totalAllocated, size, overlapped>>
  PROVE  ShapeInv' /\ Usage' = Usage
<1>1. /\ status' = status /\ mLimit' = mLimit /\ OOMHandler' = OOMHandler
      /\ overlapped' = overlapped
      /\ totalAllocated' = totalAllocated /\ size' = size
  BY DEF Settings
<1>2. /\ call' \in [Threads -> CallRec] /\ call'[t] = c
      /\ \A u \in Threads : u # t => call'[u] = call[u]
  BY DEF ShapeInv, TypeOK
<1>3. ShapeInv'
  <2>1. TypeOK'
    BY <1>1, <1>2 DEF ShapeInv, TypeOK
  <2>2. \A u \in Threads : CallFits(call'[u], DOMAIN size')
    BY <1>1, <1>2 DEF ShapeInv
  <2>3. Apart'
    BY <1>2 DEF ShapeInv, Apart
  <2> QED
    BY <1>1, <2>1, <2>2, <2>3 DEF ShapeInv
<1>4. Counted' = Counted
  <2>1. Null \notin DOMAIN size
    BY MmallocAssumption DEF ShapeInv, TypeOK
  <2>2. \A b \in DOMAIN size : b \in Away <=> \E u \in Threads : call[u].pc \in {"free", "obtain"} /\ call[u].ptr = b
    BY DEF Away
  <2>3. \A b \in DOMAIN size : b \in Away' <=> \E u \in Threads : call'[u].pc \in {"free", "obtain"} /\ call'[u].ptr = b
    BY DEF Away
  <2>4. \A b \in DOMAIN size : b \in Away' <=> b \in Away
    BY <1>2, <2>1, <2>2, <2>3
  <2>5. Counted = DOMAIN size \ Away /\ Counted' = DOMAIN size' \ Away'
    BY DEF Counted, Away
  <2> QED
    BY <1>1, <2>4, <2>5
<1>5. Usage' = Usage
  BY <1>1, <1>4, UsageStays DEF ShapeInv
<1> QED
  BY <1>1, <1>3, <1>5 DEF ShapeInv

(* A thread in no call.                                                    *)
LEMMA IdleFits == Idle \in CallRec /\ \A dom : CallFits(Idle, dom)
BY MmallocAssumption DEF Idle, CallRec, CallFits

LEMMA CheckStep ==
  ASSUME ShapeInv, NEW t \in Threads, Check(t)
  PROVE  ShapeInv' /\ Usage' = Usage
<1>1. /\ call[t] \in CallRec /\ call[t].pc = "check" /\ call[t].fn \in {"mmalloc", "mrealloc"}
      /\ CallFits(call[t], DOMAIN size)
      /\ call[t].ptr = Null \/ call[t].fn # "mmalloc"
  BY DEF Check, At, ShapeInv, TypeOK, CallFits
<1>2. CASE canAllocate(call[t].size)
  <2>1. PICK pc : pc = IF call[t].fn = "mrealloc" THEN "load-" ELSE "obtain"
    OBVIOUS
  <2>2. PICK c : c = [call[t] EXCEPT !.pc = pc]
    OBVIOUS
  <2>3. /\ call' = [call EXCEPT ![t] = c]
        /\ UNCHANGED <<status, Settings, totalAllocated, size, overlapped>>
    BY <1>2, <2>1, <2>2 DEF Check
  <2>4. /\ c \in CallRec /\ c.pc = pc /\ c.fn = call[t].fn /\ c.size = call[t].size
        /\ c.ptr = call[t].ptr /\ c.new = call[t].new
    BY <1>1, <2>1, <2>2 DEF CallRec
  <2>5. CallFits(c, DOMAIN size)
    BY <1>1, <2>1, <2>4 DEF CallFits
  <2>6. c.pc \in {"free", "obtain"} => c.ptr = Null
    BY <1>1, <2>1, <2>4
  <2>7. call[t].pc \notin {"free", "obtain"}
    BY <1>1
  <2> QED
    BY <2>3, <2>4, <2>5, <2>6, <2>7, MoveStep
<1>3. CASE ~ canAllocate(call[t].size)
  <2>1. CASE OOMHandler = "none"
    <3>1. Stop("aborted")
      BY <1>3, <2>1 DEF Check, mmallocOOM
    <3> QED
      BY <3>1, SettingStep
  <2>2. CASE OOMHandler # "none"
    <3>1. /\ call' = [call EXCEPT ![t] = Idle]
          /\ UNCHANGED <<status, Settings, totalAllocated, size, overlapped>>
      BY <1>3, <2>2 DEF Check, mmallocOOM
    <3>2. Idle.ptr = Null /\ Idle.new = Null /\ Idle.pc = "idle"
      BY DEF Idle
    <3>3. call[t].pc \notin {"free", "obtain"} /\ Idle.pc \notin {"free", "obtain"}
      BY <1>1, <3>2
    <3> QED
      BY <3>1, <3>2, <3>3, IdleFits, MoveStep
  <2> QED
    BY <2>1, <2>2
<1> QED
  BY <1>2, <1>3

LEMMA LoadStep ==
  ASSUME ShapeInv, NEW t \in Threads,
         Load(t, "load-", "store-") \/ Load(t, "load+", "store+")
  PROVE  ShapeInv' /\ Usage' = Usage
<1>1. PICK from, to :
        /\ \/ from = "load-" /\ to = "store-"
           \/ from = "load+" /\ to = "store+"
        /\ Load(t, from, to)
  OBVIOUS
<1>2. PICK c : c = [call[t] EXCEPT !.pc = to, !.total = totalAllocated]
  OBVIOUS
<1>3. /\ call' = [call EXCEPT ![t] = c] /\ call[t].pc = from
      /\ UNCHANGED <<status, Settings, totalAllocated, size, overlapped>>
  BY <1>1, <1>2 DEF Load, At
<1>4. /\ c \in CallRec /\ c.pc = to /\ c.fn = call[t].fn /\ c.size = call[t].size
      /\ c.ptr = call[t].ptr /\ c.new = call[t].new
  BY <1>1, <1>2 DEF ShapeInv, TypeOK, CallRec
<1>5. CallFits(call[t], DOMAIN size)
  BY DEF ShapeInv
<1>6. CallFits(c, DOMAIN size)
  BY <1>1, <1>3, <1>4, <1>5 DEF CallFits
<1>7. call[t].pc \notin {"free", "obtain"} /\ c.pc \notin {"free", "obtain"}
  BY <1>1, <1>3, <1>4
<1> QED
  BY <1>3, <1>4, <1>6, <1>7, MoveStep

(* The block of a call is no longer counted.                               *)
LEMMA SubtractStep ==
  ASSUME ShapeInv, NEW t \in Threads, Subtract(t)
  PROVE  ShapeInv' /\ Usage' = Usage - size[call[t].ptr]
<1>1. PICK p, pc : p = call[t].ptr /\ pc = IF call[t].fn = "mfree" THEN "free" ELSE "obtain"
  OBVIOUS
<1>2. /\ status' = status /\ mLimit' = mLimit /\ OOMHandler' = OOMHandler /\ size' = size
      /\ overlapped' = overlapped
      /\ call[t].pc = "store-" /\ call[t].fn \in {"mfree", "mrealloc"}
      /\ p \in DOMAIN size
      /\ CallFits(call[t], DOMAIN size)
  BY <1>1 DEF Subtract, At, Settings, ShapeInv, CallFits
<1>3. /\ call' \in [Threads -> CallRec]
      /\ call'[t].pc = pc /\ call'[t].fn = call[t].fn /\ call'[t].size = call[t].size
      /\ call'[t].ptr = p /\ call'[t].new = call[t].new
      /\ \A u \in Threads : u # t => call'[u] = call[u]
  <2>1. call[t] \in CallRec /\ call \in [Threads -> CallRec]
    BY DEF ShapeInv, TypeOK
  <2>2. call' = [call EXCEPT ![t] = [call[t] EXCEPT !.pc = pc]]
    BY <1>1 DEF Subtract
  <2> QED
    BY <1>1, <2>1, <2>2 DEF CallRec
<1>4. Store(t, - size[p])
  BY <1>1 DEF Subtract
<1>5. size[p] \in Int /\ - size[p] \in Int /\ IsFiniteSet(Counted) /\ Usage \in Int
  BY <1>2, SizesAreNumbers DEF ShapeInv
<1>6. totalAllocated' \in 0 .. Word - 1
  <2>1. /\ Word \in Nat \ {0} /\ call[t].total \in Int
    BY MmallocAssumption DEF ShapeInv, TypeOK, CallRec
  <2>2. call[t].total + (- size[p]) \in Int
    BY <1>5, <2>1
  <2> QED
    BY <1>4, <2>1, <2>2, ModBasics DEF Store
<1>7. ShapeInv'
  <2>1. TypeOK'
    BY <1>2, <1>3, <1>6 DEF ShapeInv, TypeOK
  <2>2. \A u \in Threads : CallFits(call'[u], DOMAIN size')
    <3>1. CallFits(call'[t], DOMAIN size')
      BY <1>1, <1>2, <1>3 DEF CallFits
    <3> QED
      BY <1>2, <1>3, <3>1 DEF ShapeInv
  <2>3. Apart'
    BY <1>1, <1>3 DEF ShapeInv, Apart
  <2> QED
    BY <1>2, <2>1, <2>2, <2>3 DEF ShapeInv
<1>8. p \in Counted /\ Counted' = Counted \ {p}
  <2>1. \A b : b \in Away <=> \E u \in Threads : call[u].pc \in {"free", "obtain"} /\ call[u].ptr = b
    BY DEF Away
  <2>2. \A b : b \in Away' <=> \E u \in Threads : call'[u].pc \in {"free", "obtain"} /\ call'[u].ptr = b
    BY DEF Away
  <2>3. p \notin Away
    <3>1. p # Null
      BY <1>2, MmallocAssumption DEF ShapeInv, TypeOK
    <3> QED
      BY <1>1, <1>2, <2>1, <3>1 DEF ShapeInv, Apart
  <2>4. \A b : b \in Away' <=> b \in Away \/ b = p
    BY <1>1, <1>2, <1>3, <2>1, <2>2
  <2>5. Counted = DOMAIN size \ Away /\ Counted' = DOMAIN size' \ Away'
    BY DEF Counted, Away
  <2> QED
    BY <1>2, <2>3, <2>4, <2>5
<1>9. Usage' = Usage - size[p]
  <2>1. UsageDef'
    BY UsageIsSum, PTL
  <2>2. Usage' = SumOf(size, Counted \ {p})
    BY <1>2, <1>8, <2>1 DEF UsageDef
  <2>3. IsFiniteSet(Counted \ {p}) /\ p \notin Counted \ {p} /\ (Counted \ {p}) \cup {p} = Counted
    BY <1>5, <1>8, FS_RemoveElement
  <2>4. \A x \in (Counted \ {p}) \cup {p} : size[x] \in Int
    BY <1>8, SizesAreNumbers, UsageIsSum DEF UsageDef, ShapeInv
  <2>5. /\ SumOf(size, Counted \ {p}) \in Int
        /\ SumOf(size, (Counted \ {p}) \cup {p}) = size[p] + SumOf(size, Counted \ {p})
    BY <2>3, <2>4, SumOfMore
  <2>6. Usage = size[p] + Usage' /\ Usage' \in Int
    BY <2>2, <2>3, <2>5, UsageIsSum DEF UsageDef
  <2> QED
    BY <1>5, <2>6
<1> QED
  BY <1>1, <1>7, <1>9

(* A block that is not counted any more leaves.                            *)
LEMMA FreeStep ==
  ASSUME ShapeInv, NEW t \in Threads, Free(t)
  PROVE  ShapeInv' /\ Usage' = Usage
<1>1. PICK p : p = call[t].ptr
  OBVIOUS
<1>2. /\ status' = status /\ mLimit' = mLimit /\ OOMHandler' = OOMHandler
      /\ overlapped' = overlapped
      /\ totalAllocated' = totalAllocated
      /\ size' = [b \in DOMAIN size \ {p} |-> size[b]]
      /\ call' = [call EXCEPT ![t] = Idle]
      /\ call[t].pc = "free" /\ p # Null
  BY <1>1 DEF Free, At, Settings, ShapeInv, CallFits
<1>3. /\ call' \in [Threads -> CallRec] /\ call'[t] = Idle
      /\ \A u \in Threads : u # t => call'[u] = call[u]
  BY <1>2, IdleFits DEF ShapeInv, TypeOK
<1>4. Idle.ptr = Null /\ Idle.new = Null /\ Idle.pc = "idle"
  BY DEF Idle
<1>5. DOMAIN size' = DOMAIN size \ {p} /\ \A b \in DOMAIN size' : size'[b] = size[b]
  BY <1>2
<1>6. ShapeInv'
  <2>1. TypeOK'
    BY <1>2, <1>3, <1>5 DEF ShapeInv, TypeOK
  <2>2. \A u \in Threads : CallFits(call'[u], DOMAIN size')
    <3>1. ASSUME NEW u \in Threads, u # t
          PROVE  CallFits(call'[u], DOMAIN size')
      <4>1. CallFits(call[u], DOMAIN size) /\ call[u].ptr # p /\ call'[u] = call[u]
        BY <1>1, <1>2, <1>3, <3>1 DEF ShapeInv, Apart
      <4> QED
        BY <1>5, <4>1 DEF CallFits
    <3> QED
      BY <1>3, <3>1, IdleFits
  <2>3. Apart'
    BY <1>3, <1>4 DEF ShapeInv, Apart
  <2>4. IsFiniteSet(DOMAIN size')
    BY <1>5, FS_Subset DEF ShapeInv
  <2> QED
    BY <2>1, <2>2, <2>3, <2>4 DEF ShapeInv
<1>7. Counted' = Counted
  <2>1. \A b : b \in Away <=> \E u \in Threads : call[u].pc \in {"free", "obtain"} /\ call[u].ptr = b
    BY DEF Away
  <2>2. \A b : b \in Away' <=> \E u \in Threads : call'[u].pc \in {"free", "obtain"} /\ call'[u].ptr = b
    BY DEF Away
  <2>3. \A b : b # p => (b \in Away' <=> b \in Away)
    BY <1>1, <1>3, <1>4, <2>1, <2>2
  <2>4. p \in Away
    BY <1>1, <1>2, <2>1
  <2>5. Counted = DOMAIN size \ Away /\ Counted' = DOMAIN size' \ Away'
    BY DEF Counted, Away
  <2> QED
    BY <1>5, <2>3, <2>4, <2>5
<1>8. Usage' = Usage
  <2>1. \A b \in Counted : size'[b] = size[b]
    BY <1>5, <1>7, UsageIsSum DEF UsageDef, Counted
  <2> QED
    BY <1>7, <2>1, UsageStays DEF ShapeInv
<1> QED
  BY <1>2, <1>6, <1>8 DEF ShapeInv

(* The old block, which is not counted any more, gives way to a new one.   *)
LEMMA ObtainStep ==
  ASSUME ShapeInv, NEW t \in Threads, Obtain(t)
  PROVE  ShapeInv' /\ Usage' = Usage
<1>1. PICK p : p = call[t].ptr
  OBVIOUS
<1>2. /\ status' = status /\ mLimit' = mLimit /\ OOMHandler' = OOMHandler
      /\ overlapped' = overlapped
      /\ totalAllocated' = totalAllocated
      /\ size' = [b \in DOMAIN size \ {p} |-> size[b]]
      /\ call[t].pc = "obtain"
      /\ CallFits(call[t], DOMAIN size)
  BY <1>1 DEF Obtain, At, Settings, ShapeInv
<1>3. PICK new \in Unused \cup ({p} \ {Null}) :
        call' = [call EXCEPT ![t].pc = "load+", ![t].new = new, ![t].ptr = Null]
  BY <1>1 DEF Obtain
<1>4. DOMAIN size' = DOMAIN size \ {p} /\ \A b \in DOMAIN size' : size'[b] = size[b]
  BY <1>2
<1>5. /\ new \in Blocks /\ new \notin DOMAIN size'
      /\ \A u \in Threads : u # t => call[u].new # new
  <2>1. DOMAIN size \subseteq Blocks /\ p \in DOMAIN size \cup {Null}
    BY <1>1, <1>2 DEF ShapeInv, TypeOK, CallFits
  <2>2. CASE new \in Unused
    BY <1>4, <2>2 DEF Unused
  <2>3. CASE new = p /\ p # Null
    <3>1. \A u \in Threads : call[u].new = Null \/ call[u].new \notin DOMAIN size
      BY DEF ShapeInv, CallFits
    <3> QED
      BY <1>4, <2>1, <2>3, <3>1
  <2> QED
    BY <2>2, <2>3
<1>6. /\ call' \in [Threads -> CallRec]
      /\ call'[t].pc = "load+" /\ call'[t].fn = call[t].fn /\ call'[t].size = call[t].size
      /\ call'[t].ptr = Null /\ call'[t].new = new
      /\ \A u \in Threads : u # t => call'[u] = call[u]
  <2>1. call[t] \in CallRec /\ call \in [Threads -> CallRec]
    BY DEF ShapeInv, TypeOK
  <2>2. PICK c : c = [call[t] EXCEPT !.pc = "load+", !.new = new, !.ptr = Null]
    OBVIOUS
  <2>3. c \in CallRec /\ c.pc = "load+" /\ c.fn = call[t].fn /\ c.size = call[t].size
        /\ c.ptr = Null /\ c.new = new
    BY <1>5, <2>1, <2>2 DEF CallRec
  <2>4. call' = [call EXCEPT ![t] = c]
    BY <1>3, <2>1, <2>2
  <2> QED
    BY <2>1, <2>3, <2>4
<1>7. ShapeInv'
  <2>1. TypeOK'
    BY <1>2, <1>4, <1>6 DEF ShapeInv, TypeOK
  <2>2. \A u \in Threads : CallFits(call'[u], DOMAIN size')
    <3>1. ASSUME NEW u \in Threads, u # t
          PROVE  CallFits(call'[u], DOMAIN size')
      <4>1. /\ CallFits(call[u], DOMAIN size) /\ call'[u] = call[u]
            /\ call[u].ptr = Null \/ call[u].ptr # p
        BY <1>1, <1>6, <3>1 DEF ShapeInv, Apart
      <4> QED
        BY <1>4, <4>1 DEF CallFits
    <3>2. CallFits(call'[t], DOMAIN size')
      BY <1>2, <1>5, <1>6 DEF CallFits
    <3> QED
      BY <3>1, <3>2
  <2>3. Apart'
    BY <1>5, <1>6 DEF ShapeInv, Apart
  <2>4. IsFiniteSet(DOMAIN size')
    BY <1>4, FS_Subset DEF ShapeInv
  <2> QED
    BY <2>1, <2>2, <2>3, <2>4 DEF ShapeInv
<1>8. Counted' = Counted
  <2>1. \A b : b \in Away <=> \E u \in Threads : call[u].pc \in {"free", "obtain"} /\ call[u].ptr = b
    BY DEF Away
  <2>2. \A b : b \in Away' <=> \E u \in Threads : call'[u].pc \in {"free", "obtain"} /\ call'[u].ptr = b
    BY DEF Away
  <2>3. \A b : b # p => (b \in Away' <=> b \in Away)
    BY <1>1, <1>6, <2>1, <2>2
  <2>4. p \in Away
    BY <1>1, <1>2, <2>1
  <2>5. Counted = DOMAIN size \ Away /\ Counted' = DOMAIN size' \ Away'
    BY DEF Counted, Away
  <2> QED
    BY <1>4, <2>3, <2>4, <2>5
<1>9. Usage' = Usage
  <2>1. \A b \in Counted : size'[b] = size[b]
    BY <1>4, <1>8, UsageIsSum DEF UsageDef, Counted
  <2> QED
    BY <1>8, <2>1, UsageStays DEF ShapeInv
<1> QED
  BY <1>2, <1>7, <1>9 DEF ShapeInv

(* The new block is counted.                                               *)
LEMMA AddStep ==
  ASSUME ShapeInv, NEW t \in Threads, Add(t)
  PROVE  ShapeInv' /\ Usage' = Usage + call[t].size
<1>1. PICK new, n : new = call[t].new /\ n = call[t].size
  OBVIOUS
<1>2. /\ status' = status /\ mLimit' = mLimit /\ OOMHandler' = OOMHandler
      /\ overlapped' = overlapped
      /\ size' = [b \in DOMAIN size \cup {new} |-> IF b = new THEN n ELSE size[b]]
      /\ call' = [call EXCEPT ![t] = Idle]
      /\ call[t].pc = "store+"
      /\ Store(t, n)
      /\ CallFits(call[t], DOMAIN size)
  BY <1>1 DEF Add, At, Settings, ShapeInv
<1>3. new \in Blocks /\ new \notin DOMAIN size /\ n \in Sizes /\ call[t].ptr = Null
  BY <1>1, <1>2 DEF CallFits
<1>4. /\ call' \in [Threads -> CallRec] /\ call'[t] = Idle
      /\ \A u \in Threads : u # t => call'[u] = call[u]
  BY <1>2, IdleFits DEF ShapeInv, TypeOK
<1>5. Idle.ptr = Null /\ Idle.new = Null /\ Idle.pc = "idle"
  BY DEF Idle
<1>6. /\ DOMAIN size' = DOMAIN size \cup {new} /\ size'[new] = n
      /\ \A b \in DOMAIN size : size'[b] = size[b]
  BY <1>2, <1>3
<1>7. n \in Int /\ IsFiniteSet(Counted) /\ Usage \in Int /\ \A b \in DOMAIN size : size[b] \in Int
  BY <1>3, SizesAreNumbers DEF ShapeInv
<1>8. totalAllocated' \in 0 .. Word - 1
  <2>1. /\ Word \in Nat \ {0} /\ call[t].total \in Int
    BY MmallocAssumption DEF ShapeInv, TypeOK, CallRec
  <2>2. call[t].total + n \in Int
    BY <1>7, <2>1
  <2> QED
    BY <1>2, <2>1, <2>2, ModBasics DEF Store
<1>9. ShapeInv'
  <2>1. TypeOK'
    BY <1>2, <1>3, <1>4, <1>6, <1>8 DEF ShapeInv, TypeOK
  <2>2. \A u \in Threads : CallFits(call'[u], DOMAIN size')
    <3>1. ASSUME NEW u \in Threads, u # t
          PROVE  CallFits(call'[u], DOMAIN size')
      <4>1. /\ CallFits(call[u], DOMAIN size) /\ call'[u] = call[u]
            /\ call[u].new # new
        BY <1>1, <1>3, <1>4, <3>1, MmallocAssumption DEF ShapeInv, Apart
      <4> QED
        BY <1>6, <4>1 DEF CallFits
    <3> QED
      BY <1>4, <3>1, IdleFits
  <2>3. Apart'
    BY <1>4, <1>5 DEF ShapeInv, Apart
  <2>4. IsFiniteSet(DOMAIN size')
    BY <1>6, FS_AddElement DEF ShapeInv
  <2> QED
    BY <2>1, <2>2, <2>3, <2>4 DEF ShapeInv
<1>10. Counted' = Counted \cup {new} /\ new \notin Counted
  <2>1. \A b : b \in Away <=> \E u \in Threads : call[u].pc \in {"free", "obtain"} /\ call[u].ptr = b
    BY DEF Away
  <2>2. \A b : b \in Away' <=> \E u \in Threads : call'[u].pc \in {"free", "obtain"} /\ call'[u].ptr = b
    BY DEF Away
  <2>3. \A b : b \in Away' <=> b \in Away
    BY <1>2, <1>4, <1>5, <2>1, <2>2
  <2>4. new \notin Away
    <3>1. \A u \in Threads : call[u].ptr = Null \/ call[u].ptr \in DOMAIN size
      BY DEF ShapeInv, CallFits
    <3> QED
      BY <1>3, <2>1, <3>1, MmallocAssumption
  <2>5. Counted = DOMAIN size \ Away /\ Counted' = DOMAIN size' \ Away'
    BY DEF Counted, Away
  <2> QED
    BY <1>3, <1>6, <2>3, <2>4, <2>5
<1>11. Usage' = Usage + n
  <2>1. UsageDef'
    BY UsageIsSum, PTL
  <2>2. Usage' = SumOf(size', Counted \cup {new})
    BY <1>10, <2>1 DEF UsageDef
  <2>3. Counted \subseteq DOMAIN size
    BY UsageIsSum DEF UsageDef
  <2>4. \A x \in Counted \cup {new} : size'[x] \in Int
    BY <1>6, <1>7, <2>3
  <2>5. SumOf(size', Counted \cup {new}) = size'[new] + SumOf(size', Counted)
    BY <1>7, <1>10, <2>4, SumOfMore
  <2>6. SumOf(size', Counted) = SumOf(size, Counted)
    <3>1. \A x \in Counted : size'[x] = size[x]
      BY <1>6, <2>3
    <3> QED
      BY <1>7, <3>1, SumOfAgrees
  <2>7. Usage' = n + Usage
    BY <1>6, <2>2, <2>5, <2>6, UsageIsSum DEF UsageDef
  <2> QED
    BY <1>7, <2>7
<1> QED
  BY <1>1, <1>9, <1>11

-----------------------------------------------------------------------------
(* Blocks and calls fit, at every step.                                    *)

LEMMA InitShape ==
  ASSUME Init
  PROVE  ShapeInv /\ Usage = 0
<1>1. /\ call \in [Threads -> CallRec] /\ \A t \in Threads : call[t] = Idle
      /\ size = [b \in {} |-> 0] /\ totalAllocated = 0 /\ overlapped = FALSE
      /\ status = "running" /\ mLimit = 0 /\ OOMHandler = "none"
  BY IdleFits DEF Init
<1>2. DOMAIN size = {}
  BY <1>1
<1>3. ShapeInv
  <2>1. TypeOK
    <3>1. 0 \in 0 .. Word - 1
      BY MmallocAssumption
    <3>2. overlapped \in BOOLEAN
      BY <1>1
    <3> QED
      BY <1>1, <1>2, <3>1, <3>2 DEF TypeOK
  <2>2. \A t \in Threads : CallFits(call[t], DOMAIN size)
    BY <1>1, IdleFits
  <2>3. Apart
    BY <1>1 DEF Apart, Idle
  <2> QED
    BY <1>2, <2>1, <2>2, <2>3, FS_EmptySet DEF ShapeInv
<1>4. Usage = 0
  <2>1. Counted = {}
    BY <1>2 DEF Counted
  <2> QED
    BY <2>1, UsageIsSum, SumOfEmpty DEF UsageDef
<1> QED
  BY <1>3, <1>4

(* The three calls, each with the block it is given.                       *)
LEMMA CallStep ==
  ASSUME ShapeInv, NEW t \in Threads, mmalloc(t) \/ mrealloc(t) \/ mfree(t)
  PROVE  /\ ShapeInv' /\ Usage' = Usage
         /\ \E pc \in {"check", "load-"}, fn \in Calls, n \in Sizes \cup {0}, ptr \in Blocks \cup {Null} :
              Begin(t, pc, fn, n, ptr) /\ (pc = "load-" => fn = "mfree")
<1>1. Null \in Settled \cup {Null} /\ Null \notin Settled /\ Settled \subseteq Blocks
  BY MmallocAssumption DEF Settled, ShapeInv, TypeOK
<1>2. CASE mmalloc(t)
  <2>1. PICK n \in Sizes : Begin(t, "check", "mmalloc", n, Null)
    BY <1>2 DEF mmalloc
  <2>2. ShapeInv' /\ Usage' = Usage
    BY <1>1, <2>1, BeginStep DEF Calls
  <2> QED
    BY <2>1, <2>2 DEF Calls
<1>3. CASE mrealloc(t)
  <2>1. PICK n \in Sizes, b \in Settled : Begin(t, "check", "mrealloc", n, b)
    BY <1>3 DEF mrealloc
  <2>2. ShapeInv' /\ Usage' = Usage
    BY <1>1, <2>1, BeginStep DEF Calls
  <2> QED
    BY <1>1, <2>1, <2>2 DEF Calls
<1>4. CASE mfree(t)
  <2>1. PICK b \in Settled : Begin(t, "load-", "mfree", 0, b)
    BY <1>4 DEF mfree
  <2>2. ShapeInv' /\ Usage' = Usage
    BY <1>1, <2>1, BeginStep DEF Calls
  <2> QED
    BY <1>1, <2>1, <2>2 DEF Calls
<1> QED
  BY <1>2, <1>3, <1>4

(* malloc finds nothing, and the program ends or goes on without a block.  *)
LEMMA ObtainNothingStep ==
  ASSUME ShapeInv, NEW t \in Threads, ObtainNothing(t)
  PROVE  ShapeInv' /\ Usage' = Usage /\ \E how \in {"aborted", "undefined"} : Stop(how)
<1>1. \E how \in {"aborted", "undefined"} : Stop(how)
  BY DEF ObtainNothing, mmallocOOM
<1> QED
  BY <1>1, SettingStep

LEMMA NextShape ==
  ASSUME ShapeInv, [Next]_vars
  PROVE  ShapeInv'
<1>1. CASE UNCHANGED vars
  <2>1. /\ call' = call /\ size' = size /\ totalAllocated' = totalAllocated
        /\ status' = status /\ mLimit' = mLimit /\ OOMHandler' = OOMHandler
        /\ overlapped' = overlapped
    BY <1>1 DEF vars
  <2> QED
    BY <2>1 DEF ShapeInv, TypeOK, Apart
<1>2. CASE setMemoryLimit \/ setOOMHandler
  BY <1>2, SettingStep
<1>3. ASSUME NEW t \in Threads, mmalloc(t) \/ mrealloc(t) \/ mfree(t) \/ allocate(t) \/ Free(t)
      PROVE  ShapeInv'
  <2>1. CASE mmalloc(t) \/ mrealloc(t) \/ mfree(t)
    BY <2>1, CallStep
  <2>2. CASE Check(t)
    BY <2>2, CheckStep
  <2>3. CASE Load(t, "load-", "store-") \/ Load(t, "load+", "store+")
    BY <2>3, LoadStep
  <2>4. CASE Subtract(t)
    BY <2>4, SubtractStep
  <2>5. CASE Obtain(t)
    BY <2>5, ObtainStep
  <2>6. CASE ObtainNothing(t)
    BY <2>6, ObtainNothingStep
  <2>7. CASE Add(t)
    BY <2>7, AddStep
  <2>8. CASE Free(t)
    BY <2>8, FreeStep
  <2> QED
    BY <1>3, <2>1, <2>2, <2>3, <2>4, <2>5, <2>6, <2>7, <2>8 DEF allocate
<1> QED
  BY <1>1, <1>2, <1>3 DEF Next

(* No two calls work on the same block, and the blocks that are counted    *)
(* are finitely many, whatever calls overlap.                              *)
LEMMA ShapeInvariance == Spec => []ShapeInv
<1>1. Init => ShapeInv
  BY InitShape
<1>2. ShapeInv /\ [Next]_vars => ShapeInv'
  BY NextShape
<1> QED
  BY <1>1, <1>2, PTL DEF Spec

(* The registers, the sizes and the total stay within their types: what    *)
(* allocate stores of the total is a size_t whatever was loaded before.    *)
THEOREM MmallocTypeCorrect == Spec => []TypeOK
<1>1. ShapeInv => TypeOK
  BY DEF ShapeInv
<1> QED
  BY <1>1, ShapeInvariance, PTL

-----------------------------------------------------------------------------
(* The usage is accounted for while no call begins during another.         *)

(* The one call in progress works on the total as it is.                   *)
SoloFits(t) ==
  /\ \A u \in Threads : u # t => ~ Busy(u)
  /\ call[t].pc \in {"store-", "store+"} => call[t].total = totalAllocated

SoloInv ==
  ~ overlapped => /\ totalAllocated = Usage % Word
                  /\ \A t \in Threads : Busy(t) => SoloFits(t)

UsageInv == ShapeInv /\ SoloInv

(* A store that keeps up with the blocks.                                  *)
LEMMA StoreAccounts ==
  ASSUME ShapeInv, NEW t \in Threads, NEW change \in Int,
         Store(t, change), Usage' = Usage + change,
         totalAllocated = Usage % Word, call[t].total = totalAllocated
  PROVE  totalAllocated' = Usage' % Word
<1>1. PICK u, total : u = Usage /\ total = totalAllocated
  OBVIOUS
<1>2. Word \in Nat \ {0} /\ u \in Int /\ total = u % Word
  BY <1>1, SizesAreNumbers, MmallocAssumption
<1>3. PICK i \in Int : total = u + i * Word
  BY <1>2, ModBasics
<1>4. PICK iw \in Int : iw = i * Word
  BY <1>2
<1>5. total + change = (u + change) + iw
  BY <1>2, <1>3, <1>4
<1>6. ((u + change) + i * Word) % Word = (u + change) % Word
  <2>1. u + change \in Int
    BY <1>2
  <2> QED
    BY <1>2, <2>1, ModShift
<1>7. totalAllocated' = (total + change) % Word
  BY <1>1 DEF Store
<1> QED
  BY <1>1, <1>4, <1>5, <1>6, <1>7

(* What a step within a call leaves of that call and of all others.        *)
LEMMA OwnCall ==
  ASSUME ShapeInv, NEW t \in Threads, NEW c, call' = [call EXCEPT ![t] = c]
  PROVE  call'[t] = c /\ \A u \in Threads : u # t => call'[u] = call[u]
BY DEF ShapeInv, TypeOK

(* A step of t within its call.                                            *)
LEMMA OwnStep ==
  ASSUME SoloInv, NEW t \in Threads, Busy(t), overlapped' = overlapped,
         \A u \in Threads : u # t => call'[u] = call[u],
         ~ overlapped /\ SoloFits(t) => totalAllocated' = Usage' % Word,
         Busy(t)' /\ call'[t].pc \in {"store-", "store+"} => call'[t].total = totalAllocated'
  PROVE  SoloInv'
<1>1. ASSUME ~ overlapped
      PROVE  /\ totalAllocated' = Usage' % Word
             /\ \A u \in Threads : Busy(u)' => SoloFits(u)'
  <2>1. SoloFits(t)
    BY <1>1 DEF SoloInv
  <2>2. \A u \in Threads : u # t => ~ Busy(u)'
    BY <2>1 DEF SoloFits, Busy
  <2>3. Busy(t)' => SoloFits(t)'
    BY <2>2 DEF SoloFits
  <2> QED
    BY <1>1, <2>1, <2>2, <2>3
<1> QED
  BY <1>1 DEF SoloInv

(* Nothing that SoloInv looks at changes.                                  *)
LEMMA SameSolo ==
  ASSUME SoloInv, call' = call, Usage' = Usage, UNCHANGED <<totalAllocated, overlapped>>
  PROVE  SoloInv'
BY DEF SoloInv, SoloFits, Busy

(* What begins finds no other call, or overlaps it.                        *)
LEMMA BeginSolo ==
  ASSUME UsageInv, NEW t \in Threads, NEW pc \in {"check", "load-"}, NEW fn, NEW n, NEW ptr,
         Begin(t, pc, fn, n, ptr), Usage' = Usage
  PROVE  SoloInv'
<1>1. PICK c : c = [Idle EXCEPT !.pc = pc, !.fn = fn, !.size = n, !.ptr = ptr]
  OBVIOUS
<1>2. call' = [call EXCEPT ![t] = c] /\ totalAllocated' = totalAllocated /\ Overlap
  BY <1>1 DEF Begin
<1>3. call'[t] = c /\ c.pc = pc /\ \A u \in Threads : u # t => call'[u] = call[u]
  BY <1>1, <1>2, OwnCall DEF Idle, UsageInv
<1>4. ASSUME ~ overlapped'
      PROVE  /\ totalAllocated' = Usage' % Word
             /\ \A u \in Threads : Busy(u)' => SoloFits(u)'
  <2>1. ~ overlapped /\ \A u \in Threads : ~ Busy(u)
    BY <1>2, <1>4 DEF Overlap
  <2>2. \A u \in Threads : u # t => ~ Busy(u)'
    BY <1>3, <2>1 DEF Busy
  <2>3. SoloFits(t)'
    BY <1>3, <2>2 DEF SoloFits
  <2> QED
    BY <1>2, <2>1, <2>2, <2>3 DEF UsageInv, SoloInv
<1> QED
  BY <1>4 DEF SoloInv

LEMMA SettingSolo ==
  ASSUME UsageInv,
         \/ setMemoryLimit \/ setOOMHandler
         \/ \E how \in {"aborted", "undefined"} : Stop(how)
  PROVE  SoloInv'
<1>1. Usage' = Usage
  BY SettingStep DEF UsageInv
<1>2. call' = call /\ totalAllocated' = totalAllocated
  BY DEF setMemoryLimit, setOOMHandler, Stop
<1>3. overlapped => overlapped'
  BY Zenon DEF setMemoryLimit, setOOMHandler, Stop, Overlap
<1> QED
  BY <1>1, <1>2, <1>3 DEF UsageInv, SoloInv, SoloFits, Busy

LEMMA CheckSolo ==
  ASSUME UsageInv, NEW t \in Threads, Check(t)
  PROVE  SoloInv'
<1>1. Usage' = Usage
  BY CheckStep DEF UsageInv
<1>2. CASE ~ canAllocate(call[t].size) /\ OOMHandler = "none"
  BY <1>2, SettingSolo DEF Check, mmallocOOM
<1>3. CASE canAllocate(call[t].size) \/ OOMHandler # "none"
  <2>1. call[t] \in CallRec /\ call[t].pc = "check"
    BY DEF Check, At, UsageInv, ShapeInv, TypeOK
  <2>2. PICK c : /\ call' = [call EXCEPT ![t] = c] /\ c.pc \in {"load-", "obtain", "idle"}
                 /\ totalAllocated' = totalAllocated /\ overlapped' = overlapped
    <3>1. CASE canAllocate(call[t].size)
      <4>1. PICK pc \in {"load-", "obtain"} :
              call' = [call EXCEPT ![t] = [call[t] EXCEPT !.pc = pc]]
        BY <3>1, <2>1 DEF Check
      <4>2. [call[t] EXCEPT !.pc = pc].pc = pc
        BY <2>1 DEF CallRec
      <4> QED
        BY <3>1, <4>1, <4>2 DEF Check
    <3>2. CASE ~ canAllocate(call[t].size) /\ OOMHandler # "none"
      BY <3>2 DEF Check, mmallocOOM, Idle
    <3> QED
      BY <1>3, <3>1, <3>2
  <2>3. call'[t] = c /\ \A u \in Threads : u # t => call'[u] = call[u]
    BY <2>2, OwnCall DEF UsageInv
  <2>4. ~ overlapped => totalAllocated' = Usage' % Word
    BY <1>1, <2>2 DEF UsageInv, SoloInv
  <2> QED
    BY <2>1, <2>2, <2>3, <2>4, OwnStep DEF UsageInv, Busy
<1> QED
  BY <1>2, <1>3

LEMMA LoadSolo ==
  ASSUME UsageInv, NEW t \in Threads,
         Load(t, "load-", "store-") \/ Load(t, "load+", "store+")
  PROVE  SoloInv'
<1>1. Usage' = Usage
  BY LoadStep DEF UsageInv
<1>2. PICK to : call' = [call EXCEPT ![t] = [call[t] EXCEPT !.pc = to, !.total = totalAllocated]]
  BY DEF Load
<1>3. PICK c : c = [call[t] EXCEPT !.pc = to, !.total = totalAllocated]
  OBVIOUS
<1>4. c.total = totalAllocated
  BY <1>3 DEF UsageInv, ShapeInv, TypeOK, CallRec
<1>5. call'[t] = c /\ \A u \in Threads : u # t => call'[u] = call[u]
  BY <1>2, <1>3, OwnCall DEF UsageInv
<1>6. Busy(t) /\ totalAllocated' = totalAllocated /\ overlapped' = overlapped
  BY DEF Load, At, Busy
<1>7. ~ overlapped => totalAllocated' = Usage' % Word
  BY <1>1, <1>6 DEF UsageInv, SoloInv
<1> QED
  BY <1>4, <1>5, <1>6, <1>7, OwnStep DEF UsageInv

LEMMA SubtractSolo ==
  ASSUME UsageInv, NEW t \in Threads, Subtract(t)
  PROVE  SoloInv'
<1>1. PICK n, pc : n = size[call[t].ptr] /\ pc = IF call[t].fn = "mfree" THEN "free" ELSE "obtain"
  OBVIOUS
<1>2. PICK c : c = [call[t] EXCEPT !.pc = pc]
  OBVIOUS
<1>3. /\ call' = [call EXCEPT ![t] = c] /\ call[t].pc = "store-"
      /\ Store(t, - n) /\ overlapped' = overlapped
  BY <1>1, <1>2 DEF Subtract, At
<1>4. c.pc = pc
  BY <1>2 DEF UsageInv, ShapeInv, TypeOK, CallRec
<1>5. call'[t] = c /\ \A u \in Threads : u # t => call'[u] = call[u]
  BY <1>3, OwnCall DEF UsageInv
<1>6. n \in Int /\ - n \in Int /\ Usage \in Int /\ Usage' = Usage + (- n)
  <2>1. call[t].ptr \in DOMAIN size
    BY <1>3 DEF UsageInv, ShapeInv, CallFits
  <2>2. n \in Int /\ Usage \in Int
    BY <1>1, <2>1, SizesAreNumbers DEF UsageInv
  <2>3. Usage' = Usage - n
    BY <1>1, SubtractStep DEF UsageInv
  <2> QED
    BY <2>2, <2>3
<1>7. ASSUME ~ overlapped, SoloFits(t)
      PROVE  totalAllocated' = Usage' % Word
  <2>1. totalAllocated = Usage % Word /\ call[t].total = totalAllocated
    BY <1>3, <1>7 DEF UsageInv, SoloInv, SoloFits
  <2> QED
    BY <1>3, <1>6, <2>1, StoreAccounts DEF UsageInv
<1>8. Busy(t) /\ call'[t].pc \notin {"store-", "store+"}
  BY <1>1, <1>3, <1>4, <1>5 DEF Busy
<1> QED
  BY <1>3, <1>5, <1>7, <1>8, OwnStep DEF UsageInv

LEMMA ObtainSolo ==
  ASSUME UsageInv, NEW t \in Threads, Obtain(t)
  PROVE  SoloInv'
<1>1. Usage' = Usage
  BY ObtainStep DEF UsageInv
<1>2. PICK new :
        call' = [call EXCEPT ![t] = [call[t] EXCEPT !.pc = "load+", !.new = new, !.ptr = Null]]
  BY DEF Obtain
<1>3. PICK c : c = [call[t] EXCEPT !.pc = "load+", !.new = new, !.ptr = Null]
  OBVIOUS
<1>4. c.pc = "load+"
  BY <1>3 DEF UsageInv, ShapeInv, TypeOK, CallRec
<1>5. call'[t] = c /\ \A u \in Threads : u # t => call'[u] = call[u]
  BY <1>2, <1>3, OwnCall DEF UsageInv
<1>6. Busy(t) /\ totalAllocated' = totalAllocated /\ overlapped' = overlapped
  BY DEF Obtain, At, Busy
<1>7. ~ overlapped => totalAllocated' = Usage' % Word
  BY <1>1, <1>6 DEF UsageInv, SoloInv
<1> QED
  BY <1>4, <1>5, <1>6, <1>7, OwnStep DEF UsageInv

(* A call ends.                                                            *)
LEMMA EndSolo ==
  ASSUME UsageInv, NEW t \in Threads, Add(t) \/ Free(t)
  PROVE  SoloInv'
<1>1. call' = [call EXCEPT ![t] = Idle] /\ Busy(t) /\ overlapped' = overlapped
  BY DEF Add, Free, At, Busy
<1>2. call'[t] = Idle /\ \A u \in Threads : u # t => call'[u] = call[u]
  BY <1>1, OwnCall DEF UsageInv
<1>3. ~ Busy(t)'
  BY <1>2 DEF Busy, Idle
<1>4. ASSUME ~ overlapped, SoloFits(t)
      PROVE  totalAllocated' = Usage' % Word
  <2>1. totalAllocated = Usage % Word
    BY <1>4 DEF UsageInv, SoloInv
  <2>2. CASE Free(t)
    <3>1. Usage' = Usage
      BY <2>2, FreeStep DEF UsageInv
    <3> QED
      BY <2>1, <2>2, <3>1 DEF Free
  <2>3. CASE Add(t)
    <3>1. call[t].size \in Int
      <4>1. call[t].size \in Sizes \cup {0}
        BY DEF UsageInv, ShapeInv, TypeOK, CallRec
      <4> QED
        BY <4>1, SizesAreNumbers DEF UsageInv
    <3>2. Usage' = Usage + call[t].size /\ Store(t, call[t].size)
      BY <2>3, AddStep DEF UsageInv, Add
    <3>3. call[t].total = totalAllocated
      BY <1>4, <2>3 DEF Add, At, SoloFits
    <3> QED
      BY <2>1, <3>1, <3>2, <3>3, StoreAccounts DEF UsageInv
  <2> QED
    BY <2>2, <2>3
<1> QED
  BY <1>1, <1>2, <1>3, <1>4, OwnStep DEF UsageInv

LEMMA NextUsage ==
  ASSUME UsageInv, [Next]_vars
  PROVE  UsageInv'
<1>1. ShapeInv'
  BY NextShape DEF UsageInv
<1>2. CASE UNCHANGED vars
  <2>1. Usage' = Usage
    BY <1>2, UsageStays DEF UsageInv, Counted, vars
  <2> QED
    BY <1>1, <1>2, <2>1, SameSolo DEF UsageInv, vars
<1>3. CASE setMemoryLimit \/ setOOMHandler
  BY <1>1, <1>3, SettingSolo DEF UsageInv
<1>4. ASSUME NEW t \in Threads, mmalloc(t) \/ mrealloc(t) \/ mfree(t) \/ allocate(t) \/ Free(t)
      PROVE  SoloInv'
  <2>1. CASE mmalloc(t) \/ mrealloc(t) \/ mfree(t)
    <3>1. Usage' = Usage
      BY <2>1, CallStep DEF UsageInv
    <3>2. PICK pc \in {"check", "load-"}, fn \in Calls, n \in Sizes \cup {0}, ptr \in Blocks \cup {Null} :
            Begin(t, pc, fn, n, ptr) /\ (pc = "load-" => fn = "mfree")
      BY <2>1, CallStep DEF UsageInv
    <3> QED
      BY <3>1, <3>2, BeginSolo
  <2>2. CASE Check(t)
    BY <2>2, CheckSolo
  <2>3. CASE Load(t, "load-", "store-") \/ Load(t, "load+", "store+")
    BY <2>3, LoadSolo
  <2>4. CASE Subtract(t)
    BY <2>4, SubtractSolo
  <2>5. CASE Obtain(t)
    BY <2>5, ObtainSolo
  <2>6. CASE ObtainNothing(t)
    BY <2>6, ObtainNothingStep, SettingSolo DEF UsageInv
  <2>7. CASE Add(t) \/ Free(t)
    BY <2>7, EndSolo
  <2> QED
    BY <1>4, <2>1, <2>2, <2>3, <2>4, <2>5, <2>6, <2>7 DEF allocate
<1> QED
  BY <1>1, <1>2, <1>3, <1>4 DEF UsageInv, Next

LEMMA InitUsage ==
  ASSUME Init
  PROVE  UsageInv
<1>1. ShapeInv /\ Usage = 0 /\ totalAllocated = 0
  BY InitShape DEF Init
<1>2. \A t \in Threads : ~ Busy(t)
  BY DEF Init, Busy, Idle
<1>3. 0 % Word = 0
  BY MmallocAssumption
<1> QED
  BY <1>1, <1>2, <1>3 DEF UsageInv, SoloInv

(* Calls keep apart and, until two overlap, the total keeps account.       *)
THEOREM UsageInvariance == Spec => []UsageInv
<1>1. Init => UsageInv
  BY InitUsage
<1>2. UsageInv /\ [Next]_vars => UsageInv'
  BY NextUsage
<1> QED
  BY <1>1, <1>2, PTL DEF Spec

(* memoryUsage is the sum of the blocks' sizes at every step of a call,    *)
(* for any sizes and any word, until a call begins during another: what    *)
(* is left to go wrong is the race.                                        *)
THEOREM UsageAccounted == Spec => []UsageIsAccounted
<1>1. UsageInv => UsageIsAccounted
  BY DEF UsageInv, SoloInv, UsageIsAccounted
<1> QED
  BY <1>1, UsageInvariance, PTL

-----------------------------------------------------------------------------
(* The limit.                                                              *)

(* Once a call has passed the check there is room for what it asks for.    *)
RoomFits(t) ==
  mLimit # 0 /\ call[t].fn # "mfree" /\ call[t].pc # "check" => Usage + call[t].size <= mLimit

RoomInv == ~ overlapped => \A t \in Threads : Busy(t) => RoomFits(t)

LimitInv == UsageInv /\ RoomInv

LEMMA UsageIsSmall ==
  ASSUME ShapeInv, Roomy, NEW n \in Sizes
  PROVE  Usage \in Nat /\ n \in Nat /\ Usage + n < Word
<1>1. PICK m \in Nat : (\A k \in Sizes : k <= m) /\ (Cardinality(Blocks) + 1) * m < Word
  BY MmallocAssumption DEF Roomy
<1>2. IsFiniteSet(Counted) /\ Counted \subseteq DOMAIN size /\ DOMAIN size \subseteq Blocks
  BY SizesAreNumbers, UsageIsSum DEF UsageDef, ShapeInv, TypeOK
<1>3. \A k \in Sizes : k \in 0 .. m
  BY <1>1, MmallocAssumption
<1>4. \A b \in Counted : size[b] \in 0 .. m
  BY <1>2, <1>3 DEF ShapeInv, TypeOK
<1>5. Usage \in 0 .. Cardinality(Counted) * m
  <2>1. SumOf(size, Counted) \in 0 .. Cardinality(Counted) * m
    BY <1>1, <1>2, <1>4, SumIsBounded
  <2> QED
    BY <2>1, UsageIsSum DEF UsageDef
<1>6. PICK c, d : c = Cardinality(Counted) /\ d = Cardinality(Blocks)
  OBVIOUS
<1>7. c \in Nat /\ d \in Nat /\ c <= d
  <2>1. IsFiniteSet(Blocks) /\ Counted \subseteq Blocks
    BY <1>2 DEF Roomy
  <2> QED
    BY <1>6, <2>1, FS_Subset, FS_CardinalityType
<1>8. c * m <= d * m
  <2>1. PICK k \in Nat : d = c + k
    BY <1>7
  <2>2. d * m = c * m + k * m
    BY <1>1, <1>7, <2>1
  <2>3. k * m \in Nat /\ c * m \in Nat
    BY <1>1, <1>7, <2>1
  <2> QED
    BY <2>2, <2>3
<1>9. PICK cm, dm \in Int : cm = c * m /\ dm = d * m
  BY <1>1, <1>7
<1>10. (d + 1) * m = dm + m
  BY <1>1, <1>7, <1>9
<1> QED
  BY <1>1, <1>3, <1>5, <1>6, <1>8, <1>9, <1>10, MmallocAssumption

(* Far from wrapping, a total that keeps account is the usage.             *)
LEMMA TotalIsUsage ==
  ASSUME ShapeInv, Roomy, totalAllocated = Usage % Word, NEW n \in Sizes
  PROVE  (n + totalAllocated) % Word = Usage + n
<1>1. PICK u, s : u = Usage /\ s = n + u
  OBVIOUS
<1>2. u \in Nat /\ n \in Nat /\ s \in Nat /\ s < Word /\ u < Word /\ s = u + n
  <2>1. Usage \in Nat /\ n \in Nat /\ Usage + n < Word
    BY UsageIsSmall
  <2> QED
    BY <1>1, <2>1, MmallocAssumption
<1>3. u % Word = u /\ s % Word = s
  BY <1>2, MmallocAssumption
<1> QED
  BY <1>1, <1>2, <1>3

(* A step of t within its call.                                            *)
LEMMA OwnRoom ==
  ASSUME LimitInv, NEW t \in Threads, Busy(t), overlapped' = overlapped,
         \A u \in Threads : u # t => call'[u] = call[u],
         ~ overlapped /\ Busy(t)' /\ RoomFits(t) => RoomFits(t)'
  PROVE  RoomInv'
<1>1. ASSUME ~ overlapped, NEW u \in Threads, Busy(u)'
      PROVE  RoomFits(u)'
  <2>1. SoloFits(t) /\ RoomFits(t)
    BY <1>1 DEF LimitInv, RoomInv, UsageInv, SoloInv
  <2>2. u = t
    BY <1>1, <2>1 DEF SoloFits, Busy
  <2> QED
    BY <1>1, <2>1, <2>2
<1> QED
  BY <1>1 DEF RoomInv

(* Nothing that RoomInv looks at changes.                                  *)
LEMMA SameRoom ==
  ASSUME RoomInv, call' = call, Usage' = Usage, UNCHANGED <<mLimit, overlapped>>
  PROVE  RoomInv'
BY DEF RoomInv, RoomFits, Busy

LEMMA BeginRoom ==
  ASSUME LimitInv, NEW t \in Threads, NEW pc \in {"check", "load-"}, NEW fn, NEW n, NEW ptr,
         Begin(t, pc, fn, n, ptr), pc = "load-" => fn = "mfree"
  PROVE  RoomInv'
<1>1. PICK c : c = [Idle EXCEPT !.pc = pc, !.fn = fn, !.size = n, !.ptr = ptr]
  OBVIOUS
<1>2. call' = [call EXCEPT ![t] = c] /\ Overlap
  BY <1>1 DEF Begin
<1>3. /\ call'[t] = c /\ c.pc = pc /\ c.fn = fn
      /\ \A u \in Threads : u # t => call'[u] = call[u]
  BY <1>1, <1>2, OwnCall DEF Idle, LimitInv, UsageInv
<1>4. ASSUME ~ overlapped', NEW u \in Threads, Busy(u)'
      PROVE  RoomFits(u)'
  <2>1. \A v \in Threads : ~ Busy(v)
    BY <1>2, <1>4 DEF Overlap
  <2>2. u = t
    BY <1>3, <1>4, <2>1 DEF Busy
  <2> QED
    BY <1>3, <2>2 DEF RoomFits
<1> QED
  BY <1>4 DEF RoomInv

(* Who changes the limit finds no call, or overlaps it.                    *)
LEMMA SettingRoom ==
  ASSUME LimitInv,
         \/ setMemoryLimit \/ setOOMHandler
         \/ \E how \in {"aborted", "undefined"} : Stop(how)
  PROVE  RoomInv'
<1>1. Usage' = Usage
  BY SettingStep DEF LimitInv, UsageInv
<1>2. CASE setMemoryLimit
  BY <1>2 DEF setMemoryLimit, Overlap, RoomInv, Busy
<1>3. CASE setOOMHandler
  BY <1>1, <1>3, SameRoom DEF setOOMHandler, LimitInv
<1>4. CASE \E how \in {"aborted", "undefined"} : Stop(how)
  BY <1>1, <1>4, SameRoom DEF Stop, Settings, LimitInv
<1> QED
  BY <1>2, <1>3, <1>4

LEMMA CheckRoom ==
  ASSUME LimitInv, Roomy, NEW t \in Threads, Check(t)
  PROVE  RoomInv'
<1>1. /\ call[t] \in CallRec /\ call[t].pc = "check" /\ call[t].size \in Sizes
      /\ CallFits(call[t], DOMAIN size)
  BY DEF Check, At, LimitInv, UsageInv, ShapeInv, TypeOK, CallFits
<1>2. Usage' = Usage
  BY CheckStep DEF LimitInv, UsageInv
<1>3. CASE canAllocate(call[t].size)
  <2>1. PICK pc : pc = IF call[t].fn = "mrealloc" THEN "load-" ELSE "obtain"
    OBVIOUS
  <2>2. PICK c : c = [call[t] EXCEPT !.pc = pc]
    OBVIOUS
  <2>3. call' = [call EXCEPT ![t] = c] /\ mLimit' = mLimit /\ overlapped' = overlapped
    BY <1>3, <2>1, <2>2 DEF Check, Settings
  <2>4. c.pc = pc /\ c.size = call[t].size
    BY <1>1, <2>2 DEF CallRec
  <2>5. call'[t] = c /\ \A u \in Threads : u # t => call'[u] = call[u]
    BY <2>3, OwnCall DEF LimitInv, UsageInv
  <2>6. ASSUME mLimit # 0, ~ overlapped
        PROVE  Usage + call[t].size <= mLimit
    <3>1. (call[t].size + totalAllocated) % Word = Usage + call[t].size
      BY <1>1, <2>6, TotalIsUsage DEF LimitInv, UsageInv, SoloInv
    <3> QED
      BY <1>3, <2>6, <3>1 DEF canAllocate
  <2>7. ~ overlapped => RoomFits(t)'
    BY <1>2, <2>3, <2>4, <2>5, <2>6 DEF RoomFits
  <2> QED
    BY <1>1, <2>3, <2>5, <2>7, OwnRoom DEF Busy
<1>4. CASE ~ canAllocate(call[t].size)
  <2>1. CASE OOMHandler = "none"
    BY <1>4, <2>1, SettingRoom DEF Check, mmallocOOM
  <2>2. CASE OOMHandler # "none"
    <3>1. call' = [call EXCEPT ![t] = Idle] /\ overlapped' = overlapped
      BY <1>4, <2>2 DEF Check, mmallocOOM
    <3>2. call'[t] = Idle /\ \A u \in Threads : u # t => call'[u] = call[u]
      BY <3>1, OwnCall DEF LimitInv, UsageInv
    <3>3. Busy(t) /\ ~ Busy(t)'
      BY <1>1, <3>2 DEF Busy, Idle
    <3> QED
      BY <3>1, <3>2, <3>3, OwnRoom
  <2> QED
    BY <2>1, <2>2
<1> QED
  BY <1>3, <1>4

LEMMA SizesAreNaturals ==
  /\ \A n \in Sizes \cup {0} : n \in Nat /\ n \in Int
  /\ \A n \in Limits \cup {0} : n \in Int
BY MmallocAssumption

(* A call goes on, and no more is counted than before.                     *)
LEMMA MoveRoom ==
  ASSUME LimitInv, NEW t \in Threads,
         \/ Load(t, "load-", "store-") \/ Load(t, "load+", "store+")
         \/ Subtract(t) \/ Obtain(t)
  PROVE  RoomInv'
<1>1. call[t] \in CallRec /\ call[t].pc \notin {"idle", "check"}
  BY DEF Load, Subtract, Obtain, At, LimitInv, UsageInv, ShapeInv, TypeOK
<1>2. PICK c : /\ call' = [call EXCEPT ![t] = c]
               /\ c.fn = call[t].fn /\ c.size = call[t].size
               /\ mLimit' = mLimit /\ overlapped' = overlapped
  <2>1. CASE Load(t, "load-", "store-") \/ Load(t, "load+", "store+")
    <3>1. PICK to : Load(t, "load-", to) \/ Load(t, "load+", to)
      BY <2>1
    <3>2. PICK c : c = [call[t] EXCEPT !.pc = to, !.total = totalAllocated]
      OBVIOUS
    <3>3. c.fn = call[t].fn /\ c.size = call[t].size
      BY <1>1, <3>2 DEF CallRec
    <3> QED
      BY <3>1, <3>2, <3>3 DEF Load, Settings
  <2>2. CASE Subtract(t)
    <3>1. PICK pc : call' = [call EXCEPT ![t] = [call[t] EXCEPT !.pc = pc]]
      BY <2>2 DEF Subtract
    <3>2. PICK c : c = [call[t] EXCEPT !.pc = pc]
      OBVIOUS
    <3>3. c.fn = call[t].fn /\ c.size = call[t].size
      BY <1>1, <3>2 DEF CallRec
    <3> QED
      BY <2>2, <3>1, <3>2, <3>3 DEF Subtract, Settings
  <2>3. CASE Obtain(t)
    <3>1. PICK new :
            call' = [call EXCEPT ![t] = [call[t] EXCEPT !.pc = "load+", !.new = new, !.ptr = Null]]
      BY <2>3 DEF Obtain
    <3>2. PICK c : c = [call[t] EXCEPT !.pc = "load+", !.new = new, !.ptr = Null]
      OBVIOUS
    <3>3. c.fn = call[t].fn /\ c.size = call[t].size
      BY <1>1, <3>2 DEF CallRec
    <3> QED
      BY <2>3, <3>1, <3>2, <3>3 DEF Obtain, Settings
  <2> QED
    BY <2>1, <2>2, <2>3
<1>3. call'[t] = c /\ \A u \in Threads : u # t => call'[u] = call[u]
  BY <1>2, OwnCall DEF LimitInv, UsageInv
<1>4. Usage \in Int /\ Usage' \in Int /\ Usage' <= Usage
  <2>1. Usage \in Int
    BY SizesAreNumbers DEF LimitInv, UsageInv
  <2>2. CASE Load(t, "load-", "store-") \/ Load(t, "load+", "store+") \/ Obtain(t)
    <3>1. Usage' = Usage
      BY <2>2, LoadStep, ObtainStep DEF LimitInv, UsageInv
    <3> QED
      BY <2>1, <3>1
  <2>3. CASE Subtract(t)
    <3>1. call[t].ptr \in DOMAIN size
      <4>1. call[t].pc = "store-" /\ CallFits(call[t], DOMAIN size)
        BY <2>3 DEF Subtract, At, LimitInv, UsageInv, ShapeInv
      <4> QED
        BY <4>1 DEF CallFits
    <3>2. size[call[t].ptr] \in Nat
      <4>1. size[call[t].ptr] \in Sizes
        BY <3>1 DEF LimitInv, UsageInv, ShapeInv, TypeOK
      <4> QED
        BY <4>1, SizesAreNaturals
    <3>3. PICK n, u, v : n = size[call[t].ptr] /\ u = Usage /\ v = Usage'
      OBVIOUS
    <3>4. v = u - n
      BY <2>3, <3>3, SubtractStep DEF LimitInv, UsageInv
    <3>5. u \in Int /\ v \in Int /\ v <= u
      BY <2>1, <3>2, <3>3, <3>4
    <3> QED
      BY <3>3, <3>5
  <2> QED
    BY <2>2, <2>3
<1>5. call[t].size \in Int /\ mLimit \in Int
  <2>1. call[t].size \in Sizes \cup {0} /\ mLimit \in Limits \cup {0}
    BY <1>1 DEF LimitInv, UsageInv, ShapeInv, TypeOK, CallRec
  <2> QED
    BY <2>1, SizesAreNaturals
<1>6. ASSUME RoomFits(t)
      PROVE  RoomFits(t)'
  <2>1. mLimit # 0 /\ call[t].fn # "mfree" => Usage + call[t].size <= mLimit
    BY <1>1, <1>6 DEF RoomFits
  <2>2. mLimit # 0 /\ call[t].fn # "mfree" => Usage' + call[t].size <= mLimit
    <3>1. PICK u, v, n : u = Usage /\ v = Usage' /\ n = call[t].size
      OBVIOUS
    <3>2. u + n <= mLimit => v + n <= mLimit
      BY <1>4, <1>5, <3>1
    <3> QED
      BY <2>1, <3>1, <3>2
  <2> QED
    BY <1>2, <1>3, <2>2 DEF RoomFits
<1> QED
  BY <1>1, <1>2, <1>3, <1>6, OwnRoom DEF Busy

(* A call ends.                                                            *)
LEMMA EndRoom ==
  ASSUME LimitInv, NEW t \in Threads, Add(t) \/ Free(t)
  PROVE  RoomInv'
<1>1. call' = [call EXCEPT ![t] = Idle] /\ Busy(t) /\ overlapped' = overlapped
  BY DEF Add, Free, At, Busy
<1>2. call'[t] = Idle /\ \A u \in Threads : u # t => call'[u] = call[u]
  BY <1>1, OwnCall DEF LimitInv, UsageInv
<1>3. ~ Busy(t)'
  BY <1>2 DEF Busy, Idle
<1> QED
  BY <1>1, <1>2, <1>3, OwnRoom

LEMMA NextRoom ==
  ASSUME LimitInv, Roomy, [Next]_vars
  PROVE  RoomInv'
<1>1. CASE UNCHANGED vars
  <2>1. Usage' = Usage
    BY <1>1, UsageStays DEF LimitInv, UsageInv, Counted, vars
  <2> QED
    BY <1>1, <2>1, SameRoom DEF vars, LimitInv
<1>2. CASE setMemoryLimit \/ setOOMHandler
  BY <1>2, SettingRoom
<1>3. ASSUME NEW t \in Threads, mmalloc(t) \/ mrealloc(t) \/ mfree(t) \/ allocate(t) \/ Free(t)
      PROVE  RoomInv'
  <2>1. CASE mmalloc(t) \/ mrealloc(t) \/ mfree(t)
    <3>1. PICK pc \in {"check", "load-"}, fn \in Calls, n \in Sizes \cup {0}, ptr \in Blocks \cup {Null} :
            Begin(t, pc, fn, n, ptr) /\ (pc = "load-" => fn = "mfree")
      BY <2>1, CallStep DEF LimitInv, UsageInv
    <3> QED
      BY <3>1, BeginRoom
  <2>2. CASE Check(t)
    BY <2>2, CheckRoom
  <2>3. CASE \/ Load(t, "load-", "store-") \/ Load(t, "load+", "store+")
             \/ Subtract(t) \/ Obtain(t)
    BY <2>3, MoveRoom
  <2>4. CASE ObtainNothing(t)
    BY <2>4, ObtainNothingStep, SettingRoom DEF LimitInv, UsageInv
  <2>5. CASE Add(t) \/ Free(t)
    BY <2>5, EndRoom
  <2> QED
    BY <1>3, <2>1, <2>2, <2>3, <2>4, <2>5 DEF allocate
<1> QED
  BY <1>1, <1>2, <1>3 DEF Next

(* A thread whose call is about to add its block is in a call until it has *)
(* added it.                                                               *)
LEMMA OnlyAddEnds ==
  ASSUME ShapeInv, [Next]_vars, NEW t \in Threads, call[t].pc = "store+", ~ Busy(t)'
  PROVE  Add(t)
<1>1. CASE UNCHANGED vars
  BY <1>1 DEF vars, Busy
<1>2. CASE setMemoryLimit \/ setOOMHandler
  BY <1>2 DEF setMemoryLimit, setOOMHandler, Busy
<1>3. ASSUME NEW u \in Threads, mmalloc(u) \/ mrealloc(u) \/ mfree(u) \/ allocate(u) \/ Free(u)
      PROVE  Add(t)
  <2>1. CASE mmalloc(u) \/ mrealloc(u) \/ mfree(u)
    <3>1. PICK pc, fn, n, ptr : Begin(u, pc, fn, n, ptr)
      BY <2>1 DEF mmalloc, mrealloc, mfree
    <3>2. u # t /\ call'[t] = call[t]
      BY <3>1 DEF Begin, At, ShapeInv, TypeOK
    <3> QED
      BY <3>2 DEF Busy
  <2>2. CASE allocate(u) \/ Free(u)
    <3>1. CASE u = t
      BY <2>2, <3>1 DEF allocate, Check, Load, Subtract, Obtain, ObtainNothing, Free, At
    <3>2. CASE u # t
      <4>1. call'[t] = call[t]
        BY <2>2, <3>2 DEF allocate, Check, Load, Subtract, Obtain, ObtainNothing, Add, Free,
                          mmallocOOM, Stop, ShapeInv, TypeOK
      <4> QED
        BY <4>1 DEF Busy
    <3> QED
      BY <3>1, <3>2
  <2> QED
    BY <1>3, <2>1, <2>2
<1> QED
  BY <1>1, <1>2, <1>3 DEF Next

(* Where sizes are far from wrapping, a call to mmalloc or mrealloc leaves *)
(* the usage within the limit, as canAllocate says it will, as long as no  *)
(* call begins during another: a limit that is set between two calls, and  *)
(* what mrealloc subtracts on its way, take nothing from it.               *)
THEOREM LimitIsHonoured ==
  ASSUME Roomy
  PROVE  Spec => LimitHonoured
<1>1. Init => LimitInv
  <2>1. Init => \A t \in Threads : ~ Busy(t)
    BY DEF Init, Busy, Idle
  <2> QED
    BY <2>1, InitUsage DEF LimitInv, RoomInv
<1>2. LimitInv /\ [Next]_vars => LimitInv'
  BY NextUsage, NextRoom DEF LimitInv
<1>3. LimitInv /\ [Next]_vars =>
        [\A t \in Threads :
           call[t].pc = "store+" /\ ~ overlapped /\ mLimit # 0 /\ ~ Busy(t)'
           => Usage' <= mLimit]_vars
  <2> SUFFICES ASSUME LimitInv, [Next]_vars, NEW t \in Threads,
                      call[t].pc = "store+", ~ overlapped, mLimit # 0, ~ Busy(t)'
               PROVE  Usage' <= mLimit
    OBVIOUS
  <2>1. Add(t)
    BY OnlyAddEnds DEF LimitInv, UsageInv
  <2>2. Usage' = Usage + call[t].size
    BY <2>1, AddStep DEF LimitInv, UsageInv
  <2>3. RoomFits(t)
    BY DEF LimitInv, RoomInv, Busy
  <2>4. call[t].fn # "mfree"
    BY DEF LimitInv, UsageInv, ShapeInv, CallFits
  <2> QED
    BY <2>2, <2>3, <2>4 DEF RoomFits
<1> QED
  BY <1>1, <1>2, <1>3, PTL DEF Spec, LimitHonoured

=============================================================================
