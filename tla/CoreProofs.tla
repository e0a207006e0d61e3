----------------------------- MODULE CoreProofs -----------------------------
(***************************************************************************)
(* Proofs about the core of the runtime, its task and its heap.            *)
(*   Task: the Arduino task loses no wakeup and delay() never returns      *)
(* early, for every range of millis(), every timeout below it, every queue *)
(* size and every grain of the recurrent functions.                        *)
(*   Heap: its lists are sound (UmmIntegrity) and it keeps what it         *)
(* promises its callers (UmmPromise), for every size of the heap below the *)
(* limit of its 15 bit block numbers, every set of pointers and every set  *)
(* of sizes, overflow of the size included.                                *)
(***************************************************************************)
EXTENDS ContTask, UmmHeap, NatLemmas, FiniteSetTheorems, SequenceTheorems

-----------------------------------------------------------------------------
(* Task                                                                    *)

(* What CONT's program counter says about the call it is in, and the one   *)
(* fact about time: esp_try_delay() computes the time really elapsed.      *)
CallInv ==
  /\ pc = "user" <=> op = "none"
  /\ pc = "try" => Waiting
  /\ cont = "parked" => pc = "user"
  /\ cont = "suspended" => pc = "woken"
  /\ op = "delay" => blocked
  /\ Waiting => elapsed = Sub(now, start)
  /\ armed => pc = "woken"

Inv == TypeOK /\ CallInv /\ NoLostWakeup /\ TimerHasOwner

\* The difference of two values of millis() is one.
LEMMA SubType ==
  ASSUME NEW a \in 0..Wrap - 1, NEW b \in 0..Wrap - 1
  PROVE  Sub(a, b) \in 0..Wrap - 1
BY WrapAssumption DEF Sub

(* The elapsed time computed from millis() grows by one with every tick. *)
LEMMA SubTick ==
  ASSUME NEW a \in 0..Wrap - 1, NEW b \in 0..Wrap - 1, Sub(a, b) < Wrap - 1
  PROVE  Sub(IF a = Wrap - 1 THEN 0 ELSE a + 1, b) = Sub(a, b) + 1
BY WrapAssumption DEF Sub

\* The queue of events does not overflow, and is not empty after a post.
LEMMA PostedType ==
  ASSUME posted \in 0..QueueSize
  PROVE  Posted \in 0..QueueSize /\ Posted > 0
BY QueueAssumption DEF Posted

\* The invariant holds at the start.
LEMMA InitInv == Init => Inv
<1> SUFFICES ASSUME Init PROVE Inv
  OBVIOUS
<1>1. 0 \in 0..Wrap - 1 /\ 0 \in Millis /\ 1 \in 0..QueueSize
  BY WrapAssumption, QueueAssumption DEF Millis
<1>2. TypeOK
  BY <1>1 DEF Init, TypeOK
<1>3. CallInv /\ NoLostWakeup /\ TimerHasOwner
  BY DEF Init, CallInv, NoLostWakeup, TimerHasOwner, Waiting
<1> QED BY <1>2, <1>3 DEF Inv

\* The system task: the loop task, the timer and the callbacks.
LEMMA SysStep == ASSUME Inv, Sys \/ SpuriousWake \/ Complete PROVE Inv'
<1> USE PostedType DEF Inv, TypeOK, CallInv, NoLostWakeup, TimerHasOwner, Waiting, wait, timer, time
<1>1. CASE LoopTask
  BY <1>1, QueueAssumption DEF LoopTask
<1>2. CASE DelayEnd
  BY <1>2 DEF DelayEnd, EspSchedule
<1>3. CASE SpuriousWake
  BY <1>3 DEF SpuriousWake, EspSchedule
<1>4. CASE Complete
  BY <1>4 DEF Complete, CallbackWakes, EspSchedule
<1> QED BY <1>1, <1>2, <1>3, <1>4 DEF Sys

\* Time.
LEMMA TickStep == ASSUME Inv, Tick PROVE Inv'
<1>1. /\ UNCHANGED <<cont, pc, op, start, timeout, intvl, blocked, posted, armed>>
      /\ now' = IF now = Wrap - 1 THEN 0 ELSE now + 1
      /\ elapsed' = IF Waiting THEN elapsed + 1 ELSE elapsed
      /\ Waiting => elapsed < Wrap - 1
  BY DEF Tick, wait
<1>2. now' \in 0..Wrap - 1 /\ elapsed' \in 0..Wrap - 1
  BY <1>1, WrapAssumption DEF Inv, TypeOK
<1>3. left' \in Millis
  BY WrapAssumption DEF Inv, TypeOK, Tick, Millis
<1>4. Waiting => elapsed' = Sub(now, start)'
  <2> SUFFICES ASSUME Waiting PROVE elapsed' = Sub(now', start)
    BY <1>1 DEF Sub
  <2>1. elapsed = Sub(now, start) /\ now \in 0..Wrap - 1 /\ start \in 0..Wrap - 1
    BY DEF Inv, TypeOK, CallInv
  <2> QED BY <1>1, <2>1, SubTick
<1> QED BY <1>1, <1>2, <1>3, <1>4
        DEF Inv, TypeOK, CallInv, NoLostWakeup, TimerHasOwner, Waiting

\* Calls of the sketch.
LEMMA UserStep == ASSUME Inv, User PROVE Inv'
<1>0. /\ pc = "user" /\ cont = "running" /\ op = "none" /\ ~armed
      /\ TypeOK
  BY DEF Inv, CallInv, User, LoopReturns, Yield, StartSuspend, StartWait, InUser
<1>a. CASE LoopReturns
  BY <1>0, <1>a, PostedType DEF LoopReturns, EspSchedule,
     Inv, TypeOK, CallInv, NoLostWakeup, TimerHasOwner, Waiting, wait, timer, time
<1>b. CASE Yield
  BY <1>0, <1>b, PostedType DEF Yield, YieldWakes, EspSchedule, Suspend,
     Inv, TypeOK, CallInv, NoLostWakeup, TimerHasOwner, Waiting, timer, time
<1>c. CASE StartSuspend
  BY <1>0, <1>c DEF StartSuspend, Suspend,
     Inv, TypeOK, CallInv, NoLostWakeup, TimerHasOwner, Waiting, timer, time
<1>2. ASSUME NEW kind \in {"delay", "wait"}, NEW ms \in Millis, NEW every \in Millis,
             StartWait(kind, ms, every)
      PROVE  Inv'
  <2>1. Sub(now', start') = 0 /\ 0 \in 0..Wrap - 1
    BY <1>0, <1>2, WrapAssumption DEF StartWait, Sub, TypeOK
  <2> QED BY <1>0, <1>2, <2>1 DEF StartWait, Sub, Inv, TypeOK, CallInv, NoLostWakeup,
             TimerHasOwner, Waiting, timer
<1> QED BY <1>a, <1>b, <1>c, <1>2 DEF User

\* esp_try_delay() never sleeps for 0 ms or longer than its timeout.
LEMMA SleepType ==
  ASSUME Inv, pc = "try", ~Expired, NEW g \in Nat
  PROVE  SleepMs(g) \in Millis \ {0}
<1>1. Sub(now, start) \in 0..Wrap - 1 /\ timeout \in Nat /\ timeout <= MaxMs
  BY SubType, WrapAssumption DEF Inv, TypeOK, Millis
<1>2. ~(Sub(now, start) >= timeout)
  BY DEF Expired
<1> QED BY <1>1, <1>2, WrapAssumption DEF SleepMs, Millis

\* esp_try_delay()
LEMMA TryStep == ASSUME Inv, Try PROVE Inv'
<1>0. /\ pc = "try" /\ cont = "running" /\ Waiting /\ ~armed /\ TypeOK
  BY DEF Inv, CallInv, Try, TryZero, TryExpired, TrySleep, InTry
<1>1. CASE TryZero
  BY <1>0, <1>1, PostedType DEF TryZero, EspSchedule, Suspend,
     Inv, TypeOK, CallInv, NoLostWakeup, TimerHasOwner, Waiting, timer, time
<1>2. CASE TryExpired
  BY <1>0, <1>2, WrapAssumption DEF TryExpired, Return,
     Inv, TypeOK, CallInv, NoLostWakeup, TimerHasOwner, Waiting, timer, time, Millis
<1>3. CASE TrySleep
  <2>a. PICK grain \in Grains : \E g \in 0..intvl + grain : EspDelay(SleepMs(g))
    BY <1>3 DEF TrySleep
  <2>1. PICK g \in 0..intvl + grain : EspDelay(SleepMs(g))
    BY <2>a
  <2>2. g \in Nat
    BY <1>0, <2>1, GrainAssumption, WrapAssumption DEF TypeOK, Millis
  <2>3. SleepMs(g) \in Millis \ {0}
    BY <1>0, <1>3, <2>2, SleepType DEF TrySleep
  <2>4. armed' = TRUE /\ left' \in Millis /\ posted' = posted
    BY <2>1, <2>3 DEF EspDelay
  <2> QED BY <1>0, <1>3, <2>4 DEF TrySleep, Suspend,
             Inv, TypeOK, CallInv, NoLostWakeup, TimerHasOwner, Waiting, wait, time, Sub
<1> QED BY <1>1, <1>2, <1>3 DEF Try

\* CONT runs again, or yields for the recurrent functions.
LEMMA WakeStep == ASSUME Inv, Wake \/ RecurrentYield PROVE Inv'
<1>0. pc = "woken" /\ cont = "running" /\ TypeOK
  BY DEF Inv, Wake, RecurrentYield, YieldReturns, DelayWakes, SuspendWakes, InWoken
<1>1. CASE YieldReturns
  BY <1>0, <1>1, WrapAssumption DEF YieldReturns, Return,
     Inv, TypeOK, CallInv, NoLostWakeup, TimerHasOwner, Waiting, timer, time, Millis
<1>2. CASE DelayWakes
  <2>1. CASE blocked
    BY <1>0, <1>2, <2>1 DEF DelayWakes, Disarm,
       Inv, TypeOK, CallInv, NoLostWakeup, TimerHasOwner, Waiting, wait, time, Sub
  <2>2. CASE ~blocked
    <3>1. 0 \in 0..Wrap - 1 /\ 0 \in Millis
      BY WrapAssumption DEF Millis
    <3> QED BY <1>0, <1>2, <2>2, <3>1 DEF DelayWakes, Disarm, Return,
               Inv, TypeOK, CallInv, NoLostWakeup, TimerHasOwner, Waiting, time
  <2> QED BY <2>1, <2>2
<1>3. CASE SuspendWakes
  BY <1>0, <1>3, WrapAssumption DEF SuspendWakes, Return, Suspend,
     Inv, TypeOK, CallInv, NoLostWakeup, TimerHasOwner, Waiting, wait, timer, time, Millis
<1>4. CASE RecurrentYield
  BY <1>0, <1>4, PostedType DEF RecurrentYield, EspSchedule, Suspend,
     Inv, TypeOK, CallInv, NoLostWakeup, TimerHasOwner, Waiting, wait, timer, time, Sub
<1> QED BY <1>1, <1>2, <1>3, <1>4 DEF Wake

\* Every step keeps the invariant.
LEMMA NextInv == Inv /\ [Next]_vars => Inv'
<1> SUFFICES ASSUME Inv, [Next]_vars PROVE Inv'
  OBVIOUS
<1>1. CASE Next
  BY <1>1, SysStep, TickStep, UserStep, TryStep, WakeStep DEF Next
<1>2. CASE UNCHANGED vars
  BY <1>2 DEF vars, wait, timer, time, Inv, TypeOK, CallInv, NoLostWakeup, TimerHasOwner,
     Waiting, Sub
<1> QED BY <1>1, <1>2

\* The invariant holds in every state.
LEMMA SpecInv == Spec => []Inv
BY InitInv, NextInv, PTL DEF Spec

(* The state of core_esp8266_main.cpp keeps its types. *)
THEOREM TypeCorrect == Spec => []TypeOK
BY SpecInv, PTL DEF Inv

(* A task that has given way has an event posted or the delay timer armed, *)
(* unless it waits in esp_suspend(blocked) for a callback still to come.   *)
THEOREM WakeupCorrect == Spec => []NoLostWakeup
BY SpecInv, PTL DEF Inv

(* delay_timer is never left armed by a delay that has returned. *)
THEOREM TimerCorrect == Spec => []TimerHasOwner
BY SpecInv, PTL DEF Inv

(* delay() returns no earlier than its timeout, wherever millis() wraps    *)
(* and however often CONT is woken in between.                             *)
THEOREM DelayCorrect == Spec => DelayNotEarly
<1>1. Inv /\ [Next]_vars => [op = "delay" /\ op' # "delay" => elapsed >= timeout]_vars
  <2> SUFFICES ASSUME Inv, Next, op = "delay", op' # "delay" PROVE elapsed >= timeout
    OBVIOUS
  <2>1. elapsed = Sub(now, start) /\ blocked /\ elapsed \in Nat /\ pc # "user"
    BY WrapAssumption DEF Inv, TypeOK, CallInv, Waiting
  <2>2. CASE Try
    <3>1. CASE TryZero
      BY <2>1, <3>1 DEF TryZero
    <3>2. CASE TryExpired
      BY <2>1, <3>2 DEF TryExpired, Expired
    <3>3. ~TrySleep
      BY DEF TrySleep, wait
    <3> QED BY <2>2, <3>1, <3>2, <3>3 DEF Try
  <2>3. CASE Wake \/ RecurrentYield
    BY <2>1, <2>3 DEF Wake, RecurrentYield, YieldReturns, DelayWakes, SuspendWakes, wait, Waiting
  <2>4. CASE User
    <3>1. User => pc = "user"
      BY DEF User, LoopReturns, Yield, StartSuspend, StartWait, InUser
    <3> QED BY <2>1, <2>4, <3>1
  <2>5. CASE Sys \/ SpuriousWake \/ Complete \/ Tick
    BY <2>5 DEF Sys, LoopTask, DelayEnd, SpuriousWake, Complete, Tick, wait
  <2> QED BY <2>2, <2>3, <2>4, <2>5 DEF Next
<1> QED BY <1>1, SpecInv, PTL DEF Spec, DelayNotEarly

-----------------------------------------------------------------------------
(* Heap: the invariant                                                     *)

\* What a block of memory may hold.
UmmStored == {UmmNoData} \cup (UmmPtrs \X Nat)

\* The type of the heap.
UmmHeapType ==
  [nblock : [UmmBlockNos -> UmmBlockNos], mask : [UmmBlockNos -> BOOLEAN],
   pblock : [UmmBlockNos -> UmmBlockNos], nfree : [UmmBlockNos -> UmmBlockNos],
   pfree : [UmmBlockNos -> UmmBlockNos], data : [UmmBlockNos -> UmmStored],
   free_blocks : Int]

\* The headers at H, and no others, are the list of blocks.
Headers(nb, pb, H) ==
  /\ H \subseteq UmmBlockNos /\ 0 \in H /\ 1 \in H /\ UmmLast \in H
  /\ \A i \in H : i # UmmLast => nb[i] \in H /\ i < nb[i] /\ pb[nb[i]] = i
  /\ \A i, k \in H : i < k => nb[i] <= k

\* The special blocks are in use, and free neighbours are merged.
Masked(mk, nb, H) ==
  /\ ~mk[0] /\ ~mk[UmmLast]
  /\ \A i \in H : i # UmmLast /\ mk[i] => ~mk[nb[i]]

\* The free list: forward and back links agree, and a set of blocks that has
\* block 0 and with each of its blocks the next one has all of them.
FreeRing(nf, pf, F) ==
  /\ 0 \notin F
  /\ \A i \in F \cup {0} : /\ nf[i] \in F \cup {0} /\ pf[i] \in F \cup {0}
                           /\ pf[nf[i]] = i /\ nf[pf[i]] = i
  /\ \A S \in SUBSET (F \cup {0}) :
       0 \in S /\ (\A i \in S : nf[i] \in S) => S = F \cup {0}

\* The free blocks and the allocated ones, and the memory of a set of blocks.
Frees(mk, H) == {i \in H : mk[i]}
Useds(mk, H) == {i \in H : i # 0 /\ i # UmmLast /\ ~mk[i]}
UsedCells(nb, U) == {i \in UmmBlockNos : \E a \in U : a <= i /\ i < nb[a]}

\* stats.free_blocks
FreeCounted(h, H) ==
  h.free_blocks = UmmLast - 1 - Cardinality(UsedCells(h.nblock, Useds(h.mask, H)))

\* The heap is sound, where H is the set of its headers.
LinksOK(h, H) ==
  /\ h \in UmmHeapType
  /\ Headers(h.nblock, h.pblock, H)
  /\ Masked(h.mask, h.nblock, H)
  /\ FreeRing(h.nfree, h.pfree, Frees(h.mask, H))

HeapOK(h, H) == LinksOK(h, H) /\ FreeCounted(h, H)

Copying(j) == j.pc \in {"copy", "exit"}

\* Pointers: a size that overflows has never been allocated.
PtrsOK(P) ==
  /\ P \in [UmmPtrs -> [c : UmmBlockNos, bytes : Nat, keep : Nat]]
  /\ \A p \in UmmPtrs : P[p].c # 0 =>
       /\ P[p].bytes \in UmmSizes /\ P[p].keep <= UmmBlocks(P[p].bytes)
       /\ UmmBlocks(P[p].bytes) < 32767

\* The locals of umm_realloc(): the size it read before its critical section is
\* the size of its block, and the place it copies to has room for the old data
\* and for what was asked for.
UmmJobs ==
  [pc : {"entry", "copy", "exit"}, p : UmmApp, size : UmmSizes, c : UmmBlockNos,
   from : UmmBlockNos, blockSize : Nat, cur : Nat, moved : BOOLEAN]

JobOK(P, j) ==
  \/ j = UmmNoJob
  \/ /\ j \in UmmJobs
     /\ P[j.p].c = j.from /\ j.from # 0 /\ j.cur = UmmBlocks(P[j.p].bytes)
     /\ j.pc = "entry" => j.c = j.from /\ j.blockSize = j.cur /\ ~j.moved
     /\ Copying(j) =>
          /\ UmmBlocks(j.size) <= j.blockSize
          /\ j.moved => j.cur <= j.blockSize /\ j.blockSize = UmmBlocks(j.size)
          /\ ~j.moved => j.c <= j.from /\ j.from + j.cur <= j.c + j.blockSize

\* The pointers whose own block is an allocation: all but that of a realloc()
\* which has made its block part of a larger one.
Holder(P, j, q) == P[q].c # 0 /\ (Copying(j) /\ ~j.moved => q # j.p)

\* The blocks in use are those of the pointers and of umm_realloc(), one each,
\* and exactly as long as they have to be.
Owned(h, P, j, H) ==
  /\ \A q \in UmmPtrs : Holder(P, j, q) =>
       /\ P[q].c \in Useds(h.mask, H)
       /\ h.nblock[P[q].c] = P[q].c + UmmBlocks(P[q].bytes)
  /\ \A q, r \in UmmPtrs : Holder(P, j, q) /\ Holder(P, j, r) /\ q # r => P[q].c # P[r].c
  /\ Copying(j) =>
       /\ j.c \in Useds(h.mask, H) /\ h.nblock[j.c] = j.c + j.blockSize
       /\ \A q \in UmmPtrs : Holder(P, j, q) => P[q].c # j.c
  /\ \A a \in Useds(h.mask, H) : \/ \E q \in UmmPtrs : Holder(P, j, q) /\ P[q].c = a
                                 \/ Copying(j) /\ j.c = a

\* Where the data of p is.
DataAt(P, j, p) == IF j.pc = "exit" /\ j.p = p THEN j.c ELSE P[p].c

\* Data is kept.
Kept(h, P, j) ==
  \A p \in UmmPtrs : P[p].c # 0 =>
     \A k \in 0..(P[p].keep - 1) : h.data[DataAt(P, j, p) + k] = UmmDatum(p, k)

\* The inductive invariant.
HeapInv(h, P, j) ==
  /\ PtrsOK(P) /\ JobOK(P, j) /\ Kept(h, P, j)
  /\ \E H \in SUBSET UmmBlockNos : HeapOK(h, H) /\ Owned(h, P, j, H)

UmmInv == HeapInv(ummHeap, ummPtr, ummJob) /\ ummNull \in Nat /\ UmmFailsWhenFull

-----------------------------------------------------------------------------
(* Heap: the list of blocks                                                *)

\* A new header at m cuts the block c in two.
SplitLinks(nb, pb, nb2, pb2, c, m) ==
  \A i \in UmmBlockNos :
     /\ nb2[i] = IF i = c THEN m ELSE IF i = m THEN nb[c] ELSE nb[i]
     /\ pb2[i] = IF i = nb[c] THEN m ELSE IF i = m THEN c ELSE pb[i]

\* The block d, behind c, becomes part of c.
MergeLinks(nb, pb, nb2, pb2, c, d) ==
  \A i \in UmmBlockNos :
     /\ nb2[i] = IF i = d THEN 0 ELSE IF i = c THEN nb[d] ELSE nb[i]
     /\ pb2[i] = IF i = d THEN 0 ELSE IF i = nb[d] THEN c ELSE pb[i]

\* The block numbers.
LEMMA BlockNos == UmmLast \in Nat /\ UmmLast > 1 /\ UmmBlockNos = 0..UmmLast
BY UmmAssumption DEF UmmBlockNos

SplitCase(nb, pb, nb2, pb2, H, c, m) ==
  /\ Headers(nb, pb, H) /\ c \in H /\ m \in UmmBlockNos
  /\ c < m /\ m < nb[c] /\ c # UmmLast
  /\ SplitLinks(nb, pb, nb2, pb2, c, m)

\* The block list after a split.
LEMMA HeadersSplit ==
  ASSUME NEW nb, NEW pb, NEW nb2, NEW pb2, NEW H, NEW c, NEW m,
         SplitCase(nb, pb, nb2, pb2, H, c, m)
  PROVE  Headers(nb2, pb2, H \cup {m}) /\ m \notin H
<1>0. /\ Headers(nb, pb, H) /\ c \in H /\ m \in UmmBlockNos
      /\ c < m /\ m < nb[c] /\ c # UmmLast /\ SplitLinks(nb, pb, nb2, pb2, c, m)
  BY DEF SplitCase
<1>1. H \subseteq UmmBlockNos /\ 0 \in H /\ 1 \in H /\ UmmLast \in H
  BY <1>0 DEF Headers
<1>2. \A i \in H : i # UmmLast => nb[i] \in H /\ i < nb[i] /\ pb[nb[i]] = i
  BY <1>0 DEF Headers
<1>3. \A i, k \in H : i < k => nb[i] <= k
  BY <1>0 DEF Headers
<1>4. \A i \in H \cup {m} : i \in Nat
  BY <1>0, <1>1, BlockNos
<1>5. m \notin H
  BY <1>0, <1>2, <1>3, <1>4
<1>6. ASSUME NEW i \in H \cup {m}, i # UmmLast
      PROVE  nb2[i] \in H \cup {m} /\ i < nb2[i] /\ pb2[nb2[i]] = i
  <2>1. i \in UmmBlockNos /\ c \in UmmBlockNos /\ nb[c] \in UmmBlockNos /\ nb[c] \in H /\ c # m
    BY <1>0, <1>1, <1>2, <1>4
  <2>2. CASE i = c
    BY <1>0, <1>4, <1>5, <1>2, <2>1, <2>2 DEF SplitLinks
  <2>3. CASE i = m
    BY <1>0, <1>4, <1>5, <1>2, <2>1, <2>3 DEF SplitLinks
  <2>4. CASE i # c /\ i # m
    <3>1. nb2[i] = nb[i] /\ nb[i] \in H /\ i < nb[i] /\ pb[nb[i]] = i /\ pb[nb[c]] = c
      BY <1>0, <1>6, <1>2, <2>1, <2>4 DEF SplitLinks
    <3>2. nb[i] # nb[c] /\ nb[i] # m /\ nb[i] \in UmmBlockNos
      BY <1>0, <1>1, <1>5, <2>4, <3>1
    <3>3. pb2[nb[i]] = pb[nb[i]]
      BY <1>0, <3>2 DEF SplitLinks
    <3> QED BY <1>0, <3>1, <3>3
  <2> QED BY <1>0, <2>2, <2>3, <2>4
<1>7. ASSUME NEW i \in H \cup {m}, NEW k \in H \cup {m}, i < k
      PROVE  nb2[i] <= k
  <2>1. i \in UmmBlockNos /\ k \in UmmBlockNos /\ i \in Nat /\ k \in Nat
    BY <1>0, <1>1, <1>4
  <2>2. CASE i = c
    <3>1. nb2[i] = m
      BY <1>0, <2>1, <2>2 DEF SplitLinks
    <3>2. k # m => nb[c] <= k
      BY <1>0, <1>7, <1>3, <2>2
    <3>3. nb[c] \in Nat
      BY <1>0, <1>2, <1>4
    <3> QED BY <1>0, <1>4, <2>1, <3>1, <3>2, <3>3
  <2>3. CASE i = m
    <3>1. nb2[i] = nb[c]
      BY <1>0, <1>4, <2>1, <2>3 DEF SplitLinks
    <3>2. k \in H /\ c < k
      BY <1>0, <1>7, <1>4, <2>1, <2>3
    <3> QED BY <1>0, <1>3, <3>1, <3>2
  <2>4. CASE i # c /\ i # m
    <3>1. nb2[i] = nb[i] /\ i \in H
      BY <1>0, <2>1, <2>4 DEF SplitLinks
    <3>2. CASE k # m
      BY <1>0, <1>7, <1>3, <3>1, <3>2
    <3>3. CASE k = m
      <4>1. ~(c < i)
        <5>1. c < i => nb[c] <= i
          BY <1>0, <1>3, <3>1
        <5>2. nb[c] \in Nat
          BY <1>0, <1>2, <1>4
        <5> QED BY <1>0, <1>7, <1>4, <2>1, <3>3, <5>1, <5>2
      <4>2. i < c
        BY <1>0, <1>4, <2>1, <2>4, <4>1
      <4>3. nb[i] <= c
        BY <1>0, <1>3, <3>1, <4>2
      <4>4. i # UmmLast
        BY <1>0, <1>7, <2>1, <3>3, BlockNos
      <4>5. nb[i] \in Nat
        BY <1>0, <1>2, <1>4, <3>1, <4>4
      <4> QED BY <1>0, <1>4, <3>1, <3>3, <4>3, <4>5
    <3> QED BY <1>0, <3>2, <3>3
  <2> QED BY <1>0, <2>2, <2>3, <2>4
<1>8. H \cup {m} \subseteq UmmBlockNos
  BY <1>0, <1>1
<1> QED BY <1>0, <1>1, <1>5, <1>6, <1>7, <1>8 DEF Headers

MergeCase(nb, pb, nb2, pb2, H, c, d) ==
  /\ Headers(nb, pb, H) /\ c \in H /\ d \in H /\ nb[c] = d
  /\ c # 0 /\ c # UmmLast /\ d # UmmLast
  /\ MergeLinks(nb, pb, nb2, pb2, c, d)

\* The block list after a merge.
LEMMA HeadersMerge ==
  ASSUME NEW nb, NEW pb, NEW nb2, NEW pb2, NEW H, NEW c, NEW d,
         MergeCase(nb, pb, nb2, pb2, H, c, d)
  PROVE  Headers(nb2, pb2, H \ {d}) /\ nb2[c] = nb[d]
<1>0. /\ Headers(nb, pb, H) /\ c \in H /\ d \in H /\ d = nb[c]
      /\ c # 0 /\ c # UmmLast /\ d # UmmLast /\ MergeLinks(nb, pb, nb2, pb2, c, d)
  BY DEF MergeCase
<1>1. H \subseteq UmmBlockNos /\ 0 \in H /\ 1 \in H /\ UmmLast \in H
  BY <1>0 DEF Headers
<1>2. \A i \in H : i # UmmLast => nb[i] \in H /\ i < nb[i] /\ pb[nb[i]] = i
  BY <1>0 DEF Headers
<1>3. \A i, k \in H : i < k => nb[i] <= k
  BY <1>0 DEF Headers
<1>4. \A i \in H : i \in Nat
  BY <1>0, <1>1, BlockNos
<1>5. d \in H /\ c < d /\ d # 0 /\ d # 1 /\ nb[d] \in H /\ d < nb[d] /\ pb[d] = c /\ pb[nb[d]] = d
  BY <1>0, <1>2, <1>4
<1>6. c \in UmmBlockNos /\ d \in UmmBlockNos /\ nb[d] \in UmmBlockNos /\ c # d /\ nb2[c] = nb[d]
  BY <1>0, <1>1, <1>4, <1>5 DEF MergeLinks
<1>7. ASSUME NEW i \in H \ {d}, i # UmmLast
      PROVE  nb2[i] \in H \ {d} /\ i < nb2[i] /\ pb2[nb2[i]] = i
  <2>1. i \in UmmBlockNos
    BY <1>0, <1>1
  <2>2. CASE i = c
    BY <1>0, <1>4, <1>5, <1>6, <2>2 DEF MergeLinks
  <2>3. CASE i # c
    <3>1. nb2[i] = nb[i] /\ nb[i] \in H /\ i < nb[i] /\ pb[nb[i]] = i
      BY <1>0, <1>7, <1>2, <2>1, <2>3 DEF MergeLinks
    <3>2. nb[i] # d /\ nb[i] # nb[d] /\ nb[i] \in UmmBlockNos
      BY <1>0, <1>1, <1>5, <2>3, <3>1
    <3>3. pb2[nb[i]] = pb[nb[i]]
      BY <1>0, <3>2 DEF MergeLinks
    <3> QED BY <1>0, <3>1, <3>2, <3>3
  <2> QED BY <1>0, <2>2, <2>3
<1>8. ASSUME NEW i \in H \ {d}, NEW k \in H \ {d}, i < k
      PROVE  nb2[i] <= k
  <2>1. i \in UmmBlockNos /\ k \in UmmBlockNos /\ i \in Nat /\ k \in Nat
    BY <1>0, <1>1, <1>4
  <2>2. CASE i = c
    <3>1. d <= k
      BY <1>0, <1>8, <1>3, <2>2
    <3>2. d < k
      BY <1>0, <1>4, <1>5, <2>1, <3>1
    <3>3. nb[d] <= k
      BY <1>0, <1>3, <1>5, <3>2
    <3> QED BY <1>0, <1>6, <2>2, <3>3
  <2>3. CASE i # c
    BY <1>0, <1>8, <1>3, <2>1, <2>3 DEF MergeLinks
  <2> QED BY <1>0, <2>2, <2>3
<1> QED BY <1>0, <1>1, <1>5, <1>6, <1>7, <1>8 DEF Headers

-----------------------------------------------------------------------------
(* Heap: the free list                                                     *)

\* c is taken out.
OutLinks(nf, pf, nf2, pf2, c) ==
  \A i \in UmmBlockNos :
     /\ nf2[i] = IF i = c THEN 0 ELSE IF i = pf[c] THEN nf[c] ELSE nf[i]
     /\ pf2[i] = IF i = c THEN 0 ELSE IF i = nf[c] THEN pf[c] ELSE pf[i]

\* c is put at the head.
HeadLinks(nf, pf, nf2, pf2, c) ==
  \A i \in UmmBlockNos :
     /\ nf2[i] = IF i = 0 THEN c ELSE IF i = c THEN nf[0] ELSE nf[i]
     /\ pf2[i] = IF i = c THEN 0 ELSE IF i = nf[0] THEN c ELSE pf[i]

\* m takes the place of c.
PlaceLinks(nf, pf, nf2, pf2, c, m) ==
  \A i \in UmmBlockNos :
     /\ nf2[i] = IF i = c THEN 0 ELSE IF i = m THEN nf[c] ELSE IF i = pf[c] THEN m ELSE nf[i]
     /\ pf2[i] = IF i = c THEN 0 ELSE IF i = m THEN pf[c] ELSE IF i = nf[c] THEN m ELSE pf[i]

\* What FreeRing says of its links, and of a closed set.
LEMMA RingLinks ==
  ASSUME NEW nf, NEW pf, NEW F, FreeRing(nf, pf, F)
  PROVE  /\ 0 \notin F
         /\ \A i \in F \cup {0} : /\ nf[i] \in F \cup {0} /\ pf[i] \in F \cup {0}
                                  /\ pf[nf[i]] = i /\ nf[pf[i]] = i
BY DEF FreeRing

\* A set with block 0 that is closed under nfree has every block of the list.
LEMMA RingAll ==
  ASSUME NEW nf, NEW pf, NEW F, FreeRing(nf, pf, F),
         NEW S \in SUBSET (F \cup {0}), 0 \in S, \A i \in S : nf[i] \in S
  PROVE  S = F \cup {0}
BY DEF FreeRing

\* No block is its own neighbour: the others would be a closed set.
LEMMA RingApart ==
  ASSUME NEW nf, NEW pf, NEW F, FreeRing(nf, pf, F), NEW c \in F
  PROVE  nf[c] # c /\ pf[c] # c /\ c # 0
<1>1. /\ 0 \notin F
      /\ \A i \in F \cup {0} : /\ nf[i] \in F \cup {0} /\ pf[i] \in F \cup {0}
                               /\ pf[nf[i]] = i /\ nf[pf[i]] = i
  BY RingLinks
<1>2. nf[c] # c
  <2> SUFFICES ASSUME nf[c] = c PROVE FALSE
    OBVIOUS
  <2>1. PICK S : S = (F \cup {0}) \ {c}
    OBVIOUS
  <2>2. S \in SUBSET (F \cup {0}) /\ 0 \in S /\ c \notin S
    BY <1>1, <2>1
  <2>3. \A i \in S : nf[i] \in S
    BY <1>1, <2>1
  <2>4. S = F \cup {0}
    BY <2>2, <2>3, RingAll
  <2> QED BY <2>2, <2>4
<1>3. pf[c] # c
  BY <1>1, <1>2
<1> QED BY <1>1, <1>2, <1>3

\* The free list after umm_disconnect_from_free_list().
LEMMA RingOut ==
  ASSUME NEW nf, NEW pf, NEW nf2, NEW pf2, NEW F \in SUBSET UmmBlockNos,
         FreeRing(nf, pf, F), NEW c \in F, OutLinks(nf, pf, nf2, pf2, c)
  PROVE  FreeRing(nf2, pf2, F \ {c})
<1>1. /\ 0 \notin F
      /\ \A i \in F \cup {0} : /\ nf[i] \in F \cup {0} /\ pf[i] \in F \cup {0}
                               /\ pf[nf[i]] = i /\ nf[pf[i]] = i
  BY RingLinks
<1>2. nf[c] # c /\ pf[c] # c /\ c # 0
  BY RingApart
<1>3. F \cup {0} \subseteq UmmBlockNos
  BY BlockNos
<1>4. \A i \in F \cup {0} : i # c =>
        /\ nf2[i] = IF i = pf[c] THEN nf[c] ELSE nf[i]
        /\ pf2[i] = IF i = nf[c] THEN pf[c] ELSE pf[i]
  BY <1>3 DEF OutLinks
<1>5. ASSUME NEW i \in (F \ {c}) \cup {0}
      PROVE  /\ nf2[i] \in (F \ {c}) \cup {0} /\ pf2[i] \in (F \ {c}) \cup {0}
             /\ pf2[nf2[i]] = i /\ nf2[pf2[i]] = i
  <2>1. i \in F \cup {0} /\ i # c
    BY <1>1
  <2>2. nf2[i] \in (F \ {c}) \cup {0}
    BY <1>1, <1>2, <1>4, <2>1
  <2>3. pf2[i] \in (F \ {c}) \cup {0}
    BY <1>1, <1>2, <1>4, <2>1
  <2>4. pf2[nf2[i]] = i
    BY <1>1, <1>2, <1>4, <2>1, <2>2
  <2>5. nf2[pf2[i]] = i
    BY <1>1, <1>2, <1>4, <2>1, <2>3
  <2> QED BY <2>2, <2>3, <2>4, <2>5
<1>6. ASSUME NEW S \in SUBSET ((F \ {c}) \cup {0}), 0 \in S, \A i \in S : nf2[i] \in S
      PROVE  S = (F \ {c}) \cup {0}
  <2>1. c \notin S /\ \A i \in S : i \in F \cup {0} /\ i # c
    BY <1>2
  <2>2. CASE pf[c] \in S
    <3>1. PICK V : V = S \cup {c}
      OBVIOUS
    <3>2. V \in SUBSET (F \cup {0}) /\ 0 \in V
      BY <1>6, <3>1
    <3>3. ASSUME NEW i \in V PROVE nf[i] \in V
      <4>1. CASE i = c
        <5>1. nf2[pf[c]] = nf[c]
          BY <1>4, <2>1, <2>2
        <5> QED BY <1>6, <2>2, <3>1, <4>1, <5>1
      <4>2. CASE i # c
        <5>1. i \in S /\ i \in F \cup {0}
          BY <2>1, <3>1, <4>2
        <5>2. CASE i = pf[c]
          BY <1>1, <3>1, <5>2
        <5>3. CASE i # pf[c]
          BY <1>4, <1>6, <3>1, <4>2, <5>1, <5>3
        <5> QED BY <5>2, <5>3
      <4> QED BY <4>1, <4>2
    <3>4. V = F \cup {0}
      BY <3>2, <3>3, RingAll
    <3> QED BY <1>2, <2>1, <3>1, <3>4
  <2>3. CASE pf[c] \notin S
    <3>1. \A i \in S : nf[i] \in S
      BY <1>4, <1>6, <2>1, <2>3
    <3>2. S \in SUBSET (F \cup {0}) /\ 0 \in S
      BY <1>6
    <3>3. S = F \cup {0}
      BY <3>1, <3>2, RingAll
    <3> QED BY <2>1, <3>3
  <2> QED BY <2>2, <2>3
<1>7. 0 \notin F \ {c}
  BY <1>1
<1> QED BY <1>5, <1>6, <1>7 DEF FreeRing

\* The free list after a block was put at its head.
LEMMA RingHead ==
  ASSUME NEW nf, NEW pf, NEW nf2, NEW pf2, NEW F \in SUBSET UmmBlockNos,
         FreeRing(nf, pf, F), NEW c \in UmmBlockNos, c \notin F, c # 0,
         HeadLinks(nf, pf, nf2, pf2, c)
  PROVE  FreeRing(nf2, pf2, F \cup {c})
<1>1. /\ 0 \notin F
      /\ \A i \in F \cup {0} : /\ nf[i] \in F \cup {0} /\ pf[i] \in F \cup {0}
                               /\ pf[nf[i]] = i /\ nf[pf[i]] = i
  BY RingLinks
<1>3. (F \cup {c}) \cup {0} \subseteq UmmBlockNos
  BY BlockNos
<1>4. \A i \in (F \cup {c}) \cup {0} :
        /\ nf2[i] = IF i = 0 THEN c ELSE IF i = c THEN nf[0] ELSE nf[i]
        /\ pf2[i] = IF i = c THEN 0 ELSE IF i = nf[0] THEN c ELSE pf[i]
  BY <1>3 DEF HeadLinks
<1>5. ASSUME NEW i \in (F \cup {c}) \cup {0}
      PROVE  /\ nf2[i] \in (F \cup {c}) \cup {0} /\ pf2[i] \in (F \cup {c}) \cup {0}
             /\ pf2[nf2[i]] = i /\ nf2[pf2[i]] = i
  <2>1. nf2[i] \in (F \cup {c}) \cup {0}
    BY <1>1, <1>4
  <2>2. pf2[i] \in (F \cup {c}) \cup {0}
    BY <1>1, <1>4
  <2>3. pf2[nf2[i]] = i
    BY <1>1, <1>4, <2>1
  <2>4. nf2[pf2[i]] = i
    BY <1>1, <1>4, <2>2
  <2> QED BY <2>1, <2>2, <2>3, <2>4
<1>6. ASSUME NEW S \in SUBSET ((F \cup {c}) \cup {0}), 0 \in S, \A i \in S : nf2[i] \in S
      PROVE  S = (F \cup {c}) \cup {0}
  <2>1. PICK V : V = S \ {c}
    OBVIOUS
  <2>2. V \in SUBSET (F \cup {0}) /\ 0 \in V
    BY <1>6, <2>1
  <2>3. c \in S /\ nf[0] \in S
    <3>1. nf2[0] = c /\ nf2[c] = nf[0]
      BY <1>4
    <3> QED BY <1>6, <3>1
  <2>4. ASSUME NEW i \in V PROVE nf[i] \in V
    <3>1. i \in F \cup {0} /\ i \in S /\ i # c /\ nf[i] \in F \cup {0}
      BY <1>1, <2>1, <2>2
    <3>2. nf[i] # c
      BY <3>1
    <3>3. CASE i = 0
      BY <2>1, <2>3, <3>2, <3>3
    <3>4. CASE i # 0
      BY <1>4, <1>6, <2>1, <3>1, <3>2, <3>4
    <3> QED BY <3>3, <3>4
  <2>5. V = F \cup {0}
    BY <2>2, <2>4, RingAll
  <2> QED BY <2>1, <2>3, <2>5
<1>7. 0 \notin F \cup {c}
  BY <1>1
<1> QED BY <1>5, <1>6, <1>7 DEF FreeRing

\* The free list after a block took the place of another.
LEMMA RingPlace ==
  ASSUME NEW nf, NEW pf, NEW nf2, NEW pf2, NEW F \in SUBSET UmmBlockNos,
         FreeRing(nf, pf, F), NEW c \in F, NEW m \in UmmBlockNos, m \notin F, m # 0,
         PlaceLinks(nf, pf, nf2, pf2, c, m)
  PROVE  FreeRing(nf2, pf2, (F \ {c}) \cup {m})
<1>1. /\ 0 \notin F
      /\ \A i \in F \cup {0} : /\ nf[i] \in F \cup {0} /\ pf[i] \in F \cup {0}
                               /\ pf[nf[i]] = i /\ nf[pf[i]] = i
  BY RingLinks
<1>2. nf[c] # c /\ pf[c] # c /\ c # 0 /\ m # c /\ nf[c] # m /\ pf[c] # m
  BY <1>1, RingApart
<1> DEFINE G == ((F \ {c}) \cup {m}) \cup {0}
<1>3. G \subseteq UmmBlockNos /\ c \notin G
  BY <1>2, BlockNos
<1>4. \A i \in G :
     /\ nf2[i] = IF i = m THEN nf[c] ELSE IF i = pf[c] THEN m ELSE nf[i]
     /\ pf2[i] = IF i = m THEN pf[c] ELSE IF i = nf[c] THEN m ELSE pf[i]
  BY <1>3 DEF PlaceLinks
<1>5. ASSUME NEW i \in G
      PROVE  /\ nf2[i] \in G /\ pf2[i] \in G
             /\ pf2[nf2[i]] = i /\ nf2[pf2[i]] = i
  <2>1. nf2[i] \in G
    BY <1>1, <1>2, <1>4
  <2>2. pf2[i] \in G
    BY <1>1, <1>2, <1>4
  <2>3. pf2[nf2[i]] = i
    BY <1>1, <1>2, <1>4, <2>1
  <2>4. nf2[pf2[i]] = i
    BY <1>1, <1>2, <1>4, <2>2
  <2> QED BY <2>1, <2>2, <2>3, <2>4
<1>6. ASSUME NEW S \in SUBSET G, 0 \in S, \A i \in S : nf2[i] \in S
      PROVE  S = G
  <2>1. PICK V : V = (S \ {m}) \cup {x \in {c} : m \in S}
    OBVIOUS
  <2>2. V \in SUBSET (F \cup {0}) /\ 0 \in V
    BY <1>6, <2>1
  <2>3. ASSUME NEW i \in V PROVE nf[i] \in V
    <3>1. CASE i = c
      <4>1. m \in S
        BY <1>3, <2>1, <3>1
      <4>2. nf2[m] = nf[c]
        BY <1>4
      <4> QED BY <1>2, <1>6, <2>1, <3>1, <4>1, <4>2
    <3>2. CASE i # c
      <4>1. i \in S /\ i # m /\ i \in G /\ i \in F \cup {0}
        BY <2>1, <2>2, <3>2
      <4>2. CASE i = pf[c]
        <5>1. nf2[i] = m /\ nf[i] = c
          BY <1>1, <1>4, <4>1, <4>2
        <5> QED BY <1>6, <2>1, <4>1, <5>1
      <4>3. CASE i # pf[c]
        <5>1. nf2[i] = nf[i] /\ nf[i] # m
          BY <1>1, <1>4, <4>1, <4>3
        <5> QED BY <1>6, <2>1, <4>1, <5>1
      <4> QED BY <4>2, <4>3
    <3> QED BY <3>1, <3>2
  <2>4. V = F \cup {0}
    BY <2>2, <2>3, RingAll
  <2>5. m \in S
    BY <1>3, <2>1, <2>4
  <2>6. ASSUME NEW x \in G PROVE x \in S
    <3>1. CASE x = m
      BY <2>5, <3>1
    <3>2. CASE x # m
      <4>1. x \in V /\ x # c
        BY <1>3, <2>4, <3>2
      <4> QED BY <2>1, <4>1
    <3> QED BY <3>1, <3>2
  <2> QED BY <2>6
<1>7. 0 \notin (F \ {c}) \cup {m}
  BY <1>1
<1> QED BY <1>5, <1>6, <1>7 DEF FreeRing

-----------------------------------------------------------------------------
(* Heap: what each function of the allocator writes                        *)

\* The types of the fields.
LEMMA HeapFields ==
  ASSUME NEW h \in UmmHeapType
  PROVE  /\ h.nblock \in [UmmBlockNos -> UmmBlockNos] /\ h.pblock \in [UmmBlockNos -> UmmBlockNos]
         /\ h.nfree \in [UmmBlockNos -> UmmBlockNos] /\ h.pfree \in [UmmBlockNos -> UmmBlockNos]
         /\ h.mask \in [UmmBlockNos -> BOOLEAN] /\ h.data \in [UmmBlockNos -> UmmStored]
         /\ h.free_blocks \in Int
BY DEF UmmHeapType

LinkDone(h, g, a, b) ==
  /\ g \in UmmHeapType /\ g.nblock = h.nblock /\ g.pblock = h.pblock /\ g.mask = h.mask
  /\ g.free_blocks = h.free_blocks
  /\ \A i \in UmmBlockNos :
       /\ g.nfree[i] = IF i = a THEN b ELSE h.nfree[i]
       /\ g.pfree[i] = IF i = b THEN a ELSE h.pfree[i]
       /\ g.data[i] = IF i = a \/ i = b THEN UmmNoData ELSE h.data[i]

\* UMM_NFREE(a) = b, UMM_PFREE(b) = a
LEMMA LinkIs ==
  ASSUME NEW h \in UmmHeapType, NEW a \in UmmBlockNos, NEW b \in UmmBlockNos
  PROVE  LinkDone(h, UmmLink(h, a, b), a, b)
<1>0. UmmNoData \in UmmStored
  BY DEF UmmStored
<1>1. PICK g : g = UmmLink(h, a, b)
  OBVIOUS
<1>2. g \in UmmHeapType
  BY <1>0, <1>1 DEF UmmLink, UmmHeapType
<1>3. g.nblock = h.nblock /\ g.pblock = h.pblock /\ g.mask = h.mask /\ g.free_blocks = h.free_blocks
  BY <1>1 DEF UmmLink, UmmHeapType
<1>4. \A i \in UmmBlockNos : g.nfree[i] = IF i = a THEN b ELSE h.nfree[i]
  BY <1>1 DEF UmmLink, UmmHeapType
<1>5. \A i \in UmmBlockNos : g.pfree[i] = IF i = b THEN a ELSE h.pfree[i]
  BY <1>1 DEF UmmLink, UmmHeapType
<1>6. \A i \in UmmBlockNos : g.data[i] = IF i = a \/ i = b THEN UmmNoData ELSE h.data[i]
  BY <1>1 DEF UmmLink, UmmHeapType
<1> QED BY <1>1, <1>2, <1>3, <1>4, <1>5, <1>6 DEF LinkDone

SplitDone(h, g, c, m, free) ==
  /\ g \in UmmHeapType /\ g.nfree = h.nfree /\ g.pfree = h.pfree
  /\ g.free_blocks = h.free_blocks
  /\ SplitLinks(h.nblock, h.pblock, g.nblock, g.pblock, c, m)
  /\ \A i \in UmmBlockNos :
       /\ g.mask[i] <=> i # c /\ IF i = m THEN free ELSE h.mask[i]
       /\ g.data[i] = IF i = m THEN UmmNoData ELSE h.data[i]

\* umm_split_block()
LEMMA SplitBlockIs ==
  ASSUME NEW h \in UmmHeapType, NEW c \in UmmBlockNos, NEW n \in Nat,
         NEW m \in UmmBlockNos, m = c + n, NEW free \in BOOLEAN
  PROVE  SplitDone(h, UmmSplitBlock(h, c, n, free), c, m, free)
<1>0. UmmNoData \in UmmStored
  BY DEF UmmStored
<1>1. PICK g : g = UmmSplitBlock(h, c, n, free)
  OBVIOUS
<1>2. PICK e \in UmmBlockNos : e = h.nblock[c]
  BY HeapFields
<1>3. g \in UmmHeapType
  BY <1>0, <1>1, <1>2 DEF UmmSplitBlock, UmmHeapType
<1>4. g.nfree = h.nfree /\ g.pfree = h.pfree /\ g.free_blocks = h.free_blocks
  BY <1>1 DEF UmmSplitBlock, UmmHeapType
<1>5. \A i \in UmmBlockNos : g.nblock[i] = IF i = c THEN m ELSE IF i = m THEN h.nblock[c] ELSE h.nblock[i]
  BY <1>1 DEF UmmSplitBlock, UmmHeapType
<1>6. \A i \in UmmBlockNos : g.pblock[i] = IF i = h.nblock[c] THEN m ELSE IF i = m THEN c ELSE h.pblock[i]
  BY <1>1, <1>2 DEF UmmSplitBlock, UmmHeapType
<1>7. \A i \in UmmBlockNos : g.mask[i] <=> i # c /\ IF i = m THEN free ELSE h.mask[i]
  BY <1>1 DEF UmmSplitBlock, UmmHeapType
<1>8. \A i \in UmmBlockNos : g.data[i] = IF i = m THEN UmmNoData ELSE h.data[i]
  BY <1>1 DEF UmmSplitBlock, UmmHeapType
<1>9. SplitLinks(h.nblock, h.pblock, g.nblock, g.pblock, c, m)
  BY <1>5, <1>6 DEF SplitLinks
<1> QED BY <1>1, <1>3, <1>4, <1>7, <1>8, <1>9 DEF SplitDone

OutDone(h, g, c) ==
  /\ g \in UmmHeapType /\ g.nblock = h.nblock /\ g.pblock = h.pblock
  /\ g.free_blocks = h.free_blocks
  /\ OutLinks(h.nfree, h.pfree, g.nfree, g.pfree, c)
  /\ \A i \in UmmBlockNos :
       /\ g.mask[i] <=> i # c /\ h.mask[i]
       /\ g.data[i] = IF i = h.pfree[c] \/ i = h.nfree[c] THEN UmmNoData ELSE h.data[i]

\* umm_disconnect_from_free_list()
LEMMA DisconnectIs ==
  ASSUME NEW h \in UmmHeapType, NEW c \in UmmBlockNos
  PROVE  OutDone(h, UmmDisconnect(h, c), c)
<1>0. PICK a \in UmmBlockNos, b \in UmmBlockNos : a = h.pfree[c] /\ b = h.nfree[c]
  BY HeapFields
<1>1. PICK l : l = UmmLink(h, a, b)
  OBVIOUS
<1>2. LinkDone(h, l, a, b)
  BY <1>1, LinkIs
<1>3. l \in UmmHeapType
  BY <1>2 DEF LinkDone
<1>4. 0 \in UmmBlockNos
  BY BlockNos
<1>5. PICK g : g = UmmDisconnect(h, c)
  OBVIOUS
<1>6. g = [l EXCEPT !.mask[c] = FALSE, !.nfree[c] = 0, !.pfree[c] = 0]
  BY <1>0, <1>1, <1>5 DEF UmmDisconnect
<1>7. g \in UmmHeapType
  BY <1>3, <1>4, <1>6 DEF UmmHeapType
<1>8. g.nblock = l.nblock /\ g.pblock = l.pblock /\ g.data = l.data /\ g.free_blocks = l.free_blocks
  BY <1>3, <1>6 DEF UmmHeapType
<1>9. \A i \in UmmBlockNos : g.nfree[i] = IF i = c THEN 0 ELSE l.nfree[i]
  BY <1>3, <1>6 DEF UmmHeapType
<1>10. \A i \in UmmBlockNos : g.pfree[i] = IF i = c THEN 0 ELSE l.pfree[i]
  BY <1>3, <1>6 DEF UmmHeapType
<1>11. \A i \in UmmBlockNos : g.mask[i] <=> i # c /\ l.mask[i]
  BY <1>3, <1>6 DEF UmmHeapType
<1>12. OutLinks(h.nfree, h.pfree, g.nfree, g.pfree, c)
  BY <1>0, <1>2, <1>9, <1>10 DEF OutLinks, LinkDone
<1>13. g.nblock = h.nblock /\ g.pblock = h.pblock /\ g.free_blocks = h.free_blocks /\ l.mask = h.mask
  BY <1>2, <1>8 DEF LinkDone
<1>14. \A i \in UmmBlockNos : g.data[i] = IF i = h.pfree[c] \/ i = h.nfree[c] THEN UmmNoData ELSE h.data[i]
  BY <1>0, <1>2, <1>8 DEF LinkDone
<1> QED BY <1>5, <1>7, <1>11, <1>12, <1>13, <1>14 DEF OutDone

\* umm_assimilate_up() where the next block d is free.
UpDone(h, g, c, d) ==
  /\ g \in UmmHeapType /\ g.free_blocks = h.free_blocks
  /\ MergeLinks(h.nblock, h.pblock, g.nblock, g.pblock, c, d)
  /\ OutLinks(h.nfree, h.pfree, g.nfree, g.pfree, d)
  /\ \A i \in UmmBlockNos :
       /\ g.mask[i] <=> i # d /\ h.mask[i]
       /\ g.data[i] = IF i = h.pfree[d] \/ i = h.nfree[d] THEN UmmNoData ELSE h.data[i]

\* umm_assimilate_up()
LEMMA AssimilateUpIs ==
  ASSUME NEW h \in UmmHeapType, NEW c \in UmmBlockNos, NEW d \in UmmBlockNos, d = h.nblock[c]
  PROVE  /\ h.mask[d] => UpDone(h, UmmAssimilateUp(h, c), c, d)
         /\ ~h.mask[d] => UmmAssimilateUp(h, c) = h
<1>0. PICK e \in UmmBlockNos : e = h.nblock[d]
  BY HeapFields
<1>1. ~h.mask[d] => UmmAssimilateUp(h, c) = h
  BY DEF UmmAssimilateUp
<1>2. ASSUME h.mask[d] PROVE UpDone(h, UmmAssimilateUp(h, c), c, d)
  <2>1. PICK l : l = UmmDisconnect(h, d)
    OBVIOUS
  <2>2. OutDone(h, l, d)
    BY <2>1, DisconnectIs
  <2>3. l \in UmmHeapType
    BY <2>2 DEF OutDone
  <2>4. 0 \in UmmBlockNos
    BY BlockNos
  <2>5. PICK g : g = UmmAssimilateUp(h, c)
    OBVIOUS
  <2>6. g = [l EXCEPT !.pblock[e] = c, !.nblock[c] = e, !.nblock[d] = 0, !.pblock[d] = 0]
    BY <1>0, <1>2, <2>1, <2>5 DEF UmmAssimilateUp
  <2>7. g \in UmmHeapType
    BY <2>3, <2>4, <2>6 DEF UmmHeapType
  <2>8. /\ g.mask = l.mask /\ g.free_blocks = l.free_blocks /\ g.data = l.data
        /\ g.nfree = l.nfree /\ g.pfree = l.pfree
    BY <2>3, <2>6 DEF UmmHeapType
  <2>9. \A i \in UmmBlockNos : g.nblock[i] = IF i = d THEN 0 ELSE IF i = c THEN e ELSE l.nblock[i]
    BY <2>3, <2>6 DEF UmmHeapType
  <2>10. \A i \in UmmBlockNos : g.pblock[i] = IF i = d THEN 0 ELSE IF i = e THEN c ELSE l.pblock[i]
    BY <2>3, <2>6 DEF UmmHeapType
  <2>11. MergeLinks(h.nblock, h.pblock, g.nblock, g.pblock, c, d)
    <3>1. l.nblock = h.nblock /\ l.pblock = h.pblock
      BY <2>2 DEF OutDone
    <3> QED BY <1>0, <2>9, <2>10, <3>1 DEF MergeLinks
  <2>12. OutLinks(h.nfree, h.pfree, g.nfree, g.pfree, d)
    BY <2>2, <2>8 DEF OutDone
  <2>13. /\ g.free_blocks = h.free_blocks
         /\ \A i \in UmmBlockNos :
              /\ g.mask[i] <=> i # d /\ h.mask[i]
              /\ g.data[i] = IF i = h.pfree[d] \/ i = h.nfree[d] THEN UmmNoData ELSE h.data[i]
    BY <2>2, <2>8 DEF OutDone
  <2> QED BY <2>5, <2>7, <2>11, <2>12, <2>13 DEF UpDone
<1> QED BY <1>1, <1>2

DownDone(h, g, b, c, free) ==
  /\ g \in UmmHeapType /\ g.free_blocks = h.free_blocks
  /\ MergeLinks(h.nblock, h.pblock, g.nblock, g.pblock, b, c)
  /\ g.nfree = h.nfree /\ g.pfree = h.pfree /\ g.data = h.data
  /\ \A i \in UmmBlockNos : g.mask[i] <=> IF i = b THEN free ELSE h.mask[i]

\* umm_assimilate_down()
LEMMA AssimilateDownIs ==
  ASSUME NEW h \in UmmHeapType, NEW c \in UmmBlockNos, NEW b \in UmmBlockNos, b = h.pblock[c],
         NEW free \in BOOLEAN
  PROVE  DownDone(h, UmmAssimilateDown(h, c, free), b, c, free)
<1>0. PICK e \in UmmBlockNos : e = h.nblock[c]
  BY HeapFields
<1>1. 0 \in UmmBlockNos
  BY BlockNos
<1>2. PICK g : g = UmmAssimilateDown(h, c, free)
  OBVIOUS
<1>3. g = [h EXCEPT !.nblock[b] = e, !.mask[b] = free, !.pblock[e] = b, !.nblock[c] = 0, !.pblock[c] = 0]
  BY <1>0, <1>2 DEF UmmAssimilateDown
<1>4. g \in UmmHeapType
  BY <1>1, <1>3 DEF UmmHeapType
<1>5. g.free_blocks = h.free_blocks /\ g.nfree = h.nfree /\ g.pfree = h.pfree /\ g.data = h.data
  BY <1>3 DEF UmmHeapType
<1>6. \A i \in UmmBlockNos : g.nblock[i] = IF i = c THEN 0 ELSE IF i = b THEN e ELSE h.nblock[i]
  BY <1>3 DEF UmmHeapType
<1>7. \A i \in UmmBlockNos : g.pblock[i] = IF i = c THEN 0 ELSE IF i = e THEN b ELSE h.pblock[i]
  BY <1>3 DEF UmmHeapType
<1>8. \A i \in UmmBlockNos : g.mask[i] <=> IF i = b THEN free ELSE h.mask[i]
  BY <1>3 DEF UmmHeapType
<1>9. MergeLinks(h.nblock, h.pblock, g.nblock, g.pblock, b, c)
  BY <1>0, <1>6, <1>7 DEF MergeLinks
<1> QED BY <1>2, <1>4, <1>5, <1>8, <1>9 DEF DownDone

-----------------------------------------------------------------------------
(* Heap: blocks and cells                                                  *)

\* What Headers says of numbers.
LEMMA HeaderFacts ==
  ASSUME NEW nb, NEW pb, NEW H, Headers(nb, pb, H)
  PROVE  /\ H \subseteq UmmBlockNos /\ 0 \in H /\ 1 \in H /\ UmmLast \in H
         /\ \A i \in H : i \in Nat /\ i <= UmmLast
         /\ \A i \in H : i # UmmLast => /\ nb[i] \in H /\ i < nb[i] /\ nb[i] \in Nat
                                        /\ nb[i] <= UmmLast /\ pb[nb[i]] = i
         /\ \A i, k \in H : i < k => nb[i] <= k
<1>1. H \subseteq UmmBlockNos /\ 0 \in H /\ 1 \in H /\ UmmLast \in H
  BY DEF Headers
<1>2. \A i \in H : i \in Nat /\ i <= UmmLast
  BY <1>1, BlockNos
<1>3. \A i \in H : i # UmmLast => nb[i] \in H /\ i < nb[i] /\ pb[nb[i]] = i
  BY DEF Headers
<1>4. \A i, k \in H : i < k => nb[i] <= k
  BY DEF Headers
<1> QED BY <1>1, <1>2, <1>3, <1>4

\* Every cell but the last is in a block.
LEMMA Cover ==
  ASSUME NEW nb, NEW pb, NEW H, Headers(nb, pb, H), NEW i \in UmmBlockNos, i # UmmLast
  PROVE  \E b \in H : b # UmmLast /\ b <= i /\ i < nb[b]
<1>1. /\ 0 \in H /\ \A x \in H : x \in Nat
      /\ \A x \in H : x # UmmLast => nb[x] \in H /\ x < nb[x] /\ nb[x] \in Nat
  BY HeaderFacts
<1>2. i \in Nat /\ i < UmmLast /\ UmmLast \in Nat
  BY BlockNos
<1> DEFINE T == {x \in H : x <= i}
<1>3. T \in SUBSET Nat /\ T # {} /\ \A y \in T : y <= i
  <2>1. 0 \in T
    BY <1>1, <1>2
  <2> QED BY <1>1, <2>1
<1>4. PICK b \in T : \A y \in T : y <= b
  BY <1>2, <1>3, GreatestNat
<1>5. b \in H /\ b <= i /\ b # UmmLast /\ b \in Nat
  BY <1>1, <1>2, <1>4
<1>6. nb[b] \in H /\ b < nb[b] /\ nb[b] \in Nat
  BY <1>1, <1>5
<1>7. i < nb[b]
  BY <1>2, <1>4, <1>5, <1>6
<1> QED BY <1>5, <1>7

\* No cell is in two.
LEMMA Apart ==
  ASSUME NEW nb, NEW pb, NEW H, Headers(nb, pb, H), NEW i \in Nat,
         NEW a \in H, NEW b \in H, a # UmmLast, b # UmmLast,
         a <= i, i < nb[a], b <= i, i < nb[b]
  PROVE  a = b
<1>1. /\ a \in Nat /\ b \in Nat /\ nb[a] \in Nat /\ nb[b] \in Nat
      /\ (a < b => nb[a] <= b) /\ (b < a => nb[b] <= a)
  BY HeaderFacts
<1> QED BY <1>1

\* A block has one before it.
LEMMA Before ==
  ASSUME NEW nb, NEW pb, NEW H, Headers(nb, pb, H), NEW c \in H, c # 0
  PROVE  pb[c] \in H /\ pb[c] # UmmLast /\ pb[c] < c /\ nb[pb[c]] = c
<1>1. /\ \A x \in H : x \in Nat /\ x <= UmmLast
      /\ \A x \in H : x # UmmLast => nb[x] \in H /\ x < nb[x] /\ nb[x] \in Nat /\ pb[nb[x]] = x
      /\ \A x, k \in H : x < k => nb[x] <= k
  BY HeaderFacts
<1>2. c - 1 \in UmmBlockNos /\ c - 1 # UmmLast /\ c \in Nat
  BY <1>1, BlockNos
<1>3. PICK b \in H : b # UmmLast /\ b <= c - 1 /\ c - 1 < nb[b]
  BY <1>2, Cover
<1>4. b < c /\ nb[b] <= c /\ nb[b] \in Nat
  BY <1>1, <1>2, <1>3
<1>5. nb[b] = c
  BY <1>2, <1>3, <1>4
<1> QED BY <1>1, <1>3, <1>4, <1>5

\* Blocks have as many cells as they are long.
LEMMA CountBlock ==
  ASSUME NEW nb, NEW pb, NEW H, Headers(nb, pb, H), NEW V \in SUBSET H, UmmLast \notin V,
         NEW c \in V, NEW nb2, \A a \in V \ {c} : nb2[a] = nb[a]
  PROVE  /\ Cardinality(UsedCells(nb, V)) = Cardinality(UsedCells(nb2, V \ {c})) + (nb[c] - c)
         /\ Cardinality(UsedCells(nb2, V \ {c})) \in Nat
<1>1. PICK C : C = UsedCells(nb, V)
  OBVIOUS
<1>2. PICK D : D = UsedCells(nb2, V \ {c})
  OBVIOUS
<1>3. PICK e \in Nat : e = nb[c] /\ c < e /\ e <= UmmLast /\ c \in Nat
  BY HeaderFacts
<1>4. PICK X : X = c..(e - 1)
  OBVIOUS
<1>5. \A i \in UmmBlockNos : i \in D <=> \E a \in V : a # c /\ a <= i /\ i < nb[a]
  BY <1>2 DEF UsedCells
<1>6. \A i \in UmmBlockNos : i \in C <=> \E a \in V : a <= i /\ i < nb[a]
  BY <1>1 DEF UsedCells
<1>7. C \subseteq UmmBlockNos /\ D \subseteq UmmBlockNos /\ X \subseteq UmmBlockNos
  BY <1>1, <1>2, <1>3, <1>4, BlockNos DEF UsedCells
<1>8. \A i \in UmmBlockNos : i \in X <=> c <= i /\ i < nb[c]
  BY <1>3, <1>4, BlockNos
<1>9. C = D \cup X
  <2>1. ASSUME NEW i \in UmmBlockNos PROVE i \in C <=> i \in D \/ i \in X
    BY <1>5, <1>6, <1>8
  <2> QED BY <1>7, <2>1
<1>10. D \cap X = {}
  <2> SUFFICES ASSUME NEW i \in D, i \in X PROVE FALSE
    OBVIOUS
  <2>1. i \in UmmBlockNos /\ i \in Nat
    BY <1>7, BlockNos
  <2>2. PICK a \in V : a # c /\ a <= i /\ i < nb[a]
    BY <1>5, <2>1
  <2>3. c <= i /\ i < nb[c] /\ a # UmmLast /\ c # UmmLast /\ a \in H /\ c \in H
    BY <1>8, <2>1
  <2> QED BY <2>1, <2>2, <2>3, Apart
<1>11. IsFiniteSet(UmmBlockNos)
  BY FS_Interval, BlockNos
<1>12. IsFiniteSet(D) /\ IsFiniteSet(X)
  BY <1>7, <1>11, FS_Subset
<1>13. Cardinality(X) = e - c /\ Cardinality(D) \in Nat
  <2>1. c \in Int /\ e - 1 \in Int /\ ~(c > e - 1)
    BY <1>3
  <2>2. Cardinality(X) = (e - 1) - c + 1
    BY <1>4, <2>1, FS_Interval
  <2>3. Cardinality(X) = e - c
    BY <1>3, <2>2
  <2> QED BY <1>12, <2>3, FS_CardinalityType
<1>14. Cardinality(C) = Cardinality(D) + Cardinality(X) - Cardinality(D \cap X)
  BY <1>9, <1>12, FS_Union
<1>15. Cardinality(D \cap X) = 0
  BY <1>10, FS_EmptySet
<1> QED BY <1>1, <1>2, <1>3, <1>13, <1>14, <1>15

\* The cells of free blocks, and block 0, are not in use.
LEMMA NotUsed ==
  ASSUME NEW h, NEW H, LinksOK(h, H), NEW f \in Frees(h.mask, H), NEW i \in Nat,
         f <= i, i < h.nblock[f]
  PROVE  i \notin UsedCells(h.nblock, Useds(h.mask, H))
<1> SUFFICES ASSUME i \in UsedCells(h.nblock, Useds(h.mask, H)) PROVE FALSE
  OBVIOUS
<1>1. Headers(h.nblock, h.pblock, H) /\ ~h.mask[UmmLast]
  BY DEF LinksOK, Masked
<1>2. PICK a \in Useds(h.mask, H) : a <= i /\ i < h.nblock[a]
  BY DEF UsedCells
<1>3. a \in H /\ a # UmmLast /\ ~h.mask[a] /\ f \in H /\ h.mask[f]
  BY DEF Useds, Frees
<1>4. f # UmmLast
  BY <1>1, <1>3
<1>5. a = f
  BY <1>1, <1>2, <1>3, <1>4, Apart
<1> QED BY <1>3, <1>5

\* The blocks that hold the links of the free list are not in use.
LEMMA LinkNotUsed ==
  ASSUME NEW h, NEW H, LinksOK(h, H), NEW f \in Frees(h.mask, H) \cup {0}
  PROVE  f \notin UsedCells(h.nblock, Useds(h.mask, H))
<1>1. Headers(h.nblock, h.pblock, H) /\ ~h.mask[UmmLast]
  BY DEF LinksOK, Masked
<1>2. CASE f = 0
  <2> SUFFICES ASSUME f \in UsedCells(h.nblock, Useds(h.mask, H)) PROVE FALSE
    OBVIOUS
  <2>1. PICK a \in Useds(h.mask, H) : a <= 0
    BY <1>2 DEF UsedCells
  <2>2. a \in H /\ a # 0
    BY DEF Useds
  <2>3. a \in Nat
    BY <1>1, <2>2, HeaderFacts
  <2> QED BY <2>1, <2>2, <2>3
<1>3. CASE f # 0
  <2>1. f \in H /\ h.mask[f] /\ f \in Frees(h.mask, H)
    BY <1>3 DEF Frees
  <2>2. f # UmmLast
    BY <1>1, <2>1
  <2>3. f \in Nat /\ f < h.nblock[f] /\ f <= f
    BY <1>1, <2>1, <2>2, HeaderFacts
  <2> QED BY <2>1, <2>3, NotUsed
<1> QED BY <1>2, <1>3

-----------------------------------------------------------------------------
(* Heap: what the functions of the allocator preserve                      *)

\* What LinksOK says, part by part.
LEMMA LinksFacts ==
  ASSUME NEW h, NEW H, LinksOK(h, H)
  PROVE  /\ h \in UmmHeapType /\ Headers(h.nblock, h.pblock, H)
         /\ FreeRing(h.nfree, h.pfree, Frees(h.mask, H))
         /\ ~h.mask[0] /\ ~h.mask[UmmLast]
         /\ \A i \in H : i # UmmLast /\ h.mask[i] => ~h.mask[h.nblock[i]]
BY DEF LinksOK, Masked

\* What it says of a block in use.
LEMMA UsedFacts ==
  ASSUME NEW h, NEW H, LinksOK(h, H), NEW c \in Useds(h.mask, H)
  PROVE  /\ c \in H /\ c # 0 /\ c # UmmLast /\ ~h.mask[c] /\ c \in Nat /\ c \in UmmBlockNos
         /\ h.nblock[c] \in H /\ h.nblock[c] \in Nat /\ h.nblock[c] \in UmmBlockNos
         /\ c < h.nblock[c] /\ h.nblock[c] <= UmmLast
<1>1. Headers(h.nblock, h.pblock, H)
  BY DEF LinksOK
<1>2. c \in H /\ c # 0 /\ c # UmmLast /\ ~h.mask[c]
  BY DEF Useds
<1>3. /\ H \subseteq UmmBlockNos
      /\ \A i \in H : i \in Nat /\ i <= UmmLast
      /\ \A i \in H : i # UmmLast => h.nblock[i] \in H /\ i < h.nblock[i]
  BY <1>1, HeaderFacts
<1> QED BY <1>2, <1>3

\* What it says of a free block.
LEMMA FreeFacts ==
  ASSUME NEW h, NEW H, LinksOK(h, H), NEW c \in Frees(h.mask, H)
  PROVE  /\ c \in H /\ c # 0 /\ c # UmmLast /\ h.mask[c] /\ c \in Nat /\ c \in UmmBlockNos
         /\ h.nblock[c] \in H /\ h.nblock[c] \in Nat /\ h.nblock[c] \in UmmBlockNos
         /\ c < h.nblock[c] /\ h.nblock[c] <= UmmLast /\ ~h.mask[h.nblock[c]]
<1>1. /\ Headers(h.nblock, h.pblock, H) /\ ~h.mask[0] /\ ~h.mask[UmmLast]
      /\ \A i \in H : i # UmmLast /\ h.mask[i] => ~h.mask[h.nblock[i]]
  BY LinksFacts
<1>2. c \in H /\ h.mask[c]
  BY DEF Frees
<1>3. c # 0 /\ c # UmmLast
  BY <1>1, <1>2
<1>4. /\ H \subseteq UmmBlockNos
      /\ \A i \in H : i \in Nat /\ i <= UmmLast
      /\ \A i \in H : i # UmmLast => h.nblock[i] \in H /\ i < h.nblock[i]
  BY <1>1, HeaderFacts
<1> QED BY <1>1, <1>2, <1>3, <1>4

\* umm_assimilate_up(): the block c in use takes in the next one if it is free.
UpResult(h, u, H, G, c) ==
  /\ LinksOK(u, G) /\ G \subseteq H
  /\ Useds(u.mask, G) = Useds(h.mask, H)
  /\ \A a \in Useds(h.mask, H) \ {c} : u.nblock[a] = h.nblock[a]
  /\ u.free_blocks = h.free_blocks
  /\ ~u.mask[u.nblock[c]]
  /\ u.nblock[c] = IF h.mask[h.nblock[c]] THEN h.nblock[h.nblock[c]] ELSE h.nblock[c]
  /\ \A i \in UmmBlockNos : i \notin Frees(h.mask, H) \cup {0} => u.data[i] = h.data[i]

\* umm_assimilate_up() keeps the lists.
LEMMA UpOK ==
  ASSUME NEW h, NEW H \in SUBSET UmmBlockNos, LinksOK(h, H), NEW c \in Useds(h.mask, H)
  PROVE  \E G \in SUBSET UmmBlockNos : UpResult(h, UmmAssimilateUp(h, c), H, G, c)
<1>1. /\ h \in UmmHeapType /\ Headers(h.nblock, h.pblock, H)
      /\ FreeRing(h.nfree, h.pfree, Frees(h.mask, H))
      /\ ~h.mask[0] /\ ~h.mask[UmmLast]
      /\ \A i \in H : i # UmmLast /\ h.mask[i] => ~h.mask[h.nblock[i]]
  BY LinksFacts
<1>2. PICK d \in UmmBlockNos : d = h.nblock[c] /\ d \in H /\ c < d
  BY UsedFacts
<1>3. c \in H /\ c # 0 /\ c # UmmLast /\ ~h.mask[c] /\ c \in UmmBlockNos /\ c \in Nat
  BY UsedFacts
<1>4. PICK u : u = UmmAssimilateUp(h, c)
  OBVIOUS
<1>5. CASE ~h.mask[d]
  <2>1. u = h
    BY <1>1, <1>2, <1>3, <1>4, <1>5, AssimilateUpIs
  <2>2. UpResult(h, h, H, H, c)
    BY <1>2, <1>5 DEF UpResult
  <2> QED BY <1>4, <2>1, <2>2
<1>6. CASE h.mask[d]
  <2>1. UpDone(h, u, c, d)
    BY <1>1, <1>2, <1>3, <1>4, <1>6, AssimilateUpIs
  <2>2. MergeLinks(h.nblock, h.pblock, u.nblock, u.pblock, c, d)
        /\ OutLinks(h.nfree, h.pfree, u.nfree, u.pfree, d)
        /\ u \in UmmHeapType /\ u.free_blocks = h.free_blocks
    BY <2>1 DEF UpDone
  <2>3. /\ \A i \in UmmBlockNos : u.mask[i] <=> i # d /\ h.mask[i]
        /\ \A i \in UmmBlockNos : i # h.pfree[d] /\ i # h.nfree[d] => u.data[i] = h.data[i]
    BY <2>1 DEF UpDone
  <2>4. d \in Frees(h.mask, H) /\ d # UmmLast /\ d # 0
    BY <1>1, <1>2, <1>6 DEF Frees
  <2>5. PICK G : G = H \ {d}
    OBVIOUS
  <2>6. Headers(u.nblock, u.pblock, G) /\ u.nblock[c] = h.nblock[d]
    <3>1. Headers(u.nblock, u.pblock, H \ {d}) /\ u.nblock[c] = h.nblock[d]
      <4>1. MergeCase(h.nblock, h.pblock, u.nblock, u.pblock, H, c, d)
        BY <1>1, <1>2, <1>3, <2>2, <2>4 DEF MergeCase
      <4>2. PICK na, pa, nz, pz : na = h.nblock /\ pa = h.pblock /\ nz = u.nblock /\ pz = u.pblock
        OBVIOUS
      <4>3. MergeCase(na, pa, nz, pz, H, c, d)
        BY <4>1, <4>2, Zenon
      <4>4. Headers(nz, pz, H \ {d}) /\ nz[c] = na[d]
        BY <4>3, HeadersMerge
      <4> QED BY <4>2, <4>4
    <3> QED BY <2>5, <3>1
  <2>7. Frees(u.mask, G) = Frees(h.mask, H) \ {d}
    BY <2>3, <2>5 DEF Frees
  <2>8. Useds(u.mask, G) = Useds(h.mask, H)
    BY <1>6, <2>3, <2>5 DEF Useds
  <2>9. FreeRing(u.nfree, u.pfree, Frees(u.mask, G))
    <3>1. Frees(h.mask, H) \in SUBSET UmmBlockNos
      BY DEF Frees
    <3>2. FreeRing(u.nfree, u.pfree, Frees(h.mask, H) \ {d})
      BY <1>1, <2>2, <2>4, <3>1, RingOut
    <3> QED BY <2>7, <3>2
  <2>10. \A i \in H : i # c /\ i # d => u.nblock[i] = h.nblock[i]
    BY <2>2 DEF MergeLinks
  <2>11. Masked(u.mask, u.nblock, G)
    <3>1. 0 \in UmmBlockNos /\ UmmLast \in UmmBlockNos
      BY BlockNos
    <3>2. ~u.mask[0] /\ ~u.mask[UmmLast]
      BY <1>1, <2>3, <3>1
    <3>3. ASSUME NEW i \in G, i # UmmLast, u.mask[i] PROVE ~u.mask[u.nblock[i]]
      <4>1. i \in H /\ i # d /\ h.mask[i] /\ i # c
        BY <1>3, <2>3, <2>5, <3>3
      <4>2. u.nblock[i] = h.nblock[i] /\ ~h.mask[h.nblock[i]]
        BY <1>1, <2>10, <3>3, <4>1
      <4>3. h.nblock[i] \in UmmBlockNos
        BY <1>1, <4>1, HeapFields
      <4> QED BY <2>3, <4>2, <4>3
    <3> QED BY <3>2, <3>3 DEF Masked
  <2>12. LinksOK(u, G)
    BY <2>2, <2>6, <2>9, <2>11 DEF LinksOK
  <2>13. ~u.mask[u.nblock[c]]
    <3>1. ~h.mask[h.nblock[d]] /\ h.nblock[d] \in UmmBlockNos
      BY <1>1, <2>4, FreeFacts
    <3> QED BY <2>3, <2>6, <3>1
  <2>14. \A i \in UmmBlockNos : i \notin Frees(h.mask, H) \cup {0} => u.data[i] = h.data[i]
    <3>1. h.pfree[d] \in Frees(h.mask, H) \cup {0} /\ h.nfree[d] \in Frees(h.mask, H) \cup {0}
      BY <1>1, <2>4, RingLinks
    <3> QED BY <2>3, <3>1
  <2>15. \A a \in Useds(h.mask, H) \ {c} : u.nblock[a] = h.nblock[a]
    <3>1. \A a \in Useds(h.mask, H) : a \in H /\ a # d
      BY <1>6 DEF Useds
    <3> QED BY <2>10, <3>1
  <2>16. G \in SUBSET UmmBlockNos /\ G \subseteq H
    BY <2>5
  <2>17. UpResult(h, u, H, G, c)
    BY <1>2, <1>6, <2>2, <2>6, <2>8, <2>12, <2>13, <2>14, <2>15, <2>16 DEF UpResult
  <2> QED BY <1>4, <2>16, <2>17
<1> QED BY <1>5, <1>6

\* What a call leaves: the heap is sound, and of the blocks in use c is gone
\* and D is new.
Changed(h, g, H, G, c, D) ==
  /\ HeapOK(g, G)
  /\ Useds(g.mask, G) = (Useds(h.mask, H) \ {c}) \cup D
  /\ \A a \in Useds(h.mask, H) \ {c} : g.nblock[a] = h.nblock[a]

\* The data of the blocks in use is where it was, but for the cells lo..hi-1.
Undisturbed(h, g, H, lo, hi) ==
  \A i \in UsedCells(h.nblock, Useds(h.mask, H)) : i < lo \/ i >= hi => g.data[i] = h.data[i]

\* The blocks in use have headers, and the last block is not one of them.
LEMMA UsedsIn ==
  ASSUME NEW h, NEW H, LinksOK(h, H)
  PROVE  Useds(h.mask, H) \in SUBSET H /\ UmmLast \notin Useds(h.mask, H)
BY DEF Useds

\* The count after a block was freed.
LEMMA CountFreed ==
  ASSUME NEW h, NEW H, HeapOK(h, H), NEW c \in Useds(h.mask, H),
         NEW g, NEW G, LinksOK(g, G), Useds(g.mask, G) = Useds(h.mask, H) \ {c},
         \A a \in Useds(h.mask, H) \ {c} : g.nblock[a] = h.nblock[a],
         g.free_blocks = h.free_blocks + (h.nblock[c] - c)
  PROVE  HeapOK(g, G)
<1>1. LinksOK(h, H) /\ h.free_blocks = UmmLast - 1 - Cardinality(UsedCells(h.nblock, Useds(h.mask, H)))
  BY DEF HeapOK, FreeCounted
<1>2. Headers(h.nblock, h.pblock, H)
  BY <1>1, LinksFacts
<1>3. PICK V : V = Useds(h.mask, H)
  OBVIOUS
<1>4. V \in SUBSET H /\ UmmLast \notin V /\ c \in V /\ \A a \in V \ {c} : g.nblock[a] = h.nblock[a]
  BY <1>1, <1>3, UsedsIn
<1>5. /\ Cardinality(UsedCells(h.nblock, V)) = Cardinality(UsedCells(g.nblock, V \ {c})) + (h.nblock[c] - c)
      /\ Cardinality(UsedCells(g.nblock, V \ {c})) \in Nat
  BY <1>2, <1>4, CountBlock
<1>6. PICK x \in Nat, y \in Nat : x = Cardinality(UsedCells(g.nblock, V \ {c})) /\ y = h.nblock[c] - c
  <2>1. c \in Nat /\ h.nblock[c] \in Nat /\ c < h.nblock[c]
    BY <1>1, UsedFacts
  <2>2. h.nblock[c] - c \in Nat
    BY <2>1
  <2> QED BY <1>5, <2>2
<1>7. h.free_blocks = UmmLast - 1 - (x + y) /\ g.free_blocks = h.free_blocks + y
  BY <1>1, <1>3, <1>5, <1>6
<1>8. g.free_blocks = UmmLast - 1 - x
  BY <1>7, BlockNos
<1>9. FreeCounted(g, G)
  BY <1>3, <1>6, <1>8 DEF FreeCounted
<1> QED BY <1>9 DEF HeapOK

\* The block c has become free, with the data at H's free blocks overwritten.
Freed(u, g, H, G, c) ==
  /\ LinksOK(g, G)
  /\ Useds(g.mask, G) = Useds(u.mask, H) \ {c}
  /\ \A a \in Useds(u.mask, H) \ {c} : g.nblock[a] = u.nblock[a]
  /\ g.free_blocks = u.free_blocks
  /\ \A i \in UmmBlockNos :
       i \notin Frees(u.mask, H) \cup {0} /\ i # c => g.data[i] = u.data[i]

\* umm_free_core() after umm_assimilate_up(): u is the heap then.  The block
\* before c is free.
LEMMA FreeDown ==
  ASSUME NEW u, NEW H \in SUBSET UmmBlockNos, LinksOK(u, H), NEW c \in Useds(u.mask, H),
         ~u.mask[u.nblock[c]], u.mask[u.pblock[c]]
  PROVE  Freed(u, UmmAssimilateDown(u, c, TRUE), H, H \ {c}, c)
<1>0. PICK g : g = UmmAssimilateDown(u, c, TRUE)
  OBVIOUS
<1>1. /\ u \in UmmHeapType /\ Headers(u.nblock, u.pblock, H)
      /\ FreeRing(u.nfree, u.pfree, Frees(u.mask, H))
      /\ ~u.mask[0] /\ ~u.mask[UmmLast]
      /\ \A i \in H : i # UmmLast /\ u.mask[i] => ~u.mask[u.nblock[i]]
  BY LinksFacts
<1>2. c \in H /\ c # 0 /\ c # UmmLast /\ ~u.mask[c] /\ c \in UmmBlockNos /\ c \in Nat
  BY UsedFacts
<1>3. PICK b \in UmmBlockNos : b = u.pblock[c]
  BY <1>1, <1>2, HeapFields
<1>4. b \in H /\ b # UmmLast /\ u.nblock[b] = c /\ u.mask[b] /\ b # 0 /\ b # c
  BY <1>1, <1>2, <1>3, Before
<1>5. DownDone(u, g, b, c, TRUE)
  BY <1>0, <1>1, <1>2, <1>3, AssimilateDownIs
<1>6. /\ g \in UmmHeapType /\ MergeLinks(u.nblock, u.pblock, g.nblock, g.pblock, b, c)
      /\ g.nfree = u.nfree /\ g.pfree = u.pfree /\ g.data = u.data /\ g.free_blocks = u.free_blocks
  BY <1>5 DEF DownDone
<1>7. \A i \in UmmBlockNos : g.mask[i] <=> u.mask[i]
  BY <1>4, <1>5 DEF DownDone
<1>8. Headers(g.nblock, g.pblock, H \ {c}) /\ g.nblock[b] = u.nblock[c]
  <2>1. MergeCase(u.nblock, u.pblock, g.nblock, g.pblock, H, b, c)
    BY <1>1, <1>2, <1>4, <1>6 DEF MergeCase
  <2> QED BY <2>1, HeadersMerge
<1>9. Frees(g.mask, H \ {c}) = Frees(u.mask, H)
  BY <1>2, <1>7 DEF Frees
<1>10. Useds(g.mask, H \ {c}) = Useds(u.mask, H) \ {c}
  BY <1>7 DEF Useds
<1>11. \A i \in H : i # b /\ i # c => g.nblock[i] = u.nblock[i]
  BY <1>6 DEF MergeLinks
<1>12. Masked(g.mask, g.nblock, H \ {c})
  <2>1. 0 \in UmmBlockNos /\ UmmLast \in UmmBlockNos
    BY BlockNos
  <2>2. ~g.mask[0] /\ ~g.mask[UmmLast]
    BY <1>1, <1>7, <2>1
  <2>3. ASSUME NEW i \in H \ {c}, i # UmmLast, g.mask[i] PROVE ~g.mask[g.nblock[i]]
    <3>1. i \in H /\ u.mask[i] /\ u.nblock[i] \in UmmBlockNos /\ u.nblock[c] \in UmmBlockNos
      BY <1>1, <1>2, <1>7, <2>3, HeapFields
    <3>2. CASE i = b
      BY <1>7, <1>8, <3>1, <3>2
    <3>3. CASE i # b
      BY <1>1, <1>7, <1>11, <2>3, <3>1, <3>3
    <3> QED BY <3>2, <3>3
  <2> QED BY <2>2, <2>3 DEF Masked
<1>13. LinksOK(g, H \ {c})
  BY <1>1, <1>6, <1>8, <1>9, <1>12 DEF LinksOK
<1>14. \A a \in Useds(u.mask, H) \ {c} : g.nblock[a] = u.nblock[a]
  <2>1. \A a \in Useds(u.mask, H) : a \in H /\ a # b
    BY <1>4 DEF Useds
  <2> QED BY <1>11, <2>1
<1> QED BY <1>0, <1>6, <1>10, <1>13, <1>14 DEF Freed

\* The block before c is in use: c goes to the head of the free list.
LEMMA FreeHead ==
  ASSUME NEW u, NEW H \in SUBSET UmmBlockNos, LinksOK(u, H), NEW c \in Useds(u.mask, H),
         ~u.mask[u.nblock[c]], ~u.mask[u.pblock[c]]
  PROVE  Freed(u, [UmmLink(UmmLink(u, c, u.nfree[0]), 0, c) EXCEPT !.mask[c] = TRUE], H, H, c)
<1>0. PICK g : g = [UmmLink(UmmLink(u, c, u.nfree[0]), 0, c) EXCEPT !.mask[c] = TRUE]
  OBVIOUS
<1>1. /\ u \in UmmHeapType /\ Headers(u.nblock, u.pblock, H)
      /\ FreeRing(u.nfree, u.pfree, Frees(u.mask, H))
      /\ ~u.mask[0] /\ ~u.mask[UmmLast]
      /\ \A i \in H : i # UmmLast /\ u.mask[i] => ~u.mask[u.nblock[i]]
  BY LinksFacts
<1>2. c \in H /\ c # 0 /\ c # UmmLast /\ ~u.mask[c] /\ c \in UmmBlockNos /\ c \in Nat
  BY UsedFacts
<1>3. 0 \in UmmBlockNos /\ UmmLast \in UmmBlockNos
  BY BlockNos
<1>4. PICK f \in UmmBlockNos : f = u.nfree[0] /\ f \in Frees(u.mask, H) \cup {0}
  BY <1>1, <1>3, HeapFields, RingLinks
<1>5. f # c /\ c \notin Frees(u.mask, H)
  BY <1>2, <1>4 DEF Frees
<1>6. PICK l : l = UmmLink(u, c, f)
  OBVIOUS
<1>7. LinkDone(u, l, c, f)
  BY <1>1, <1>2, <1>6, LinkIs
<1>8. PICK k : k = UmmLink(l, 0, c)
  OBVIOUS
<1>9. l \in UmmHeapType
  BY <1>7 DEF LinkDone
<1>10. LinkDone(l, k, 0, c)
  BY <1>2, <1>3, <1>8, <1>9, LinkIs
<1>11. g = [k EXCEPT !.mask[c] = TRUE] /\ k \in UmmHeapType
  BY <1>0, <1>4, <1>6, <1>8, <1>10 DEF LinkDone
<1>12. g \in UmmHeapType
  BY <1>2, <1>11 DEF UmmHeapType
<1>13. /\ g.nblock = k.nblock /\ g.pblock = k.pblock /\ g.free_blocks = k.free_blocks
       /\ g.nfree = k.nfree /\ g.pfree = k.pfree /\ g.data = k.data
  BY <1>11 DEF UmmHeapType
<1>14. \A i \in UmmBlockNos : g.mask[i] <=> i = c \/ k.mask[i]
  BY <1>11 DEF UmmHeapType
<1>15. g.nblock = u.nblock /\ g.pblock = u.pblock /\ g.free_blocks = u.free_blocks /\ k.mask = u.mask
  BY <1>7, <1>10, <1>13 DEF LinkDone
<1>16. HeadLinks(u.nfree, u.pfree, g.nfree, g.pfree, c)
  BY <1>4, <1>5, <1>7, <1>10, <1>13 DEF LinkDone, HeadLinks
<1>17. \A i \in UmmBlockNos : i # c /\ i # f /\ i # 0 => g.data[i] = u.data[i]
  BY <1>7, <1>10, <1>13 DEF LinkDone
<1>18. \A i \in UmmBlockNos : g.mask[i] <=> i = c \/ u.mask[i]
  BY <1>14, <1>15
<1>19. Frees(g.mask, H) = Frees(u.mask, H) \cup {c}
  BY <1>2, <1>18 DEF Frees
<1>20. Useds(g.mask, H) = Useds(u.mask, H) \ {c}
  BY <1>18 DEF Useds
<1>21. FreeRing(g.nfree, g.pfree, Frees(g.mask, H))
  <2>1. Frees(u.mask, H) \in SUBSET UmmBlockNos
    BY DEF Frees
  <2>2. FreeRing(g.nfree, g.pfree, Frees(u.mask, H) \cup {c})
    BY <1>1, <1>2, <1>5, <1>16, <2>1, RingHead
  <2> QED BY <1>19, <2>2
<1>22. Masked(g.mask, g.nblock, H)
  <2>1. ~g.mask[0] /\ ~g.mask[UmmLast]
    BY <1>1, <1>2, <1>3, <1>18
  <2>2. ASSUME NEW i \in H, i # UmmLast, g.mask[i] PROVE ~g.mask[u.nblock[i]]
    <3>1. u.nblock[i] \in UmmBlockNos /\ u.pblock[u.nblock[i]] = i /\ u.nblock[i] # i
      BY <1>1, <2>2, HeapFields, HeaderFacts
    <3>2. CASE i = c
      BY <1>18, <3>1, <3>2
    <3>3. CASE i # c
      <4>1. u.mask[i] /\ ~u.mask[u.nblock[i]]
        BY <1>1, <1>18, <2>2, <3>3
      <4>2. u.nblock[i] # c
        BY <3>1, <4>1
      <4> QED BY <1>18, <3>1, <4>1, <4>2
    <3> QED BY <3>2, <3>3
  <2> QED BY <1>15, <2>1, <2>2 DEF Masked
<1>23. LinksOK(g, H)
  BY <1>1, <1>12, <1>15, <1>21, <1>22 DEF LinksOK
<1> QED BY <1>0, <1>4, <1>15, <1>17, <1>20, <1>23 DEF Freed

\* umm_free_core() keeps the heap sound, and the data of the other blocks.
LEMMA FreeCoreOK ==
  ASSUME NEW h, NEW H \in SUBSET UmmBlockNos, HeapOK(h, H), NEW c \in Useds(h.mask, H),
         NEW g, g = UmmFreeCore(h, c)
  PROVE  \E G \in SUBSET UmmBlockNos :
            Changed(h, g, H, G, c, {}) /\ Undisturbed(h, g, H, c, h.nblock[c])
<1>0. LinksOK(h, H) /\ h \in UmmHeapType
  BY LinksFacts DEF HeapOK
<1>1. /\ c \in H /\ c # 0 /\ c # UmmLast /\ c \in UmmBlockNos /\ c \in Nat
      /\ h.nblock[c] \in Nat /\ c < h.nblock[c]
  BY <1>0, UsedFacts
<1>2. PICK cells : cells = UmmCells(c, UmmSize(h, c))
  OBVIOUS
<1>3. PICK w : w = [h EXCEPT !.free_blocks = @ + UmmSize(h, c), !.data = UmmWiped(@, cells)]
  OBVIOUS
<1>4. w \in UmmHeapType
  <2>1. UmmSize(h, c) \in Int
    BY <1>1 DEF UmmSize
  <2>2. UmmWiped(h.data, cells) \in [UmmBlockNos -> UmmStored]
    BY <1>0, HeapFields DEF UmmWiped, UmmStored
  <2>3. h.free_blocks + UmmSize(h, c) \in Int
    BY <1>0, <2>1, HeapFields
  <2> QED BY <1>0, <1>3, <2>2, <2>3 DEF UmmHeapType
<1>5. /\ w.nblock = h.nblock /\ w.pblock = h.pblock /\ w.mask = h.mask
      /\ w.nfree = h.nfree /\ w.pfree = h.pfree
      /\ w.free_blocks = h.free_blocks + (h.nblock[c] - c)
      /\ w.data = UmmWiped(h.data, cells)
  BY <1>0, <1>3 DEF UmmHeapType, UmmSize
<1>6. LinksOK(w, H)
  BY <1>0, <1>4, <1>5 DEF LinksOK
<1>7. PICK u : u = UmmAssimilateUp(w, c)
  OBVIOUS
<1>8. PICK G \in SUBSET UmmBlockNos : UpResult(w, u, H, G, c)
  BY <1>5, <1>6, <1>7, UpOK
<1>9. /\ LinksOK(u, G) /\ G \subseteq H
      /\ Useds(u.mask, G) = Useds(h.mask, H) /\ c \in Useds(u.mask, G)
      /\ \A a \in Useds(h.mask, H) \ {c} : u.nblock[a] = h.nblock[a]
      /\ u.free_blocks = h.free_blocks + (h.nblock[c] - c)
      /\ ~u.mask[u.nblock[c]]
  BY <1>5, <1>8 DEF UpResult
<1>10. \A i \in UmmBlockNos : i \notin Frees(h.mask, H) \cup {0} => u.data[i] = w.data[i]
  BY <1>5, <1>8 DEF UpResult
<1>11. g = IF u.mask[u.pblock[c]] THEN UmmAssimilateDown(u, c, TRUE)
           ELSE [UmmLink(UmmLink(u, c, u.nfree[0]), 0, c) EXCEPT !.mask[c] = TRUE]
  BY <1>2, <1>3, <1>7 DEF UmmFreeCore
<1>12. \A i \in UmmBlockNos : i < c \/ i >= h.nblock[c] => w.data[i] = h.data[i]
  <2>1. cells = c..(h.nblock[c] - 1)
    BY <1>1, <1>2 DEF UmmCells, UmmSize
  <2>2. \A i \in UmmBlockNos : i < c \/ i >= h.nblock[c] => i \notin cells
    BY <1>1, <2>1, BlockNos
  <2> QED BY <1>5, <2>2 DEF UmmWiped
<1>13. PICK K \in SUBSET UmmBlockNos : Freed(u, g, G, K, c)
  <2>1. CASE u.mask[u.pblock[c]]
    <3>1. Freed(u, UmmAssimilateDown(u, c, TRUE), G, G \ {c}, c)
      BY <1>9, <2>1, FreeDown
    <3>2. G \ {c} \in SUBSET UmmBlockNos
      OBVIOUS
    <3> QED BY <1>11, <2>1, <3>1, <3>2
  <2>2. CASE ~u.mask[u.pblock[c]]
    <3>1. Freed(u, [UmmLink(UmmLink(u, c, u.nfree[0]), 0, c) EXCEPT !.mask[c] = TRUE], G, G, c)
      BY <1>9, <2>2, FreeHead
    <3>2. g = [UmmLink(UmmLink(u, c, u.nfree[0]), 0, c) EXCEPT !.mask[c] = TRUE]
      BY <1>11, <2>2
    <3> QED BY <3>1, <3>2, Zenon
  <2> QED BY <2>1, <2>2
<1>14. /\ LinksOK(g, K)
       /\ Useds(g.mask, K) = Useds(h.mask, H) \ {c}
       /\ \A a \in Useds(h.mask, H) \ {c} : g.nblock[a] = h.nblock[a]
       /\ g.free_blocks = h.free_blocks + (h.nblock[c] - c)
       /\ \A i \in UmmBlockNos : i \notin Frees(u.mask, G) \cup {0} /\ i # c => g.data[i] = u.data[i]
  BY <1>9, <1>13 DEF Freed
<1>15. HeapOK(g, K)
  BY <1>14, CountFreed
<1>16. Changed(h, g, H, K, c, {})
  <2>1. (Useds(h.mask, H) \ {c}) \cup {} = Useds(h.mask, H) \ {c}
    OBVIOUS
  <2> QED BY <1>14, <1>15, <2>1 DEF Changed
<1>17. Undisturbed(h, g, H, c, h.nblock[c])
  <2> SUFFICES ASSUME NEW i \in UsedCells(h.nblock, Useds(h.mask, H)), i < c \/ i >= h.nblock[c]
               PROVE  g.data[i] = h.data[i]
    BY DEF Undisturbed
  <2>1. i \in UmmBlockNos /\ i \in Nat
    BY BlockNos DEF UsedCells
  <2>2. i \notin Frees(h.mask, H) \cup {0}
    BY <1>0, LinkNotUsed
  <2>3. i # c
    BY <1>1, <2>1
  <2>4. i \notin Frees(u.mask, G) \cup {0}
    <3>1. PICK a \in Useds(h.mask, H) : a <= i /\ i < h.nblock[a]
      BY DEF UsedCells
    <3>2. a # c
      BY <1>1, <2>1, <3>1
    <3>3. u.nblock[a] = h.nblock[a] /\ a \in Useds(u.mask, G)
      BY <1>9, <3>2
    <3>4. i \in UsedCells(u.nblock, Useds(u.mask, G))
      BY <2>1, <3>1, <3>3 DEF UsedCells
    <3> QED BY <1>9, <3>4, LinkNotUsed
  <2> QED BY <1>10, <1>12, <1>14, <2>1, <2>2, <2>3, <2>4
<1> QED BY <1>16, <1>17

\* The cells of a block are counted from the others'.
LEMMA CountWith ==
  ASSUME NEW h, NEW H, LinksOK(h, H), NEW c \in Useds(h.mask, H), NEW nb2, NEW V,
         V = Useds(h.mask, H) \ {c}, \A a \in V : nb2[a] = h.nblock[a]
  PROVE  \E x \in Nat, y \in Nat :
            /\ x = Cardinality(UsedCells(nb2, V)) /\ y = h.nblock[c] - c
            /\ Cardinality(UsedCells(h.nblock, Useds(h.mask, H))) = x + y
<1>1. Headers(h.nblock, h.pblock, H)
  BY LinksFacts
<1>2. PICK U : U = Useds(h.mask, H)
  OBVIOUS
<1>3. U \in SUBSET H /\ UmmLast \notin U /\ c \in U /\ \A a \in U \ {c} : nb2[a] = h.nblock[a]
  BY <1>2, UsedsIn
<1>4. /\ Cardinality(UsedCells(h.nblock, U)) = Cardinality(UsedCells(nb2, U \ {c})) + (h.nblock[c] - c)
      /\ Cardinality(UsedCells(nb2, U \ {c})) \in Nat
  BY <1>1, <1>3, CountBlock
<1>5. c \in Nat /\ h.nblock[c] \in Nat /\ c < h.nblock[c]
  BY UsedFacts
<1>6. h.nblock[c] - c \in Nat
  BY <1>5
<1> QED BY <1>2, <1>4, <1>6

\* The count after a block was taken, and after one took the place of another.
LEMMA CountTaken ==
  ASSUME NEW h, NEW H, HeapOK(h, H),
         NEW g, NEW G, LinksOK(g, G), NEW c \in Useds(g.mask, G),
         Useds(g.mask, G) \ {c} = Useds(h.mask, H),
         \A a \in Useds(h.mask, H) : g.nblock[a] = h.nblock[a],
         g.free_blocks = h.free_blocks - (g.nblock[c] - c)
  PROVE  HeapOK(g, G)
<1>1. h.free_blocks = UmmLast - 1 - Cardinality(UsedCells(h.nblock, Useds(h.mask, H)))
  BY DEF HeapOK, FreeCounted
<1>2. PICK V : V = Useds(h.mask, H)
  OBVIOUS
<1>3. V = Useds(g.mask, G) \ {c} /\ \A a \in V : h.nblock[a] = g.nblock[a]
  BY <1>2
<1>4. PICK x \in Nat, y \in Nat :
         /\ x = Cardinality(UsedCells(h.nblock, V)) /\ y = g.nblock[c] - c
         /\ Cardinality(UsedCells(g.nblock, Useds(g.mask, G))) = x + y
  BY <1>3, CountWith
<1>5. h.free_blocks = UmmLast - 1 - x /\ g.free_blocks = h.free_blocks - y
  BY <1>1, <1>2, <1>4
<1>6. g.free_blocks = UmmLast - 1 - (x + y)
  BY <1>5, BlockNos
<1>7. FreeCounted(g, G)
  BY <1>4, <1>6 DEF FreeCounted
<1> QED BY <1>7 DEF HeapOK

\* The count after one block took the place of another.
LEMMA CountSwapped ==
  ASSUME NEW h, NEW H, HeapOK(h, H), NEW c \in Useds(h.mask, H),
         NEW g, NEW G, LinksOK(g, G), NEW d \in Useds(g.mask, G),
         Useds(g.mask, G) \ {d} = Useds(h.mask, H) \ {c},
         \A a \in Useds(h.mask, H) \ {c} : g.nblock[a] = h.nblock[a],
         g.free_blocks = h.free_blocks + (h.nblock[c] - c) - (g.nblock[d] - d)
  PROVE  HeapOK(g, G)
<1>1. LinksOK(h, H) /\ h.free_blocks = UmmLast - 1 - Cardinality(UsedCells(h.nblock, Useds(h.mask, H)))
  BY DEF HeapOK, FreeCounted
<1>2. PICK V : V = Useds(h.mask, H) \ {c}
  OBVIOUS
<1>3. /\ V = Useds(g.mask, G) \ {d} /\ \A a \in V : h.nblock[a] = g.nblock[a]
      /\ \A a \in V : h.nblock[a] = h.nblock[a]
  BY <1>2
<1>4. PICK x \in Nat, y \in Nat :
         /\ x = Cardinality(UsedCells(h.nblock, V)) /\ y = g.nblock[d] - d
         /\ Cardinality(UsedCells(g.nblock, Useds(g.mask, G))) = x + y
  BY <1>3, CountWith
<1>5. PICK v \in Nat, z \in Nat :
         /\ v = Cardinality(UsedCells(h.nblock, V)) /\ z = h.nblock[c] - c
         /\ Cardinality(UsedCells(h.nblock, Useds(h.mask, H))) = v + z
  BY <1>1, <1>2, <1>3, CountWith
<1>6. h.free_blocks = UmmLast - 1 - (x + z) /\ g.free_blocks = h.free_blocks + z - y
  BY <1>1, <1>4, <1>5
<1>7. g.free_blocks = UmmLast - 1 - (x + y)
  BY <1>6, BlockNos
<1>8. FreeCounted(g, G)
  BY <1>4, <1>7 DEF FreeCounted
<1> QED BY <1>8 DEF HeapOK

\* Only stats.free_blocks changes.
LEMMA CountField ==
  ASSUME NEW h, NEW H, LinksOK(h, H), NEW x \in Int
  PROVE  LET g == [h EXCEPT !.free_blocks = x]
         IN  /\ LinksOK(g, H) /\ g \in UmmHeapType
             /\ g.nblock = h.nblock /\ g.pblock = h.pblock /\ g.mask = h.mask
             /\ g.nfree = h.nfree /\ g.pfree = h.pfree /\ g.data = h.data
             /\ g.free_blocks = x
<1>1. h \in UmmHeapType
  BY LinksFacts
<1>2. PICK g : g = [h EXCEPT !.free_blocks = x]
  OBVIOUS
<1>3. /\ g \in UmmHeapType
      /\ g.nblock = h.nblock /\ g.pblock = h.pblock /\ g.mask = h.mask
      /\ g.nfree = h.nfree /\ g.pfree = h.pfree /\ g.data = h.data
      /\ g.free_blocks = x
  BY <1>1, <1>2 DEF UmmHeapType
<1>4. LinksOK(g, H)
  BY <1>3 DEF LinksOK
<1> QED BY <1>2, <1>3, <1>4

\* The block b, with the header e behind it, takes the place of c.
Made(h, g, H, c, b, e) ==
  \E G \in SUBSET UmmBlockNos :
     Changed(h, g, H, G, c, {b}) /\ Undisturbed(h, g, H, 0, 0) /\ g.nblock[b] = e

\* umm_realloc() takes in the next block if it is free.
GrownUp(h, c, x) == [UmmAssimilateUp(h, c) EXCEPT !.free_blocks = @ - x]

\* The heap stays sound, and all data stays.
LEMMA GrowUpOK ==
  ASSUME NEW h, NEW H \in SUBSET UmmBlockNos, HeapOK(h, H), NEW c \in Useds(h.mask, H),
         NEW x, x = (IF h.mask[h.nblock[c]] THEN h.nblock[h.nblock[c]] - h.nblock[c] ELSE 0)
  PROVE  Made(h, GrownUp(h, c, x), H, c, c, h.nblock[c] + x)
<1>0. LinksOK(h, H) /\ h \in UmmHeapType
  BY LinksFacts DEF HeapOK
<1>1. PICK d \in Nat : d = h.nblock[c] /\ d \in UmmBlockNos /\ d \in H
  BY <1>0, UsedFacts
<1>2. PICK e \in Nat : e = h.nblock[d]
  BY <1>0, <1>1, HeapFields, BlockNos
<1>3. x \in Int /\ x = (IF h.mask[d] THEN e - d ELSE 0)
  BY <1>1, <1>2
<1>4. PICK u : u = UmmAssimilateUp(h, c)
  OBVIOUS
<1>5. PICK G \in SUBSET UmmBlockNos : UpResult(h, u, H, G, c)
  BY <1>0, <1>4, UpOK
<1>6. /\ LinksOK(u, G) /\ Useds(u.mask, G) = Useds(h.mask, H)
      /\ \A a \in Useds(h.mask, H) \ {c} : u.nblock[a] = h.nblock[a]
      /\ u.free_blocks = h.free_blocks
  BY <1>5 DEF UpResult
<1>7. /\ u.nblock[c] = IF h.mask[d] THEN e ELSE d
      /\ \A i \in UmmBlockNos : i \notin Frees(h.mask, H) \cup {0} => u.data[i] = h.data[i]
  BY <1>1, <1>2, <1>5 DEF UpResult
<1>8. PICK y \in Int : y = u.free_blocks - x
  BY <1>0, <1>3, <1>6, HeapFields
<1>9. PICK g : g = GrownUp(h, c, x)
  OBVIOUS
<1>10. g = [u EXCEPT !.free_blocks = y]
  BY <1>4, <1>8, <1>9 DEF GrownUp
<1>11. /\ LinksOK(g, G) /\ g.nblock = u.nblock /\ g.mask = u.mask /\ g.data = u.data
       /\ g.free_blocks = y
  BY <1>6, <1>10, CountField
<1>12. g.nblock[c] = d + x
  BY <1>3, <1>7, <1>11
<1>13. HeapOK(g, G)
  <2>1. c \in Useds(g.mask, G) /\ Useds(g.mask, G) \ {c} = Useds(h.mask, H) \ {c}
    BY <1>6, <1>11
  <2>2. \A a \in Useds(h.mask, H) \ {c} : g.nblock[a] = h.nblock[a]
    BY <1>6, <1>11
  <2>3. c \in Nat /\ h.free_blocks \in Int
    BY <1>0, UsedFacts, HeapFields
  <2>4. g.free_blocks = h.free_blocks + (h.nblock[c] - c) - (g.nblock[c] - c)
    BY <1>1, <1>3, <1>6, <1>8, <1>11, <1>12, <2>3
  <2> QED BY <1>11, <2>1, <2>2, <2>4, CountSwapped
<1>14. Changed(h, g, H, G, c, {c})
  <2>1. Useds(g.mask, G) = (Useds(h.mask, H) \ {c}) \cup {c}
    BY <1>6, <1>11
  <2> QED BY <1>6, <1>11, <1>13, <2>1 DEF Changed
<1>15. Undisturbed(h, g, H, 0, 0)
  <2> SUFFICES ASSUME NEW i \in UsedCells(h.nblock, Useds(h.mask, H)) PROVE g.data[i] = h.data[i]
    BY DEF Undisturbed
  <2>1. i \in UmmBlockNos
    BY DEF UsedCells
  <2>2. i \notin Frees(h.mask, H) \cup {0}
    BY <1>0, LinkNotUsed
  <2> QED BY <1>7, <1>11, <2>1, <2>2
<1> QED BY <1>1, <1>9, <1>12, <1>14, <1>15 DEF Made

\* umm_disconnect_from_free_list(): the free block c is in use.
Outcome(h, g, H, c) ==
  /\ LinksOK(g, H) /\ g.nblock = h.nblock /\ g.pblock = h.pblock
  /\ g.free_blocks = h.free_blocks
  /\ \A i \in UmmBlockNos : g.mask[i] <=> i # c /\ h.mask[i]
  /\ Useds(g.mask, H) = Useds(h.mask, H) \cup {c}
  /\ \A i \in UmmBlockNos : i \notin Frees(h.mask, H) \cup {0} => g.data[i] = h.data[i]

\* The lists stay sound, and all data stays.
LEMMA DisconnectOK ==
  ASSUME NEW h, NEW H \in SUBSET UmmBlockNos, LinksOK(h, H), NEW c \in Frees(h.mask, H)
  PROVE  Outcome(h, UmmDisconnect(h, c), H, c)
<1>1. /\ h \in UmmHeapType /\ Headers(h.nblock, h.pblock, H)
      /\ FreeRing(h.nfree, h.pfree, Frees(h.mask, H))
      /\ ~h.mask[0] /\ ~h.mask[UmmLast]
      /\ \A i \in H : i # UmmLast /\ h.mask[i] => ~h.mask[h.nblock[i]]
  BY LinksFacts
<1>2. c \in H /\ c # 0 /\ c # UmmLast /\ h.mask[c] /\ c \in UmmBlockNos
  BY FreeFacts
<1>3. PICK g : g = UmmDisconnect(h, c)
  OBVIOUS
<1>4. OutDone(h, g, c)
  BY <1>1, <1>2, <1>3, DisconnectIs
<1>5. /\ g \in UmmHeapType /\ g.nblock = h.nblock /\ g.pblock = h.pblock
      /\ g.free_blocks = h.free_blocks /\ OutLinks(h.nfree, h.pfree, g.nfree, g.pfree, c)
  BY <1>4 DEF OutDone
<1>6. /\ \A i \in UmmBlockNos : g.mask[i] <=> i # c /\ h.mask[i]
      /\ \A i \in UmmBlockNos : i # h.pfree[c] /\ i # h.nfree[c] => g.data[i] = h.data[i]
  BY <1>4 DEF OutDone
<1>7. Frees(g.mask, H) = Frees(h.mask, H) \ {c}
  BY <1>6 DEF Frees
<1>8. Useds(g.mask, H) = Useds(h.mask, H) \cup {c}
  BY <1>2, <1>6 DEF Useds
<1>9. FreeRing(g.nfree, g.pfree, Frees(g.mask, H))
  <2>1. Frees(h.mask, H) \in SUBSET UmmBlockNos
    BY DEF Frees
  <2>2. FreeRing(g.nfree, g.pfree, Frees(h.mask, H) \ {c})
    BY <1>1, <1>5, <2>1, RingOut
  <2> QED BY <1>7, <2>2
<1>10. Masked(g.mask, g.nblock, H)
  <2>1. 0 \in UmmBlockNos /\ UmmLast \in UmmBlockNos
    BY BlockNos
  <2>2. ~g.mask[0] /\ ~g.mask[UmmLast]
    BY <1>1, <1>6, <2>1
  <2>3. ASSUME NEW i \in H, i # UmmLast, g.mask[i] PROVE ~g.mask[h.nblock[i]]
    <3>1. h.nblock[i] \in UmmBlockNos
      BY <1>1, HeapFields
    <3>2. h.mask[i]
      BY <1>6, <2>3
    <3>3. ~h.mask[h.nblock[i]]
      BY <1>1, <2>3, <3>2
    <3> QED BY <1>6, <3>1, <3>3
  <2> QED BY <1>5, <2>2, <2>3 DEF Masked
<1>11. LinksOK(g, H)
  BY <1>1, <1>5, <1>9, <1>10 DEF LinksOK
<1>12. \A i \in UmmBlockNos : i \notin Frees(h.mask, H) \cup {0} => g.data[i] = h.data[i]
  <2>1. h.pfree[c] \in Frees(h.mask, H) \cup {0} /\ h.nfree[c] \in Frees(h.mask, H) \cup {0}
    BY <1>1, RingLinks
  <2> QED BY <1>6, <2>1
<1> QED BY <1>3, <1>5, <1>6, <1>8, <1>11, <1>12 DEF Outcome

\* umm_realloc() makes the free block b before c part of the allocation.
GrownDown(h, c, b) ==
  [UmmAssimilateDown(UmmDisconnect(h, b), c, FALSE) EXCEPT !.free_blocks = @ - (c - b)]

MadeDown(h, g, H, c, b) ==
  \E G \in SUBSET UmmBlockNos :
     /\ Changed(h, g, H, G, c, {b}) /\ Undisturbed(h, g, H, 0, 0)
     /\ g.nblock[b] = h.nblock[c] /\ b \notin Useds(h.mask, H)
     /\ b \in Nat /\ b < c /\ h.nblock[b] = c
     /\ g.mask[h.nblock[c]] <=> h.mask[h.nblock[c]]
     /\ g.nblock[h.nblock[c]] = h.nblock[h.nblock[c]]

\* The heap stays sound, and all data stays.
LEMMA GrowDownOK ==
  ASSUME NEW h, NEW H \in SUBSET UmmBlockNos, HeapOK(h, H), NEW c \in Useds(h.mask, H),
         NEW b, b = h.pblock[c], h.mask[b]
  PROVE  MadeDown(h, GrownDown(h, c, b), H, c, b)
<1>0. LinksOK(h, H) /\ h \in UmmHeapType /\ Headers(h.nblock, h.pblock, H)
  BY LinksFacts DEF HeapOK
<1>1. c \in H /\ c # 0 /\ c # UmmLast /\ ~h.mask[c] /\ c \in UmmBlockNos /\ c \in Nat
      /\ h.nblock[c] \in Nat
  BY <1>0, UsedFacts
<1>2. b \in H /\ b # UmmLast /\ b < c /\ h.nblock[b] = c
  BY <1>0, <1>1, Before
<1>3. b \in Frees(h.mask, H) /\ b \notin Useds(h.mask, H)
  BY <1>2 DEF Frees, Useds
<1>4. b # 0 /\ b \in Nat /\ b \in UmmBlockNos /\ b # c
  BY <1>0, <1>1, <1>3, FreeFacts
<1>5. PICK k : k = UmmDisconnect(h, b)
  OBVIOUS
<1>6. Outcome(h, k, H, b)
  BY <1>0, <1>3, <1>5, DisconnectOK
<1>7. /\ LinksOK(k, H) /\ k.nblock = h.nblock /\ k.pblock = h.pblock
      /\ k.free_blocks = h.free_blocks
      /\ \A i \in UmmBlockNos : k.mask[i] <=> i # b /\ h.mask[i]
      /\ Useds(k.mask, H) = Useds(h.mask, H) \cup {b}
      /\ \A i \in UmmBlockNos : i \notin Frees(h.mask, H) \cup {0} => k.data[i] = h.data[i]
  BY <1>6 DEF Outcome
<1>8. PICK u : u = UmmAssimilateDown(k, c, FALSE)
  OBVIOUS
<1>9. /\ k \in UmmHeapType /\ Headers(k.nblock, k.pblock, H)
      /\ FreeRing(k.nfree, k.pfree, Frees(k.mask, H))
      /\ ~k.mask[0] /\ ~k.mask[UmmLast]
      /\ \A i \in H : i # UmmLast /\ k.mask[i] => ~k.mask[k.nblock[i]]
  BY <1>7, LinksFacts
<1>10. DownDone(k, u, b, c, FALSE)
  BY <1>1, <1>4, <1>7, <1>8, <1>9, AssimilateDownIs
<1>11. /\ u \in UmmHeapType /\ MergeLinks(k.nblock, k.pblock, u.nblock, u.pblock, b, c)
       /\ u.nfree = k.nfree /\ u.pfree = k.pfree /\ u.data = k.data /\ u.free_blocks = k.free_blocks
  BY <1>10 DEF DownDone
<1>12. \A i \in UmmBlockNos : u.mask[i] <=> k.mask[i]
  BY <1>4, <1>7, <1>10 DEF DownDone
<1>13. PICK G : G = H \ {c}
  OBVIOUS
<1>14. Headers(u.nblock, u.pblock, G) /\ u.nblock[b] = h.nblock[c]
  <2>1. MergeCase(k.nblock, k.pblock, u.nblock, u.pblock, H, b, c)
    BY <1>1, <1>2, <1>4, <1>7, <1>9, <1>11 DEF MergeCase
  <2>2. PICK na, pa, nz, pz : na = k.nblock /\ pa = k.pblock /\ nz = u.nblock /\ pz = u.pblock
    OBVIOUS
  <2>3. MergeCase(na, pa, nz, pz, H, b, c)
    BY <2>1, <2>2, Zenon
  <2>4. Headers(nz, pz, H \ {c}) /\ nz[b] = na[c]
    BY <2>3, HeadersMerge, SMTT(30)
  <2> QED BY <1>7, <1>13, <2>2, <2>4
<1>15. Frees(u.mask, G) = Frees(k.mask, H)
  BY <1>1, <1>7, <1>12, <1>13 DEF Frees
<1>16. Useds(u.mask, G) = (Useds(h.mask, H) \ {c}) \cup {b}
  <2>1. Useds(u.mask, G) = Useds(k.mask, H) \ {c}
    BY <1>12, <1>13 DEF Useds
  <2> QED BY <1>4, <1>7, <2>1
<1>17. \A i \in H : i # b /\ i # c => u.nblock[i] = h.nblock[i]
  BY <1>7, <1>11 DEF MergeLinks
<1>18. Masked(u.mask, u.nblock, G)
  <2>1. 0 \in UmmBlockNos /\ UmmLast \in UmmBlockNos
    BY BlockNos
  <2>2. ~u.mask[0] /\ ~u.mask[UmmLast]
    BY <1>9, <1>12, <2>1
  <2>3. ASSUME NEW i \in G, i # UmmLast, u.mask[i] PROVE ~u.mask[u.nblock[i]]
    <3>1. i \in H /\ k.mask[i] /\ i # b /\ i # c
      BY <1>7, <1>12, <1>13, <2>3
    <3>2. u.nblock[i] = k.nblock[i] /\ k.nblock[i] \in UmmBlockNos
      BY <1>7, <1>9, <1>17, <3>1, HeapFields
    <3> QED BY <1>9, <1>12, <2>3, <3>1, <3>2
  <2> QED BY <2>2, <2>3 DEF Masked
<1>19. LinksOK(u, G)
  BY <1>9, <1>11, <1>14, <1>15, <1>18 DEF LinksOK
<1>20. PICK y \in Int : y = u.free_blocks - (c - b)
  BY <1>0, <1>1, <1>4, <1>7, <1>11, HeapFields
<1>21. PICK g : g = GrownDown(h, c, b)
  OBVIOUS
<1>22. g = [u EXCEPT !.free_blocks = y]
  BY <1>5, <1>8, <1>20, <1>21 DEF GrownDown
<1>23. /\ LinksOK(g, G) /\ g.nblock = u.nblock /\ g.mask = u.mask /\ g.data = u.data
       /\ g.free_blocks = y
  BY <1>19, <1>22, CountField
<1>24. \A a \in Useds(h.mask, H) \ {c} : g.nblock[a] = h.nblock[a]
  <2>1. \A a \in Useds(h.mask, H) : a \in H /\ a # b
    BY <1>3 DEF Useds
  <2> QED BY <1>17, <1>23, <2>1
<1>25. HeapOK(g, G)
  <2>1. b \in Useds(g.mask, G) /\ Useds(g.mask, G) \ {b} = Useds(h.mask, H) \ {c}
    BY <1>3, <1>16, <1>23
  <2>2. g.nblock[b] = h.nblock[c] /\ h.free_blocks \in Int
    BY <1>0, <1>14, <1>23, HeapFields
  <2>3. PICK e \in Nat, z \in Int : e = h.nblock[c] /\ z = h.free_blocks
    BY <1>1, <2>2
  <2>4. y = z - (c - b)
    BY <1>7, <1>11, <1>20, <2>3
  <2>5. z - (c - b) = z + (e - c) - (e - b)
    BY <1>1, <1>4
  <2>6. g.free_blocks = h.free_blocks + (h.nblock[c] - c) - (g.nblock[b] - b)
    BY <1>23, <2>2, <2>3, <2>4, <2>5
  <2> QED BY <1>23, <1>24, <2>1, <2>6, CountSwapped
<1>26. Changed(h, g, H, G, c, {b})
  BY <1>16, <1>23, <1>24, <1>25 DEF Changed
<1>27. Undisturbed(h, g, H, 0, 0)
  <2> SUFFICES ASSUME NEW i \in UsedCells(h.nblock, Useds(h.mask, H)) PROVE g.data[i] = h.data[i]
    BY DEF Undisturbed
  <2>1. i \in UmmBlockNos
    BY DEF UsedCells
  <2>2. i \notin Frees(h.mask, H) \cup {0}
    BY <1>0, LinkNotUsed
  <2> QED BY <1>7, <1>11, <1>23, <2>1, <2>2
<1>28. G \in SUBSET UmmBlockNos /\ g.nblock[b] = h.nblock[c]
  BY <1>13, <1>14, <1>23
<1>29. PICK d \in UmmBlockNos : d = h.nblock[c] /\ d \in H /\ d # b /\ d # c
  <2>1. h.nblock[c] \in UmmBlockNos /\ h.nblock[c] \in H /\ c < h.nblock[c]
    BY <1>0, UsedFacts
  <2> QED BY <1>1, <1>2, <1>4, <2>1
<1>30. (g.mask[d] <=> h.mask[d]) /\ g.nblock[d] = h.nblock[d]
  BY <1>7, <1>12, <1>17, <1>23, <1>29
<1>31. MadeDown(h, g, H, c, b)
  BY <1>2, <1>3, <1>4, <1>26, <1>27, <1>28, <1>29, <1>30 DEF MadeDown
<1> QED BY <1>21, <1>31

\* umm_malloc_core(): the free block c is cut, its rest m stays on the free list.
TakeRest(k, c, n) ==
  [UmmLink(UmmLink(UmmSplitBlock(k, c, n, TRUE), k.pfree[c], c + n), c + n, k.nfree[c])
     EXCEPT !.nfree[c] = 0, !.pfree[c] = 0]

Rested(k, g, H, c, m) ==
  /\ LinksOK(g, H \cup {m})
  /\ Useds(g.mask, H \cup {m}) = Useds(k.mask, H) \cup {c}
  /\ \A a \in Useds(k.mask, H) : g.nblock[a] = k.nblock[a]
  /\ g.nblock[c] = m /\ g.free_blocks = k.free_blocks
  /\ \A i \in UmmBlockNos : i \notin Frees(k.mask, H) \cup {0} /\ i # m => g.data[i] = k.data[i]

\* The lists stay sound, and all data stays.
LEMMA TakeRestOK ==
  ASSUME NEW k, NEW H \in SUBSET UmmBlockNos, LinksOK(k, H), NEW c \in Frees(k.mask, H),
         NEW n \in Nat, n > 0, NEW m, m = c + n, m < k.nblock[c]
  PROVE  Rested(k, TakeRest(k, c, n), H, c, m)
<1>1. /\ k \in UmmHeapType /\ Headers(k.nblock, k.pblock, H)
      /\ FreeRing(k.nfree, k.pfree, Frees(k.mask, H))
      /\ ~k.mask[0] /\ ~k.mask[UmmLast]
      /\ \A i \in H : i # UmmLast /\ k.mask[i] => ~k.mask[k.nblock[i]]
  BY LinksFacts
<1>2. /\ c \in H /\ c # 0 /\ c # UmmLast /\ k.mask[c] /\ c \in UmmBlockNos /\ c \in Nat
      /\ k.nblock[c] \in Nat /\ k.nblock[c] <= UmmLast
      /\ k.nblock[c] \in UmmBlockNos /\ ~k.mask[k.nblock[c]]
  BY FreeFacts
<1>3. m \in UmmBlockNos /\ m # 0 /\ m # UmmLast /\ c < m /\ m # c
  BY <1>2, BlockNos
<1>4. PICK s : s = UmmSplitBlock(k, c, n, TRUE)
  OBVIOUS
<1>5. SplitDone(k, s, c, m, TRUE)
  BY <1>1, <1>2, <1>3, <1>4, SplitBlockIs
<1>6. /\ s \in UmmHeapType /\ s.nfree = k.nfree /\ s.pfree = k.pfree
      /\ s.free_blocks = k.free_blocks
      /\ SplitLinks(k.nblock, k.pblock, s.nblock, s.pblock, c, m)
  BY <1>5 DEF SplitDone
<1>7. /\ \A i \in UmmBlockNos : s.mask[i] <=> i # c /\ (i = m \/ k.mask[i])
      /\ \A i \in UmmBlockNos : i # m => s.data[i] = k.data[i]
  BY <1>5 DEF SplitDone
<1>8. PICK a \in UmmBlockNos, b \in UmmBlockNos :
         /\ a = k.pfree[c] /\ b = k.nfree[c]
         /\ a \in Frees(k.mask, H) \cup {0} /\ b \in Frees(k.mask, H) \cup {0}
  <2>1. k.pfree[c] \in Frees(k.mask, H) \cup {0} /\ k.nfree[c] \in Frees(k.mask, H) \cup {0}
    BY <1>1, RingLinks
  <2>2. k.pfree[c] \in UmmBlockNos /\ k.nfree[c] \in UmmBlockNos
    BY <1>1, <1>2, HeapFields
  <2> QED BY <2>1, <2>2
<1>9. Headers(s.nblock, s.pblock, H \cup {m}) /\ m \notin H
  <2>1. SplitCase(k.nblock, k.pblock, s.nblock, s.pblock, H, c, m)
    BY <1>1, <1>2, <1>3, <1>6 DEF SplitCase
  <2>2. PICK na, pa, nz, pz : na = k.nblock /\ pa = k.pblock /\ nz = s.nblock /\ pz = s.pblock
    OBVIOUS
  <2>3. SplitCase(na, pa, nz, pz, H, c, m)
    BY <2>1, <2>2, Zenon
  <2>4. Headers(nz, pz, H \cup {m}) /\ m \notin H
    BY <2>3, HeadersSplit
  <2> QED BY <2>2, <2>4
<1>10. m \notin Frees(k.mask, H) /\ a # m /\ b # m
  BY <1>3, <1>8, <1>9 DEF Frees
<1>11. PICK l : l = UmmLink(s, a, m)
  OBVIOUS
<1>12. LinkDone(s, l, a, m)
  BY <1>3, <1>6, <1>8, <1>11, LinkIs
<1>13. PICK z : z = UmmLink(l, m, b)
  OBVIOUS
<1>14. l \in UmmHeapType
  BY <1>12 DEF LinkDone
<1>15. LinkDone(l, z, m, b)
  BY <1>3, <1>8, <1>13, <1>14, LinkIs
<1>16. PICK g : g = [z EXCEPT !.nfree[c] = 0, !.pfree[c] = 0]
  OBVIOUS
<1>17. g = TakeRest(k, c, n)
  BY <1>4, <1>8, <1>11, <1>13, <1>16 DEF TakeRest
<1>18. z \in UmmHeapType /\ 0 \in UmmBlockNos /\ UmmLast \in UmmBlockNos
  BY <1>15, BlockNos DEF LinkDone
<1>19. g \in UmmHeapType
  BY <1>2, <1>16, <1>18 DEF UmmHeapType
<1>20. /\ g.nblock = z.nblock /\ g.pblock = z.pblock /\ g.mask = z.mask
       /\ g.data = z.data /\ g.free_blocks = z.free_blocks
  BY <1>16, <1>18 DEF UmmHeapType
<1>21. \A i \in UmmBlockNos : g.nfree[i] = IF i = c THEN 0 ELSE z.nfree[i]
  BY <1>16, <1>18 DEF UmmHeapType
<1>22. \A i \in UmmBlockNos : g.pfree[i] = IF i = c THEN 0 ELSE z.pfree[i]
  BY <1>16, <1>18 DEF UmmHeapType
<1>23. g.nblock = s.nblock /\ g.pblock = s.pblock /\ g.mask = s.mask /\ g.free_blocks = k.free_blocks
  BY <1>6, <1>12, <1>15, <1>20 DEF LinkDone
<1>24. PlaceLinks(k.nfree, k.pfree, g.nfree, g.pfree, c, m)
  <2>1. \A i \in UmmBlockNos :
          /\ z.nfree[i] = IF i = m THEN b ELSE IF i = a THEN m ELSE k.nfree[i]
          /\ z.pfree[i] = IF i = m THEN a ELSE IF i = b THEN m ELSE k.pfree[i]
    BY <1>6, <1>10, <1>12, <1>15 DEF LinkDone
  <2> QED BY <1>8, <1>21, <1>22, <2>1 DEF PlaceLinks
<1>25. Frees(g.mask, H \cup {m}) = (Frees(k.mask, H) \ {c}) \cup {m}
  BY <1>3, <1>7, <1>23 DEF Frees
<1>26. Useds(g.mask, H \cup {m}) = Useds(k.mask, H) \cup {c}
  <2>1. \A i \in UmmBlockNos : g.mask[i] <=> i # c /\ (i = m \/ k.mask[i])
    BY <1>7, <1>23
  <2>2. ASSUME NEW i \in UmmBlockNos
        PROVE  i \in Useds(g.mask, H \cup {m}) <=> i \in Useds(k.mask, H) \/ i = c
    BY <1>2, <1>3, <1>9, <2>1 DEF Useds
  <2>3. Useds(g.mask, H \cup {m}) \subseteq UmmBlockNos /\ Useds(k.mask, H) \subseteq UmmBlockNos
    BY <1>3 DEF Useds
  <2> QED BY <1>2, <2>2, <2>3
<1>27. FreeRing(g.nfree, g.pfree, Frees(g.mask, H \cup {m}))
  <2>1. Frees(k.mask, H) \in SUBSET UmmBlockNos
    BY DEF Frees
  <2>2. FreeRing(g.nfree, g.pfree, (Frees(k.mask, H) \ {c}) \cup {m})
    BY <1>1, <1>3, <1>10, <1>24, <2>1, RingPlace
  <2> QED BY <1>25, <2>2
<1>28. /\ s.nblock[c] = m /\ s.nblock[m] = k.nblock[c]
       /\ \A i \in H : i # c => s.nblock[i] = k.nblock[i]
  BY <1>2, <1>3, <1>6, <1>9 DEF SplitLinks
<1>29. Masked(g.mask, g.nblock, H \cup {m})
  <2>1. ~s.mask[0] /\ ~s.mask[UmmLast]
    BY <1>1, <1>3, <1>7, <1>18
  <2>2. ASSUME NEW i \in H \cup {m}, i # UmmLast, s.mask[i] PROVE ~s.mask[s.nblock[i]]
    <3>1. i # c /\ i \in UmmBlockNos
      BY <1>3, <1>7, <2>2
    <3>2. CASE i = m
      <4>1. k.nblock[c] # m
        BY <1>2
      <4> QED BY <1>2, <1>7, <1>28, <3>2, <4>1
    <3>3. CASE i # m
      <4>1. i \in H /\ k.mask[i] /\ ~k.mask[k.nblock[i]]
        BY <1>1, <1>7, <2>2, <3>1, <3>3
      <4>2. k.nblock[i] \in H
        BY <1>1, <2>2, <4>1, HeaderFacts
      <4>3. k.nblock[i] # m /\ k.nblock[i] \in UmmBlockNos
        BY <1>9, <4>2
      <4> QED BY <1>7, <1>28, <3>1, <4>1, <4>3
    <3> QED BY <3>2, <3>3
  <2> QED BY <1>23, <2>1, <2>2 DEF Masked
<1>30. LinksOK(g, H \cup {m})
  BY <1>9, <1>19, <1>23, <1>27, <1>29 DEF LinksOK
<1>31. \A x \in Useds(k.mask, H) : g.nblock[x] = k.nblock[x]
  <2>1. \A x \in Useds(k.mask, H) : x \in H /\ x # c
    BY <1>2 DEF Useds
  <2> QED BY <1>23, <1>28, <2>1
<1>32. \A i \in UmmBlockNos : i \notin Frees(k.mask, H) \cup {0} /\ i # m => g.data[i] = k.data[i]
  <2>1. \A i \in UmmBlockNos : i # a /\ i # b /\ i # m => g.data[i] = k.data[i]
    BY <1>7, <1>12, <1>15, <1>20 DEF LinkDone
  <2> QED BY <1>8, <2>1
<1> QED BY <1>17, <1>23, <1>26, <1>28, <1>30, <1>31, <1>32 DEF Rested

\* umm_malloc_core() keeps the heap sound, and all data.
LEMMA CoreTakeOK ==
  ASSUME NEW h, NEW H \in SUBSET UmmBlockNos, HeapOK(h, H), NEW c \in Frees(h.mask, H),
         NEW n \in Nat, n > 0, n <= h.nblock[c] - c
  PROVE  Made(h, UmmTake(h, c, n), H, 0, c, c + n)
<1>0. LinksOK(h, H) /\ h \in UmmHeapType
  BY LinksFacts DEF HeapOK
<1>1. /\ c \in H /\ c # 0 /\ c # UmmLast /\ h.mask[c] /\ c \in UmmBlockNos /\ c \in Nat
      /\ h.nblock[c] \in Nat /\ h.nblock[c] <= UmmLast
  BY <1>0, FreeFacts
<1>2. PICK y \in Int : y = h.free_blocks - n
  BY <1>0, HeapFields
<1>3. PICK k : k = [h EXCEPT !.free_blocks = @ - n]
  OBVIOUS
<1>4. k = [h EXCEPT !.free_blocks = y]
  BY <1>2, <1>3
<1>5. /\ LinksOK(k, H) /\ k \in UmmHeapType
      /\ k.nblock = h.nblock /\ k.pblock = h.pblock /\ k.mask = h.mask
      /\ k.nfree = h.nfree /\ k.pfree = h.pfree /\ k.data = h.data
      /\ k.free_blocks = y
  BY <1>0, <1>4, CountField
<1>6. PICK g : g = UmmTake(h, c, n)
  OBVIOUS
<1>7. PICK m \in UmmBlockNos : m = c + n /\ m \in Nat
  BY <1>1, BlockNos
<1>8. PICK G \in SUBSET UmmBlockNos :
         /\ LinksOK(g, G) /\ Useds(g.mask, G) = Useds(h.mask, H) \cup {c}
         /\ \A a \in Useds(h.mask, H) : g.nblock[a] = h.nblock[a]
         /\ g.nblock[c] = m /\ g.free_blocks = y
         /\ \A i \in UmmBlockNos : i \notin Frees(h.mask, H) \cup {0} /\ (h.nblock[c] > m => i # m)
               => g.data[i] = h.data[i]
  <2>1. CASE UmmSize(h, c) = n
    <3>1. g = UmmDisconnect(k, c)
      BY <1>3, <1>6, <2>1 DEF UmmTake
    <3>2. Outcome(k, g, H, c)
      BY <1>5, <3>1, DisconnectOK
    <3>3. h.nblock[c] = m
      BY <1>1, <1>7, <2>1 DEF UmmSize
    <3> QED BY <1>5, <3>2, <3>3 DEF Outcome
  <2>2. CASE UmmSize(h, c) # n
    <3>1. m < h.nblock[c]
      BY <1>1, <1>7, <2>2 DEF UmmSize
    <3>2. g = TakeRest(k, c, n)
      BY <1>3, <1>5, <1>6, <2>2 DEF UmmTake, TakeRest
    <3>3. Rested(k, g, H, c, m)
      BY <1>5, <1>7, <3>1, <3>2, TakeRestOK
    <3>4. H \cup {m} \in SUBSET UmmBlockNos
      OBVIOUS
    <3>5. PICK G : G = H \cup {m}
      OBVIOUS
    <3>6. LinksOK(g, G) /\ G \in SUBSET UmmBlockNos
      BY <3>3, <3>4, <3>5 DEF Rested
    <3>7. Useds(g.mask, G) = Useds(h.mask, H) \cup {c}
      BY <1>5, <3>3, <3>5 DEF Rested
    <3>8. \A a \in Useds(h.mask, H) : g.nblock[a] = h.nblock[a]
      BY <1>5, <3>3 DEF Rested
    <3>9. g.nblock[c] = m /\ g.free_blocks = y
      BY <1>5, <3>3 DEF Rested
    <3>10. \A i \in UmmBlockNos : i \notin Frees(h.mask, H) \cup {0} /\ i # m
              => g.data[i] = h.data[i]
      BY <1>5, <3>3 DEF Rested
    <3>11. h.nblock[c] > m
      BY <1>1, <1>7, <3>1
    <3> QED BY <3>6, <3>7, <3>8, <3>9, <3>10, <3>11, Zenon
  <2> QED BY <2>1, <2>2
<1>9. c \notin Useds(h.mask, H) /\ 0 \notin Useds(h.mask, H)
  BY <1>1 DEF Useds
<1>10. HeapOK(g, G)
  <2>1. c \in Useds(g.mask, G) /\ Useds(g.mask, G) \ {c} = Useds(h.mask, H)
    BY <1>8, <1>9
  <2>2. h.free_blocks \in Int /\ m - c = n
    BY <1>0, <1>1, <1>7, HeapFields
  <2>3. g.free_blocks = h.free_blocks - (g.nblock[c] - c)
    BY <1>2, <1>8, <2>2
  <2> QED BY <1>8, <2>1, <2>3, CountTaken
<1>11. Changed(h, g, H, G, 0, {c})
  <2>1. (Useds(h.mask, H) \ {0}) \cup {c} = Useds(h.mask, H) \cup {c}
    BY <1>9
  <2> QED BY <1>8, <1>10, <2>1 DEF Changed
<1>12. Undisturbed(h, g, H, 0, 0)
  <2> SUFFICES ASSUME NEW i \in UsedCells(h.nblock, Useds(h.mask, H)) PROVE g.data[i] = h.data[i]
    BY DEF Undisturbed
  <2>1. i \in UmmBlockNos
    BY DEF UsedCells
  <2>2. i \notin Frees(h.mask, H) \cup {0}
    BY <1>0, LinkNotUsed
  <2>3. h.nblock[c] > m => i # m
    <3>1. h.nblock[c] > m => m \notin UsedCells(h.nblock, Useds(h.mask, H))
      <4>1. c <= m
        BY <1>1, <1>7
      <4>2. h.nblock[c] > m => m < h.nblock[c]
        BY <1>1, <1>7
      <4> QED BY <1>0, <1>7, <4>1, <4>2, NotUsed
    <3> QED BY <3>1
  <2> QED BY <1>8, <2>1, <2>2, <2>3
<1> QED BY <1>6, <1>7, <1>8, <1>11, <1>12 DEF Made

-----------------------------------------------------------------------------

\* umm_split_block() of a block in use: both parts are in use.
Halved(h, s, H, c, m) ==
  /\ HeapOK(s, H \cup {m}) /\ m \notin H
  /\ Useds(s.mask, H \cup {m}) = Useds(h.mask, H) \cup {m}
  /\ \A a \in Useds(h.mask, H) \ {c} : s.nblock[a] = h.nblock[a]
  /\ s.nblock[c] = m /\ s.nblock[m] = h.nblock[c]
  /\ UsedCells(s.nblock, Useds(s.mask, H \cup {m})) = UsedCells(h.nblock, Useds(h.mask, H))
  /\ \A i \in UmmBlockNos : i # m => s.data[i] = h.data[i]

\* The heap stays sound, with one block in use more.
LEMMA HalveOK ==
  ASSUME NEW h, NEW H \in SUBSET UmmBlockNos, HeapOK(h, H), NEW c \in Useds(h.mask, H),
         NEW n \in Nat, n > 0, NEW m, m = c + n, m < h.nblock[c]
  PROVE  Halved(h, UmmSplitBlock(h, c, n, FALSE), H, c, m)
<1>0. LinksOK(h, H) /\ FreeCounted(h, H)
  BY DEF HeapOK
<1>1. /\ h \in UmmHeapType /\ Headers(h.nblock, h.pblock, H)
      /\ FreeRing(h.nfree, h.pfree, Frees(h.mask, H))
      /\ ~h.mask[0] /\ ~h.mask[UmmLast]
      /\ \A i \in H : i # UmmLast /\ h.mask[i] => ~h.mask[h.nblock[i]]
  BY <1>0, LinksFacts
<1>2. /\ c \in H /\ c # 0 /\ c # UmmLast /\ ~h.mask[c] /\ c \in Nat /\ c \in UmmBlockNos
      /\ h.nblock[c] \in H /\ h.nblock[c] \in Nat /\ h.nblock[c] \in UmmBlockNos
      /\ c < h.nblock[c] /\ h.nblock[c] <= UmmLast
  BY <1>0, UsedFacts
<1>3. m \in UmmBlockNos /\ m # 0 /\ m # UmmLast /\ c < m /\ m # c /\ m \in Nat
  BY <1>2, BlockNos
<1>4. PICK s : s = UmmSplitBlock(h, c, n, FALSE)
  OBVIOUS
<1>5. SplitDone(h, s, c, m, FALSE)
  BY <1>1, <1>2, <1>3, <1>4, SplitBlockIs
<1>6. /\ s \in UmmHeapType /\ s.nfree = h.nfree /\ s.pfree = h.pfree
      /\ s.free_blocks = h.free_blocks
      /\ SplitLinks(h.nblock, h.pblock, s.nblock, s.pblock, c, m)
  BY <1>5 DEF SplitDone
<1>7. /\ \A i \in UmmBlockNos : s.mask[i] <=> i # c /\ i # m /\ h.mask[i]
      /\ \A i \in UmmBlockNos : i # m => s.data[i] = h.data[i]
  BY <1>5 DEF SplitDone
<1>8. Headers(s.nblock, s.pblock, H \cup {m}) /\ m \notin H
  <2>1. SplitCase(h.nblock, h.pblock, s.nblock, s.pblock, H, c, m)
    BY <1>1, <1>2, <1>3, <1>6 DEF SplitCase
  <2>2. PICK na, pa, nz, pz : na = h.nblock /\ pa = h.pblock /\ nz = s.nblock /\ pz = s.pblock
    OBVIOUS
  <2>3. SplitCase(na, pa, nz, pz, H, c, m)
    BY <2>1, <2>2, Zenon
  <2>4. Headers(nz, pz, H \cup {m}) /\ m \notin H
    BY <2>3, HeadersSplit
  <2> QED BY <2>2, <2>4
<1>9. Frees(s.mask, H \cup {m}) = Frees(h.mask, H)
  <2>1. ASSUME NEW i \in UmmBlockNos
        PROVE  i \in Frees(s.mask, H \cup {m}) <=> i \in Frees(h.mask, H)
    BY <1>2, <1>3, <1>7, <1>8 DEF Frees
  <2>2. Frees(s.mask, H \cup {m}) \subseteq UmmBlockNos /\ Frees(h.mask, H) \subseteq UmmBlockNos
    BY <1>3 DEF Frees
  <2> QED BY <2>1, <2>2
<1>10. Useds(s.mask, H \cup {m}) = Useds(h.mask, H) \cup {m}
  <2>1. ASSUME NEW i \in UmmBlockNos
        PROVE  i \in Useds(s.mask, H \cup {m}) <=> i \in Useds(h.mask, H) \/ i = m
    BY <1>2, <1>3, <1>7, <1>8 DEF Useds
  <2>2. Useds(s.mask, H \cup {m}) \subseteq UmmBlockNos /\ Useds(h.mask, H) \subseteq UmmBlockNos
    BY <1>3 DEF Useds
  <2> QED BY <1>3, <2>1, <2>2
<1>11. /\ s.nblock[c] = m /\ s.nblock[m] = h.nblock[c]
       /\ \A i \in H : i # c => s.nblock[i] = h.nblock[i]
  BY <1>2, <1>3, <1>6, <1>8 DEF SplitLinks
<1>12. Masked(s.mask, s.nblock, H \cup {m})
  <2>1. ~s.mask[0] /\ ~s.mask[UmmLast]
    BY <1>1, <1>7, BlockNos
  <2>2. ASSUME NEW i \in H \cup {m}, i # UmmLast, s.mask[i] PROVE ~s.mask[s.nblock[i]]
    <3>1. i # c /\ i # m /\ i \in H /\ h.mask[i]
      BY <1>3, <1>7, <2>2
    <3>2. ~h.mask[h.nblock[i]] /\ h.nblock[i] \in UmmBlockNos /\ s.nblock[i] = h.nblock[i]
      BY <1>1, <1>11, <2>2, <3>1, HeapFields
    <3> QED BY <1>7, <3>2
  <2> QED BY <2>1, <2>2 DEF Masked
<1>13. LinksOK(s, H \cup {m})
  BY <1>1, <1>6, <1>8, <1>9, <1>12 DEF LinksOK
<1>14. PICK U : U = Useds(h.mask, H)
  OBVIOUS
<1>15. U \subseteq H /\ c \in U /\ m \notin U
  BY <1>8, <1>14 DEF Useds
<1>16. UsedCells(s.nblock, U \cup {m}) = UsedCells(h.nblock, U)
  <2>1. ASSUME NEW i \in UmmBlockNos, NEW a \in U \cup {m}, a <= i, i < s.nblock[a]
        PROVE  \E b \in U : b <= i /\ i < h.nblock[b]
    <3>1. CASE a = c
      BY <1>2, <1>3, <1>11, <1>15, <2>1, <3>1, BlockNos
    <3>2. CASE a = m
      BY <1>2, <1>3, <1>11, <1>15, <2>1, <3>2, BlockNos
    <3>3. CASE a # c /\ a # m
      BY <1>11, <1>15, <2>1, <3>3
    <3> QED BY <3>1, <3>2, <3>3
  <2>2. ASSUME NEW i \in UmmBlockNos, NEW a \in U, a <= i, i < h.nblock[a]
        PROVE  \E b \in U \cup {m} : b <= i /\ i < s.nblock[b]
    <3>1. CASE a = c /\ i < m
      BY <1>2, <1>3, <1>11, <1>15, <2>2, <3>1, BlockNos
    <3>2. CASE a = c /\ ~(i < m)
      <4>1. m <= i
        BY <1>3, <3>2, BlockNos
      <4> QED BY <1>2, <1>3, <1>11, <1>15, <2>2, <3>2, <4>1, BlockNos
    <3>3. CASE a # c
      BY <1>11, <1>15, <2>2, <3>3
    <3> QED BY <3>1, <3>2, <3>3
  <2> QED BY <2>1, <2>2 DEF UsedCells
<1>17. HeapOK(s, H \cup {m})
  BY <1>0, <1>6, <1>10, <1>13, <1>14, <1>16 DEF HeapOK, FreeCounted
<1> QED BY <1>4, <1>7, <1>8, <1>10, <1>11, <1>14, <1>15, <1>16, <1>17 DEF Halved

\* The end of umm_realloc(): the block c keeps n of its blocks.
Trimmed(h, g, H, c, n, z) ==
  \E G \in SUBSET UmmBlockNos :
     /\ Changed(h, g, H, G, c, {c}) /\ Undisturbed(h, g, H, c + n, c + z)
     /\ g.nblock[c] = c + n

\* The heap stays sound, and the data stays but for what is cut off.
LEMMA TrimOK ==
  ASSUME NEW h, NEW H \in SUBSET UmmBlockNos, HeapOK(h, H), NEW c \in Useds(h.mask, H),
         NEW n \in Nat, n > 0, NEW z \in Nat, h.nblock[c] = c + z, n <= z
  PROVE  Trimmed(h, UmmTrim(h, c, z, n), H, c, n, z)
<1>0. LinksOK(h, H)
  BY DEF HeapOK
<1>1. c \in Nat /\ c \in H
  BY <1>0, UsedFacts
<1>2. CASE z = n
  <2>1. UmmTrim(h, c, z, n) = h
    <3>1. ~(z > n)
      BY <1>2
    <3> QED BY <3>1 DEF UmmTrim
  <2>2. Useds(h.mask, H) = (Useds(h.mask, H) \ {c}) \cup {c}
    OBVIOUS
  <2>3. Changed(h, h, H, H, c, {c}) /\ Undisturbed(h, h, H, c + n, c + z)
    BY <2>2 DEF Changed, Undisturbed
  <2> QED BY <1>2, <2>1, <2>3 DEF Trimmed
<1>3. CASE z # n
  <2>1. z > n
    BY <1>3
  <2>2. PICK m : m = c + n
    OBVIOUS
  <2>3. PICK s : s = UmmSplitBlock(h, c, n, FALSE)
    OBVIOUS
  <2>4. m < h.nblock[c] /\ c < m /\ m \in Nat
    BY <1>1, <2>1, <2>2
  <2>5. Halved(h, s, H, c, m)
    BY <2>2, <2>3, <2>4, HalveOK
  <2>6. PICK g : g = UmmFreeCore(s, m)
    OBVIOUS
  <2>7. g = UmmTrim(h, c, z, n)
    BY <2>1, <2>2, <2>3, <2>6 DEF UmmTrim
  <2>8. /\ HeapOK(s, H \cup {m}) /\ m \notin H
        /\ Useds(s.mask, H \cup {m}) = Useds(h.mask, H) \cup {m}
        /\ \A a \in Useds(h.mask, H) \ {c} : s.nblock[a] = h.nblock[a]
        /\ s.nblock[c] = m /\ s.nblock[m] = h.nblock[c]
    BY <2>5 DEF Halved
  <2>9. /\ UsedCells(s.nblock, Useds(s.mask, H \cup {m})) = UsedCells(h.nblock, Useds(h.mask, H))
        /\ \A i \in UmmBlockNos : i # m => s.data[i] = h.data[i]
    BY <2>5 DEF Halved
  <2>10. m \in Useds(s.mask, H \cup {m}) /\ m \notin Useds(h.mask, H)
    BY <2>8 DEF Useds
  <2>11. H \cup {m} \in SUBSET UmmBlockNos
    <3>1. LinksOK(s, H \cup {m})
      BY <2>8 DEF HeapOK
    <3> QED BY <3>1, LinksFacts, HeaderFacts
  <2>12. PICK G \in SUBSET UmmBlockNos :
            Changed(s, g, H \cup {m}, G, m, {}) /\ Undisturbed(s, g, H \cup {m}, m, s.nblock[m])
    BY <2>6, <2>8, <2>10, <2>11, FreeCoreOK
  <2>13. /\ HeapOK(g, G)
         /\ Useds(g.mask, G) = (Useds(s.mask, H \cup {m}) \ {m}) \cup {}
         /\ \A a \in Useds(s.mask, H \cup {m}) \ {m} : g.nblock[a] = s.nblock[a]
    BY <2>12 DEF Changed
  <2>14. Useds(g.mask, G) = Useds(h.mask, H)
    <3>1. PICK A, B, C : A = Useds(g.mask, G) /\ B = Useds(h.mask, H) /\ C = Useds(s.mask, H \cup {m})
      OBVIOUS
    <3>2. A = (C \ {m}) \cup {} /\ C = B \cup {m} /\ m \notin B
      BY <2>8, <2>10, <2>13, <3>1, Zenon
    <3>3. A = B
      BY <3>2
    <3> QED BY <3>1, <3>3
  <2>15. \A a \in Useds(h.mask, H) : g.nblock[a] = s.nblock[a]
    BY <2>8, <2>10, <2>13
  <2>16. Changed(h, g, H, G, c, {c})
    BY <2>8, <2>13, <2>14, <2>15 DEF Changed
  <2>17. g.nblock[c] = m
    BY <2>8, <2>15
  <2>18. Undisturbed(h, g, H, m, c + z)
    <3> SUFFICES ASSUME NEW i \in UsedCells(h.nblock, Useds(h.mask, H)), i < m \/ i >= c + z
                 PROVE  g.data[i] = h.data[i]
      BY DEF Undisturbed
    <3>1. i \in UmmBlockNos /\ i \in Nat
      BY BlockNos DEF UsedCells
    <3>2. i # m /\ (i < m \/ i >= s.nblock[m])
      BY <1>1, <2>4, <2>8, <3>1
    <3>3. g.data[i] = s.data[i]
      BY <2>9, <2>12, <3>2 DEF Undisturbed
    <3> QED BY <2>9, <3>1, <3>2, <3>3
  <2> QED BY <2>2, <2>7, <2>16, <2>17, <2>18 DEF Trimmed
<1> QED BY <1>2, <1>3

-----------------------------------------------------------------------------
(* Heap: the walk of the free list                                         *)

\* The states of the loop of umm_malloc_core(), turn by turn.
Walks(w, h, n) ==
  w = [i \in 0..n |-> IF i = 0 THEN <<>> ELSE UmmWalk(h, w[i - 1])]

\* There is such a walk: it is defined turn by turn.
LEMMA WalksExist ==
  ASSUME NEW h, NEW n \in Nat
  PROVE  \E w : Walks(w, h, n)
<1> DEFINE T == {k \in Nat : ~ \E w : Walks(w, h, k)}
<1> SUFFICES ASSUME T # {} PROVE FALSE
  OBVIOUS
<1>1. PICK k \in T : \A y \in T : k <= y
  BY LeastNat
<1>2. k \in Nat /\ ~ \E w : Walks(w, h, k)
  OBVIOUS
<1>3. CASE k = 0
  <2> DEFINE w == [i \in 0..0 |-> <<>>]
  <2>1. Walks(w, h, 0)
    BY DEF Walks
  <2> QED BY <1>2, <1>3, <2>1
<1>4. CASE k # 0
  <2>1. k - 1 \in Nat /\ k - 1 \notin T
    BY <1>1, <1>2, <1>4
  <2>2. PICK w : Walks(w, h, k - 1)
    BY <2>1
  <2> DEFINE v == [i \in 0..k |-> IF i = k THEN UmmWalk(h, w[k - 1]) ELSE w[i]]
  <2>3. ASSUME NEW i \in 0..k
        PROVE  v[i] = IF i = 0 THEN <<>> ELSE UmmWalk(h, v[i - 1])
    <3>1. CASE i = k
      <4>1. k - 1 \in 0..k /\ k - 1 # k
        BY <1>2, <2>1
      <4> QED BY <1>4, <3>1, <4>1
    <3>2. CASE i # k
      <4>1. i \in 0..(k - 1) /\ (i # 0 => i - 1 \in 0..k /\ i - 1 # k)
        BY <1>2, <3>2
      <4>2. w[i] = IF i = 0 THEN <<>> ELSE UmmWalk(h, w[i - 1])
        BY <2>2, <4>1 DEF Walks
      <4> QED BY <3>2, <4>1, <4>2
    <3> QED BY <3>1, <3>2
  <2>4. Walks(v, h, k)
    BY <2>3 DEF Walks
  <2> QED BY <1>2, <2>4
<1> QED BY <1>3, <1>4

\* The free list is where it ends.
LEMMA FreeListWalk ==
  ASSUME NEW h
  PROVE  \E w : Walks(w, h, UmmLast) /\ UmmFreeList(h) = w[UmmLast]
<1>1. \E w : Walks(w, h, UmmLast)
  BY WalksExist, BlockNos
<1> QED BY <1>1, Zenon DEF Walks, UmmFreeList

\* The blocks of s are the first ones of the list.
Start(nf, F, s) ==
  /\ s \in Seq(F)
  /\ \A x, y \in 1..Len(s) : s[x] = s[y] => x = y
  /\ Len(s) > 0 => s[1] = nf[0]
  /\ \A x \in 1..Len(s) : x < Len(s) => s[x + 1] = nf[s[x]]

\* One turn: it adds the next one, or there is none.
LEMMA StartGrows ==
  ASSUME NEW h, NEW F, FreeRing(h.nfree, h.pfree, F), NEW s, Start(h.nfree, F, s)
  PROVE  /\ Start(h.nfree, F, UmmWalk(h, s))
         /\ \/ Len(UmmWalk(h, s)) = Len(s) + 1
            \/ UmmWalk(h, s) = s /\ h.nfree[IF s = <<>> THEN 0 ELSE s[Len(s)]] = 0
<1>1. PICK nf, pf : nf = h.nfree /\ pf = h.pfree
  OBVIOUS
<1>2. /\ 0 \notin F
      /\ \A i \in F \cup {0} : nf[i] \in F \cup {0} /\ pf[nf[i]] = i
  BY <1>1, RingLinks
<1>3. /\ s \in Seq(F)
      /\ \A x, y \in 1..Len(s) : s[x] = s[y] => x = y
      /\ Len(s) > 0 => s[1] = nf[0]
      /\ \A x \in 1..Len(s) : x < Len(s) => s[x + 1] = nf[s[x]]
  BY <1>1 DEF Start
<1>4. PICK l : l = IF s = <<>> THEN 0 ELSE s[Len(s)]
  OBVIOUS
<1>5. PICK n : n = nf[l]
  OBVIOUS
<1>6. PICK k \in Nat : k = Len(s) /\ (s = <<>> <=> k = 0)
  BY <1>3
<1>7. \A x \in 1..k : s[x] \in F
  BY <1>3, <1>6
<1>8. l \in F \cup {0} /\ (k # 0 => l = s[k])
  BY <1>3, <1>4, <1>6, <1>7
<1>9. CASE n = 0
  <2>1. UmmWalk(h, s) = s
    BY <1>1, <1>4, <1>5, <1>9 DEF UmmWalk
  <2> QED BY <1>1, <1>4, <1>5, <1>9, <2>1
<1>10. CASE n # 0
  <2>1. PICK t : t = Append(s, n)
    OBVIOUS
  <2>2. UmmWalk(h, s) = t
    BY <1>1, <1>4, <1>5, <1>10, <2>1 DEF UmmWalk
  <2>3. n \in F /\ pf[n] = l
    BY <1>2, <1>5, <1>8, <1>10
  <2>4. /\ t \in Seq(F) /\ Len(t) = k + 1 /\ t[k + 1] = n
        /\ \A x \in 1..k : t[x] = s[x]
    BY <1>3, <1>6, <2>1, <2>3
  <2>5. \A x \in 1..k : s[x] # n
    <3> SUFFICES ASSUME NEW x \in 1..k, s[x] = n PROVE FALSE
      OBVIOUS
    <3>1. CASE x = 1
      <4>1. pf[n] = 0
        BY <1>2, <1>3, <1>6, <3>1
      <4>2. l = s[k] /\ s[k] \in F
        BY <1>7, <1>8
      <4> QED BY <1>2, <2>3, <4>1, <4>2
    <3>2. CASE x # 1
      <4>1. x - 1 \in 1..k /\ x - 1 < k /\ (x - 1) + 1 = x /\ k \in 1..k /\ x - 1 # k
        BY <3>2
      <4>2. s[x] = nf[s[x - 1]]
        BY <1>3, <1>6, <4>1
      <4>3. s[x - 1] \in F
        BY <1>7, <4>1
      <4>4. pf[n] = s[x - 1]
        BY <1>2, <4>2, <4>3
      <4>5. s[x - 1] = s[k]
        BY <1>8, <2>3, <4>1, <4>4
      <4> QED BY <1>3, <1>6, <4>1, <4>5
    <3> QED BY <3>1, <3>2
  <2>6. \A x, y \in 1..Len(t) : t[x] = t[y] => x = y
    <3> SUFFICES ASSUME NEW x \in 1..(k + 1), NEW y \in 1..(k + 1), t[x] = t[y] PROVE x = y
      BY <2>4
    <3>1. \A z \in 1..(k + 1) : z \in 1..k \/ z = k + 1
      BY <1>6
    <3>2. CASE x \in 1..k /\ y \in 1..k
      BY <1>3, <1>6, <2>4, <3>2
    <3>3. CASE x \in 1..k /\ y = k + 1
      BY <2>4, <2>5, <3>3
    <3>4. CASE x = k + 1 /\ y \in 1..k
      BY <2>4, <2>5, <3>4
    <3>5. CASE x = k + 1 /\ y = k + 1
      BY <3>5
    <3> QED BY <3>1, <3>2, <3>3, <3>4, <3>5
  <2>7. t[1] = nf[0]
    <3>1. CASE k = 0
      BY <1>5, <1>4, <1>6, <2>4, <3>1
    <3>2. CASE k # 0
      <4>1. 1 \in 1..k
        BY <3>2
      <4> QED BY <1>3, <1>6, <2>4, <4>1
    <3> QED BY <3>1, <3>2
  <2>8. \A x \in 1..Len(t) : x < Len(t) => t[x + 1] = nf[t[x]]
    <3> SUFFICES ASSUME NEW x \in 1..(k + 1), x < k + 1 PROVE t[x + 1] = nf[t[x]]
      BY <2>4
    <3>1. x \in 1..k
      OBVIOUS
    <3>2. CASE x = k
      BY <1>5, <1>8, <2>4, <3>1, <3>2
    <3>3. CASE x # k
      <4>1. x + 1 \in 1..k /\ x < k
        BY <3>1, <3>3
      <4> QED BY <1>3, <1>6, <2>4, <3>1, <4>1
    <3> QED BY <3>2, <3>3
  <2>9. Start(nf, F, t)
    BY <2>4, <2>6, <2>7, <2>8 DEF Start
  <2> QED BY <1>1, <1>6, <2>2, <2>4, <2>9
<1> QED BY <1>9, <1>10

\* After i turns the list is i long or complete.
LEMMA WalkAfter ==
  ASSUME NEW h, NEW F, FreeRing(h.nfree, h.pfree, F), NEW w, NEW n \in Nat, Walks(w, h, n),
         NEW i \in 0..n
  PROVE  /\ Start(h.nfree, F, w[i])
         /\ Len(w[i]) = i \/ h.nfree[IF w[i] = <<>> THEN 0 ELSE w[i][Len(w[i])]] = 0
<1> DEFINE Ok(k) == /\ Start(h.nfree, F, w[k])
                    /\ Len(w[k]) = k \/ h.nfree[IF w[k] = <<>> THEN 0 ELSE w[k][Len(w[k])]] = 0
           T == {k \in 0..n : ~Ok(k)}
<1> SUFFICES ASSUME T # {} PROVE FALSE
  OBVIOUS
<1>0. T \in SUBSET Nat
  OBVIOUS
<1>1. PICK k \in T : \A y \in T : k <= y
  <2> HIDE DEF T
  <2> QED BY <1>0, LeastNat
<1>2. k \in 0..n /\ ~Ok(k)
  OBVIOUS
<1>3. w[k] = IF k = 0 THEN <<>> ELSE UmmWalk(h, w[k - 1])
  BY <1>2 DEF Walks
<1>4. CASE k = 0
  <2>1. w[k] = <<>> /\ Len(w[k]) = 0
    BY <1>3, <1>4
  <2>2. Start(h.nfree, F, <<>>)
    BY DEF Start
  <2> QED BY <1>2, <1>4, <2>1, <2>2
<1>5. CASE k # 0
  <2>1. k - 1 \in 0..n /\ k - 1 \notin T /\ k = (k - 1) + 1
    BY <1>1, <1>2, <1>5
  <2>2. Ok(k - 1)
    BY <2>1
  <2>3. PICK s, t : s = w[k - 1] /\ t = w[k]
    OBVIOUS
  <2>4. t = UmmWalk(h, s)
    BY <1>3, <1>5, <2>3
  <2>5. /\ Start(h.nfree, F, s)
        /\ Len(s) = k - 1 \/ h.nfree[IF s = <<>> THEN 0 ELSE s[Len(s)]] = 0
    BY <2>2, <2>3
  <2>6. /\ Start(h.nfree, F, t)
        /\ Len(t) = Len(s) + 1 \/ (t = s /\ h.nfree[IF s = <<>> THEN 0 ELSE s[Len(s)]] = 0)
    BY <2>4, <2>5, StartGrows
  <2>7. CASE t = s /\ h.nfree[IF s = <<>> THEN 0 ELSE s[Len(s)]] = 0
    BY <1>2, <2>3, <2>6, <2>7
  <2>8. CASE Len(t) = Len(s) + 1
    <3>1. CASE Len(s) = k - 1
      BY <1>2, <2>1, <2>3, <2>6, <2>8, <3>1
    <3>2. CASE h.nfree[IF s = <<>> THEN 0 ELSE s[Len(s)]] = 0
      <4>1. UmmWalk(h, s) = s
        BY <3>2 DEF UmmWalk
      <4> QED BY <1>2, <2>3, <2>4, <2>6, <3>2, <4>1
    <3> QED BY <2>5, <3>1, <3>2
  <2> QED BY <2>6, <2>7, <2>8
<1> QED BY <1>4, <1>5

\* The walk finds the free blocks, each of them once.
Listed(h, F, s) ==
  /\ s \in Seq(F) /\ ToSet(s) = F /\ Len(s) = Cardinality(F)
  /\ \A f \in F : \E x \in 1..Len(s) : s[x] = f

\* The free list, as umm_malloc_core() sees it.
LEMMA FreeListIs ==
  ASSUME NEW h, NEW H, LinksOK(h, H)
  PROVE  Listed(h, Frees(h.mask, H), UmmFreeList(h))
<1>1. PICK F : F = Frees(h.mask, H)
  OBVIOUS
<1>2. FreeRing(h.nfree, h.pfree, F)
  BY <1>1, LinksFacts
<1>3. PICK w : Walks(w, h, UmmLast) /\ UmmFreeList(h) = w[UmmLast]
  BY FreeListWalk
<1>4. PICK s : s = w[UmmLast]
  OBVIOUS
<1>5. UmmLast \in Nat /\ UmmLast \in 0..UmmLast
  BY BlockNos
<1>6. /\ Start(h.nfree, F, s)
      /\ Len(s) = UmmLast \/ h.nfree[IF s = <<>> THEN 0 ELSE s[Len(s)]] = 0
  BY <1>2, <1>3, <1>4, <1>5, WalkAfter
<1>7. /\ s \in Seq(F) /\ Len(s) \in Nat
      /\ \A x, y \in 1..Len(s) : s[x] = s[y] => x = y
      /\ Len(s) > 0 => s[1] = h.nfree[0]
      /\ \A x \in 1..Len(s) : x < Len(s) => s[x + 1] = h.nfree[s[x]]
  BY <1>6 DEF Start
<1>8. PICK k \in Nat : k = Len(s)
  BY <1>7
<1>9. s \in [1..k -> F] /\ (s = <<>> <=> k = 0)
  BY <1>7, <1>8
<1>10. F \subseteq 1..(UmmLast - 1)
  <2>1. \A f \in F : f \in Nat /\ f # 0 /\ f # UmmLast /\ f <= UmmLast
    <3> SUFFICES ASSUME NEW f \in Frees(h.mask, H)
                 PROVE  f \in Nat /\ f # 0 /\ f # UmmLast /\ f <= UmmLast
      BY <1>1
    <3>1. f \in Nat /\ f # 0 /\ f # UmmLast /\ f \in UmmBlockNos
      BY FreeFacts
    <3> QED BY <3>1, BlockNos
  <2> QED BY <1>5, <2>1
<1>11. IsFiniteSet(F) /\ IsFiniteSet(1..(UmmLast - 1)) /\ Cardinality(F) <= UmmLast - 1
       /\ Cardinality(F) \in Nat
  <2>1. 1 \in Int /\ UmmLast - 1 \in Int /\ ~(1 > UmmLast - 1)
    BY BlockNos
  <2>2. IsFiniteSet(1..(UmmLast - 1)) /\ Cardinality(1..(UmmLast - 1)) = (UmmLast - 1) - 1 + 1
    BY <2>1, FS_Interval
  <2>3. IsFiniteSet(F) /\ Cardinality(F) <= Cardinality(1..(UmmLast - 1))
    BY <1>10, <2>2, FS_Subset
  <2> QED BY <1>5, <2>2, <2>3, FS_CardinalityType
<1>12. IsFiniteSet(1..k) /\ Cardinality(1..k) = k
  <2>1. CASE k = 0
    <3>1. 1..k = {}
      BY <2>1
    <3> QED BY <2>1, <3>1, FS_EmptySet
  <2>2. CASE k # 0
    <3>1. 1 \in Int /\ k \in Int /\ ~(1 > k)
      BY <2>2
    <3>2. IsFiniteSet(1..k) /\ Cardinality(1..k) = k - 1 + 1
      BY <3>1, FS_Interval
    <3> QED BY <3>2
  <2> QED BY <2>1, <2>2
<1>13. k # UmmLast
  <2> SUFFICES ASSUME k = UmmLast PROVE FALSE
    OBVIOUS
  <2>1. Cardinality(F) < Cardinality(1..k)
    BY <1>5, <1>11, <1>12
  <2>2. \E x, y \in 1..k : x # y /\ s[x] = s[y]
    BY <1>9, <1>11, <1>12, <2>1, FS_PigeonHole
  <2> QED BY <1>7, <1>8, <2>2
<1>14. h.nfree[IF k = 0 THEN 0 ELSE s[k]] = 0
  BY <1>6, <1>8, <1>9, <1>13
<1>15. PICK R : R = {0} \cup {s[x] : x \in 1..k}
  OBVIOUS
<1>16. R \in SUBSET (F \cup {0}) /\ 0 \in R
  BY <1>9, <1>15
<1>17. \A i \in R : h.nfree[i] \in R
  <2> SUFFICES ASSUME NEW i \in R PROVE h.nfree[i] \in R
    OBVIOUS
  <2>1. CASE i = 0
    <3>1. CASE k = 0
      BY <1>14, <1>16, <2>1, <3>1
    <3>2. CASE k # 0
      <4>1. 1 \in 1..k /\ Len(s) > 0
        BY <1>8, <3>2
      <4>2. s[1] = h.nfree[0]
        BY <1>7, <4>1
      <4> QED BY <1>15, <2>1, <4>1, <4>2
    <3> QED BY <3>1, <3>2
  <2>2. CASE i # 0
    <3>1. PICK x \in 1..k : i = s[x]
      BY <1>15, <2>2
    <3>2. CASE x = k
      <4>1. k # 0
        BY <3>1
      <4> QED BY <1>14, <1>16, <3>1, <3>2, <4>1
    <3>3. CASE x # k
      <4>1. x < k /\ x + 1 \in 1..k
        BY <3>3
      <4>2. s[x + 1] = h.nfree[s[x]]
        BY <1>7, <1>8, <4>1
      <4> QED BY <1>15, <3>1, <4>1, <4>2
    <3> QED BY <3>2, <3>3
  <2> QED BY <2>1, <2>2
<1>18. R = F \cup {0}
  BY <1>2, <1>16, <1>17, RingAll
<1>19. \A f \in F : \E x \in 1..k : s[x] = f
  <2>1. 0 \notin F
    BY <1>2, RingLinks
  <2> QED BY <1>15, <1>18, <2>1
<1>20. ToSet(s) = F
  <2>1. DOMAIN s = 1..k
    BY <1>9
  <2> QED BY <1>9, <1>19, <2>1 DEF ToSet
<1>21. Cardinality(F) = k
  <2>1. s \in Surjection(1..k, F)
    BY <1>9, <1>19 DEF Surjection
  <2>2. s \in Injection(1..k, F)
    BY <1>7, <1>8, <1>9 DEF Injection, IsInjective
  <2> QED BY <1>12, <2>1, <2>2, FS_Surjection
<1>22. Listed(h, F, s)
  BY <1>7, <1>8, <1>19, <1>20, <1>21 DEF Listed
<1> QED BY <1>1, <1>3, <1>4, <1>22

\* What umm_malloc_core() chooses.
LEMMA BestFitIs ==
  ASSUME NEW h, NEW H, LinksOK(h, H), NEW n \in Nat
  PROVE  \/ /\ UmmBestFit(h, n) = 0
            /\ \A f \in Frees(h.mask, H) : h.nblock[f] - f < n
         \/ /\ UmmBestFit(h, n) \in Frees(h.mask, H) /\ UmmBestFit(h, n) # 0
            /\ n <= h.nblock[UmmBestFit(h, n)] - UmmBestFit(h, n)
<1>1. PICK F, s : F = Frees(h.mask, H) /\ s = UmmFreeList(h)
  OBVIOUS
<1>2. s \in Seq(F) /\ \A f \in F : \E x \in 1..Len(s) : s[x] = f
  <2>1. Listed(h, F, s)
    BY <1>1, FreeListIs
  <2> QED BY <2>1 DEF Listed
<1>3. \A f \in F : f \in Nat /\ h.nblock[f] \in Nat /\ f < h.nblock[f] /\ f # 0
  <2> SUFFICES ASSUME NEW f \in Frees(h.mask, H)
               PROVE  f \in Nat /\ h.nblock[f] \in Nat /\ f < h.nblock[f] /\ f # 0
    BY <1>1
  <2> QED BY FreeFacts
<1>4. \A x \in 1..Len(s) : s[x] \in F /\ UmmSize(h, s[x]) \in Nat
  <2>1. \A x \in 1..Len(s) : s[x] \in F
    BY <1>2
  <2> QED BY <1>3, <2>1 DEF UmmSize
<1>5. PICK fits : fits = {i \in DOMAIN s : UmmSize(h, s[i]) >= n}
  OBVIOUS
<1>6. DOMAIN s = 1..Len(s) /\ Len(s) \in Nat
  BY <1>2
<1>7. PICK best : best = Min({UmmSize(h, s[i]) : i \in fits})
  OBVIOUS
<1>8. PICK r : r = UmmBestFit(h, n)
  OBVIOUS
<1>9. r = IF fits = {} THEN 0 ELSE s[Min({i \in fits : UmmSize(h, s[i]) = best})]
  BY <1>1, <1>5, <1>7, <1>8 DEF UmmBestFit
<1>10. CASE fits = {}
  <2>1. \A f \in F : h.nblock[f] - f < n
    <3> SUFFICES ASSUME NEW f \in F PROVE h.nblock[f] - f < n
      OBVIOUS
    <3>1. PICK x \in 1..Len(s) : s[x] = f
      BY <1>2
    <3>2. ~(UmmSize(h, s[x]) >= n)
      BY <1>5, <1>6, <1>10
    <3> QED BY <1>3, <3>1, <3>2 DEF UmmSize
  <2> QED BY <1>1, <1>8, <1>9, <1>10, <2>1
<1>11. CASE fits # {}
  <2>1. PICK sizes : sizes = {UmmSize(h, s[i]) : i \in fits}
    OBVIOUS
  <2>2. sizes \in SUBSET Nat /\ sizes # {}
    BY <1>4, <1>5, <1>6, <1>11, <2>1
  <2>3. best \in sizes
    BY <1>7, <2>1, <2>2, MinNat
  <2>4. PICK picks : picks = {i \in fits : UmmSize(h, s[i]) = best}
    OBVIOUS
  <2>5. picks \in SUBSET Nat /\ picks # {}
    <3>1. \A i \in fits : i \in Nat
      BY <1>5, <1>6
    <3> QED BY <2>1, <2>3, <2>4, <3>1
  <2>6. Min(picks) \in picks
    BY <2>5, MinNat
  <2>7. PICK i \in fits : r = s[i]
    BY <1>9, <1>11, <2>4, <2>6
  <2>8. r \in F /\ n <= UmmSize(h, r)
    BY <1>4, <1>5, <1>6, <2>7
  <2> QED BY <1>1, <1>3, <1>8, <2>8 DEF UmmSize
<1> QED BY <1>10, <1>11

\* umm_blocks()
LEMMA BlocksIs ==
  ASSUME NEW b \in Nat
  PROVE  /\ UmmBlocks(b) \in Nat /\ UmmBlocks(b) > 0 /\ UmmBlocks(b) <= 32767
         /\ UmmBlocks(b) < 32767 => 8 * UmmBlocks(b) - 4 >= b
<1>1. CASE b <= 4
  <2>1. UmmBlocks(b) = 1
    BY <1>1 DEF UmmBlocks
  <2> QED BY <1>1, <2>1
<1>2. CASE b > 4
  <2>1. PICK q \in Nat : q = (b - 4 - 1) \div 8 /\ 8 * q <= b - 5 /\ b - 5 < 8 * (q + 1)
    <3>1. b - 5 \in Nat /\ b - 4 - 1 = b - 5
      BY <1>2
    <3> QED BY <3>1
  <2>2. UmmBlocks(b) = (IF 2 + q > 32767 THEN 32767 ELSE 2 + q) % 65536
    <3>1. ~(b <= 4)
      BY <1>2
    <3> QED BY <2>1, <3>1 DEF UmmBlocks
  <2>3. \A x \in Nat : x < 65536 => x % 65536 = x
    OBVIOUS
  <2>4. UmmBlocks(b) = IF 2 + q > 32767 THEN 32767 ELSE 2 + q
    BY <2>2, <2>3
  <2> QED BY <2>1, <2>4
<1> QED BY <1>1, <1>2

-----------------------------------------------------------------------------
(* Heap: pointers, the job and the blocks they own                         *)

\* The invariant, where the headers are H.
InvWith(h, P, j, H) ==
  /\ PtrsOK(P) /\ JobOK(P, j) /\ Kept(h, P, j)
  /\ HeapOK(h, H) /\ Owned(h, P, j, H)

\* What PtrsOK says of a pointer.
LEMMA PtrFacts ==
  ASSUME NEW P, PtrsOK(P), NEW p \in UmmPtrs
  PROVE  /\ P[p].c \in UmmBlockNos /\ P[p].c \in Nat /\ P[p].bytes \in Nat /\ P[p].keep \in Nat
         /\ P[p] \in [c : UmmBlockNos, bytes : Nat, keep : Nat]
         /\ UmmBlocks(P[p].bytes) \in Nat /\ UmmBlocks(P[p].bytes) > 0
         /\ P[p].c # 0 => /\ P[p].bytes \in UmmSizes /\ P[p].keep <= UmmBlocks(P[p].bytes)
                          /\ UmmBlocks(P[p].bytes) < 32767
<1>1. P[p] \in [c : UmmBlockNos, bytes : Nat, keep : Nat]
  BY DEF PtrsOK
<1>2. P[p].c \in UmmBlockNos /\ P[p].bytes \in Nat /\ P[p].keep \in Nat
  BY <1>1
<1>3. P[p].c \in Nat
  BY <1>2, BlockNos
<1>4. UmmBlocks(P[p].bytes) \in Nat /\ UmmBlocks(P[p].bytes) > 0
  BY <1>2, BlocksIs
<1>5. P[p].c # 0 => /\ P[p].bytes \in UmmSizes /\ P[p].keep <= UmmBlocks(P[p].bytes)
                    /\ UmmBlocks(P[p].bytes) < 32767
  BY DEF PtrsOK
<1> QED BY <1>1, <1>2, <1>3, <1>4, <1>5

\* The sizes.
LEMMA SizesNat == \A z \in UmmSizes : z \in Nat
BY UmmAssumption

\* What JobOK says, part by part.
LEMMA JobFacts ==
  ASSUME NEW P, NEW j, PtrsOK(P), JobOK(P, j)
  PROVE  /\ j.pc \in {"none", "entry", "copy", "exit"}
         /\ Copying(j) <=> j.pc \in {"copy", "exit"}
         /\ j.pc = "none" => j = UmmNoJob
         /\ j.pc # "none" =>
              /\ j \in UmmJobs /\ j.p \in UmmApp /\ j.p \in UmmPtrs /\ j.size \in UmmSizes
              /\ j.size \in Nat /\ j.moved \in BOOLEAN
              /\ j.c \in Nat /\ j.from \in Nat /\ j.blockSize \in Nat /\ j.cur \in Nat
              /\ P[j.p].c = j.from /\ j.from # 0 /\ j.cur = UmmBlocks(P[j.p].bytes)
              /\ j.cur > 0 /\ P[j.p].keep \in Nat /\ P[j.p].keep <= j.cur
              /\ UmmBlocks(j.size) \in Nat /\ UmmBlocks(j.size) > 0
         /\ j.pc = "entry" => j.c = j.from /\ j.blockSize = j.cur /\ ~j.moved
         /\ Copying(j) => /\ UmmBlocks(j.size) <= j.blockSize
                          /\ j.moved => j.cur <= j.blockSize /\ j.blockSize = UmmBlocks(j.size)
                          /\ ~j.moved => j.c <= j.from /\ j.from + j.cur <= j.c + j.blockSize
<1>1. CASE j = UmmNoJob
  <2>1. j.pc = "none"
    BY <1>1 DEF UmmNoJob
  <2> QED BY <1>1, <2>1 DEF Copying
<1>2. CASE j # UmmNoJob
  <2>1. /\ j \in UmmJobs
        /\ P[j.p].c = j.from /\ j.from # 0 /\ j.cur = UmmBlocks(P[j.p].bytes)
        /\ j.pc = "entry" => j.c = j.from /\ j.blockSize = j.cur /\ ~j.moved
        /\ Copying(j) =>
             /\ UmmBlocks(j.size) <= j.blockSize
             /\ j.moved => j.cur <= j.blockSize /\ j.blockSize = UmmBlocks(j.size)
             /\ ~j.moved => j.c <= j.from /\ j.from + j.cur <= j.c + j.blockSize
    BY <1>2 DEF JobOK
  <2>2. /\ j.pc \in {"entry", "copy", "exit"} /\ j.p \in UmmApp /\ j.size \in UmmSizes
        /\ j.c \in UmmBlockNos /\ j.from \in UmmBlockNos /\ j.blockSize \in Nat /\ j.cur \in Nat
        /\ j.moved \in BOOLEAN
    BY <2>1 DEF UmmJobs
  <2>3. j.c \in Nat /\ j.from \in Nat /\ j.p \in UmmPtrs /\ j.size \in Nat
    <3>1. j.size \in Nat
      BY <2>2, SizesNat
    <3>2. j.c \in Nat /\ j.from \in Nat
      BY <2>2, BlockNos
    <3> QED BY <2>2, <3>1, <3>2 DEF UmmPtrs
  <2>4. j.cur > 0 /\ P[j.p].keep \in Nat /\ P[j.p].keep <= j.cur
    BY <2>1, <2>3, PtrFacts
  <2>5. UmmBlocks(j.size) \in Nat /\ UmmBlocks(j.size) > 0
    BY <2>3, BlocksIs
  <2> QED BY <2>1, <2>2, <2>3, <2>4, <2>5 DEF Copying
<1> QED BY <1>1, <1>2

\* The block that the data of p is in.
HeadOf(P, j, p) ==
  IF Copying(j) /\ p = j.p /\ (~j.moved \/ j.pc = "exit") THEN j.c ELSE P[p].c

\* All of its data is there.
Placed(h, P, j, H, p) ==
  /\ HeadOf(P, j, p) \in Useds(h.mask, H)
  /\ DataAt(P, j, p) \in Nat
  /\ HeadOf(P, j, p) <= DataAt(P, j, p)
  /\ DataAt(P, j, p) + P[p].keep <= h.nblock[HeadOf(P, j, p)]

\* The data of a pointer is in a block in use.
LEMMA PlaceIs ==
  ASSUME NEW h, NEW P, NEW j, NEW H, InvWith(h, P, j, H), NEW p \in UmmPtrs, P[p].c # 0
  PROVE  Placed(h, P, j, H, p)
<1>1. PtrsOK(P) /\ JobOK(P, j) /\ Owned(h, P, j, H)
  BY DEF InvWith
<1>2. /\ P[p].c \in Nat /\ P[p].keep \in Nat /\ UmmBlocks(P[p].bytes) \in Nat
      /\ P[p].keep <= UmmBlocks(P[p].bytes)
  BY <1>1, PtrFacts
<1>3. CASE Copying(j) /\ p = j.p /\ (~j.moved \/ j.pc = "exit")
  <2>1. HeadOf(P, j, p) = j.c
    BY <1>3 DEF HeadOf
  <2>2. j.c \in Useds(h.mask, H) /\ h.nblock[j.c] = j.c + j.blockSize
    BY <1>1, <1>3 DEF Owned
  <2>3. j.pc # "none"
    BY <1>3 DEF Copying
  <2>4. /\ j.c \in Nat /\ j.from \in Nat /\ j.blockSize \in Nat /\ j.cur \in Nat
        /\ P[j.p].c = j.from /\ P[j.p].keep <= j.cur
        /\ j.moved => j.cur <= j.blockSize
        /\ ~j.moved => j.c <= j.from /\ j.from + j.cur <= j.c + j.blockSize
    BY <1>1, <1>3, <2>3, JobFacts
  <2>5. DataAt(P, j, p) = IF j.pc = "exit" THEN j.c ELSE j.from
    BY <1>3, <2>4 DEF DataAt
  <2>6. CASE j.pc = "exit"
    BY <1>2, <1>3, <2>1, <2>2, <2>4, <2>5, <2>6 DEF Placed
  <2>7. CASE j.pc # "exit"
    BY <1>2, <1>3, <2>1, <2>2, <2>4, <2>5, <2>7 DEF Placed
  <2> QED BY <2>6, <2>7
<1>4. CASE ~(Copying(j) /\ p = j.p /\ (~j.moved \/ j.pc = "exit"))
  <2>1. HeadOf(P, j, p) = P[p].c
    BY <1>4 DEF HeadOf
  <2>2. Holder(P, j, p)
    BY <1>4 DEF Holder
  <2>3. DataAt(P, j, p) = P[p].c
    BY <1>4 DEF DataAt, Copying
  <2>4. P[p].c \in Useds(h.mask, H) /\ h.nblock[P[p].c] = P[p].c + UmmBlocks(P[p].bytes)
    BY <1>1, <2>2 DEF Owned
  <2> QED BY <1>2, <2>1, <2>3, <2>4 DEF Placed
<1> QED BY <1>3, <1>4

\* The data of two pointers is not in the same block.
LEMMA PlaceApart ==
  ASSUME NEW h, NEW P, NEW j, NEW H, InvWith(h, P, j, H),
         NEW p \in UmmPtrs, NEW q \in UmmPtrs, p # q, P[p].c # 0, P[q].c # 0
  PROVE  HeadOf(P, j, p) # HeadOf(P, j, q)
<1>1. /\ \A x, y \in UmmPtrs : Holder(P, j, x) /\ Holder(P, j, y) /\ x # y => P[x].c # P[y].c
      /\ Copying(j) => \A x \in UmmPtrs : Holder(P, j, x) => P[x].c # j.c
  BY DEF InvWith, Owned
<1>2. \A x \in UmmPtrs : P[x].c # 0 /\ x # j.p => Holder(P, j, x) /\ HeadOf(P, j, x) = P[x].c
  BY DEF Holder, HeadOf
<1>3. ASSUME NEW x \in UmmPtrs, NEW y \in UmmPtrs, x # y, P[x].c # 0, P[y].c # 0, y # j.p
      PROVE  HeadOf(P, j, x) # HeadOf(P, j, y)
  <2>1. Holder(P, j, y) /\ HeadOf(P, j, y) = P[y].c
    BY <1>2, <1>3
  <2>2. CASE Copying(j) /\ x = j.p /\ (~j.moved \/ j.pc = "exit")
    <3>1. HeadOf(P, j, x) = j.c
      BY <2>2 DEF HeadOf
    <3> QED BY <1>1, <2>1, <2>2, <3>1
  <2>3. CASE ~(Copying(j) /\ x = j.p /\ (~j.moved \/ j.pc = "exit"))
    <3>1. HeadOf(P, j, x) = P[x].c
      BY <2>3 DEF HeadOf
    <3>2. Holder(P, j, x)
      BY <1>3, <2>3 DEF Holder
    <3> QED BY <1>1, <1>3, <2>1, <3>1, <3>2
  <2> QED BY <2>2, <2>3
<1>4. CASE q # j.p
  BY <1>3, <1>4
<1>5. CASE q = j.p
  <2>1. p # j.p
    BY <1>5
  <2> QED BY <1>3, <2>1
<1> QED BY <1>4, <1>5

\* Data is in blocks in use, and not in another block than its own.
LEMMA DataCells ==
  ASSUME NEW h, NEW P, NEW j, NEW H, InvWith(h, P, j, H), NEW p \in UmmPtrs, P[p].c # 0,
         NEW k \in 0..(P[p].keep - 1), NEW i, i = DataAt(P, j, p) + k
  PROVE  /\ i \in Nat /\ i \in UmmBlockNos
         /\ i \in UsedCells(h.nblock, Useds(h.mask, H))
         /\ h.data[i] = UmmDatum(p, k)
         /\ \A a \in Useds(h.mask, H) : a # HeadOf(P, j, p) => i < a \/ i >= h.nblock[a]
<1>1. /\ PtrsOK(P) /\ JobOK(P, j) /\ Kept(h, P, j) /\ LinksOK(h, H)
  BY DEF InvWith, HeapOK
<1>2. Placed(h, P, j, H, p)
  BY PlaceIs
<1>3. PICK b : b = HeadOf(P, j, p)
  OBVIOUS
<1>4. PICK d \in Nat : d = DataAt(P, j, p)
  BY <1>2 DEF Placed
<1>5. b \in Useds(h.mask, H) /\ b <= d /\ d + P[p].keep <= h.nblock[b]
  BY <1>2, <1>3, <1>4 DEF Placed
<1>6. P[p].keep \in Nat
  BY <1>1, PtrFacts
<1>7. /\ b \in H /\ b # UmmLast /\ b \in Nat /\ h.nblock[b] \in Nat /\ h.nblock[b] <= UmmLast
  BY <1>1, <1>5, UsedFacts
<1>8. i \in Nat /\ b <= i /\ i < h.nblock[b] /\ i \in UmmBlockNos
  BY <1>4, <1>5, <1>6, <1>7, BlockNos, SMTT(30)
<1>9. i \in UsedCells(h.nblock, Useds(h.mask, H))
  BY <1>5, <1>8 DEF UsedCells
<1>10. h.data[i] = UmmDatum(p, k)
  BY <1>1 DEF Kept
<1>11. ASSUME NEW a \in Useds(h.mask, H), a # b PROVE i < a \/ i >= h.nblock[a]
  <2>1. a \in H /\ a # UmmLast /\ a \in Nat /\ h.nblock[a] \in Nat
    BY <1>1, UsedFacts
  <2>2. Headers(h.nblock, h.pblock, H)
    BY <1>1, LinksFacts
  <2>3. ~(a <= i /\ i < h.nblock[a])
    BY <1>7, <1>8, <1>11, <2>1, <2>2, Apart
  <2> QED BY <1>8, <2>1, <2>3
<1> QED BY <1>3, <1>8, <1>9, <1>10, <1>11

\* A change within another block leaves the data of p.
LEMMA DataStays ==
  ASSUME NEW h, NEW P, NEW j, NEW H, InvWith(h, P, j, H), NEW p \in UmmPtrs, P[p].c # 0,
         NEW g, NEW a \in Useds(h.mask, H), a # HeadOf(P, j, p),
         NEW lo \in Nat, NEW hi \in Nat, a <= lo, hi <= h.nblock[a],
         Undisturbed(h, g, H, lo, hi), NEW k \in 0..(P[p].keep - 1)
  PROVE  g.data[DataAt(P, j, p) + k] = UmmDatum(p, k)
<1>1. PICK i : i = DataAt(P, j, p) + k
  OBVIOUS
<1>2. /\ i \in Nat /\ i \in UsedCells(h.nblock, Useds(h.mask, H))
      /\ h.data[i] = UmmDatum(p, k)
      /\ i < a \/ i >= h.nblock[a]
  BY <1>1, DataCells
<1>3. a \in Nat /\ h.nblock[a] \in Nat
  BY UsedFacts DEF InvWith, HeapOK
<1>4. i < lo \/ i >= hi
  BY <1>2, <1>3
<1> QED BY <1>1, <1>2, <1>4 DEF Undisturbed

\* The data of a block may be disturbed, and no other.
OnlyIn(h, g, H, a) ==
  \E lo \in Nat, hi \in Nat : a <= lo /\ hi <= h.nblock[a] /\ Undisturbed(h, g, H, lo, hi)

\* The data of the other blocks stays.
LEMMA DataStaysBut ==
  ASSUME NEW h, NEW P, NEW j, NEW H, InvWith(h, P, j, H), NEW p \in UmmPtrs, P[p].c # 0,
         NEW g, NEW a \in Useds(h.mask, H), a # HeadOf(P, j, p),
         OnlyIn(h, g, H, a), NEW k \in 0..(P[p].keep - 1)
  PROVE  g.data[DataAt(P, j, p) + k] = UmmDatum(p, k)
<1>1. PICK lo \in Nat, hi \in Nat : a <= lo /\ hi <= h.nblock[a] /\ Undisturbed(h, g, H, lo, hi)
  BY DEF OnlyIn
<1>2. a <= lo /\ hi <= h.nblock[a]
  BY <1>1
<1>3. Undisturbed(h, g, H, lo, hi)
  BY <1>1
<1> QED BY <1>2, <1>3, DataStays

\* So does one outside all blocks in use.
LEMMA DataStaysAll ==
  ASSUME NEW h, NEW P, NEW j, NEW H, InvWith(h, P, j, H), NEW p \in UmmPtrs, P[p].c # 0,
         NEW g, Undisturbed(h, g, H, 0, 0), NEW k \in 0..(P[p].keep - 1)
  PROVE  g.data[DataAt(P, j, p) + k] = UmmDatum(p, k)
<1>1. PICK i : i = DataAt(P, j, p) + k
  OBVIOUS
<1>2. /\ i \in Nat /\ i \in UsedCells(h.nblock, Useds(h.mask, H))
      /\ h.data[i] = UmmDatum(p, k)
  BY <1>1, DataCells
<1>3. i >= 0
  BY <1>2
<1> QED BY <1>1, <1>2, <1>3 DEF Undisturbed

-----------------------------------------------------------------------------
(* Heap: what the invariant says of the blocks                             *)

\* Block 0 is one block.
LEMMA FirstBlock ==
  ASSUME NEW h, NEW H, LinksOK(h, H)
  PROVE  h.nblock[0] = 1 /\ 1 # UmmLast /\ 1 \in H /\ 0 \in H
<1>1. /\ 0 \in H /\ 1 \in H /\ UmmLast > 1 /\ UmmLast \in Nat
  BY LinksFacts, HeaderFacts, BlockNos
<1>2. h.nblock[0] <= 1 /\ 0 < h.nblock[0] /\ h.nblock[0] \in Nat
  BY <1>1, LinksFacts, HeaderFacts
<1> QED BY <1>1, <1>2

\* No gap is longer than the longest free block.
LEMMA NoGap ==
  ASSUME NEW h, NEW H, LinksOK(h, H), NEW n \in Nat, n > 0,
         \A f \in Frees(h.mask, H) : h.nblock[f] - f < n,
         NEW c \in 1..(UmmLast - 1), c + n <= UmmLast
  PROVE  UmmCells(c, n) \cap UsedCells(h.nblock, Useds(h.mask, H)) # {}
<1>1. /\ Headers(h.nblock, h.pblock, H)
      /\ \A i \in H : i # UmmLast /\ h.mask[i] => ~h.mask[h.nblock[i]]
  BY LinksFacts
<1>2. c \in UmmBlockNos /\ c # UmmLast /\ c \in Nat /\ c > 0 /\ UmmLast \in Nat
  BY BlockNos
<1>3. PICK b \in H : b # UmmLast /\ b <= c /\ c < h.nblock[b]
  BY <1>1, <1>2, Cover
<1>4. b \in Nat /\ h.nblock[b] \in Nat /\ h.nblock[b] \in H /\ h.nblock[b] <= UmmLast
  BY <1>1, <1>3, HeaderFacts
<1>5. b # 0
  <2>1. h.nblock[0] = 1
    BY FirstBlock
  <2> QED BY <1>2, <1>3, <2>1
<1>6. CASE ~h.mask[b]
  <2>1. c \in UsedCells(h.nblock, Useds(h.mask, H))
    BY <1>2, <1>3, <1>5, <1>6 DEF UsedCells, Useds
  <2>2. c \in UmmCells(c, n)
    BY <1>2 DEF UmmCells
  <2> QED BY <2>1, <2>2
<1>7. CASE h.mask[b]
  <2>1. PICK e \in Nat : e = h.nblock[b] /\ e \in H /\ e <= UmmLast /\ ~h.mask[e]
    BY <1>1, <1>3, <1>4, <1>7
  <2>2. e - b < n
    BY <1>3, <1>7, <2>1 DEF Frees
  <2>3. e < c + n /\ c < e /\ e # UmmLast /\ e # 0
    BY <1>2, <1>3, <1>4, <2>1, <2>2
  <2>4. e \in Useds(h.mask, H)
    BY <2>1, <2>3 DEF Useds
  <2>5. e < h.nblock[e] /\ e \in UmmBlockNos
    BY <2>4, UsedFacts
  <2>6. e \in UsedCells(h.nblock, Useds(h.mask, H))
    BY <2>1, <2>4, <2>5 DEF UsedCells
  <2>7. e \in UmmCells(c, n)
    BY <1>2, <2>1, <2>3 DEF UmmCells
  <2> QED BY <2>6, <2>7
<1> QED BY <1>6, <1>7

\* The free blocks are the starts of the gaps.
LEMMA GapStarts ==
  ASSUME NEW h, NEW H, LinksOK(h, H), NEW W, W = UsedCells(h.nblock, Useds(h.mask, H))
  PROVE  {i \in 1..(UmmLast - 1) : i \notin W /\ (i = 1 \/ i - 1 \in W)} = Frees(h.mask, H)
<1>1. /\ Headers(h.nblock, h.pblock, H) /\ ~h.mask[0] /\ ~h.mask[UmmLast]
      /\ \A i \in H : i # UmmLast /\ h.mask[i] => ~h.mask[h.nblock[i]]
  BY LinksFacts
<1>2. UmmLast \in Nat /\ UmmLast > 1 /\ UmmBlockNos = 0..UmmLast
  BY BlockNos
<1>3. h.nblock[0] = 1 /\ 1 # UmmLast /\ 1 \in H
  BY FirstBlock
<1>4. ASSUME NEW i \in 1..(UmmLast - 1), i \notin W, i = 1 \/ i - 1 \in W
      PROVE  i \in Frees(h.mask, H)
  <2>1. i \in UmmBlockNos /\ i # UmmLast /\ i \in Nat /\ i > 0
    BY <1>2
  <2>2. PICK b \in H : b # UmmLast /\ b <= i /\ i < h.nblock[b]
    BY <1>1, <2>1, Cover
  <2>3. b \in Nat /\ b # 0 /\ h.nblock[b] \in Nat
    <3>1. b \in Nat /\ h.nblock[b] \in Nat
      BY <1>1, <2>2, HeaderFacts
    <3> QED BY <1>3, <2>1, <2>2, <3>1
  <2>4. h.mask[b]
    <3> SUFFICES ASSUME ~h.mask[b] PROVE FALSE
      OBVIOUS
    <3>1. b \in Useds(h.mask, H)
      BY <2>2, <2>3 DEF Useds
    <3>2. i \in W
      BY <2>1, <2>2, <3>1 DEF UsedCells
    <3> QED BY <1>4, <3>2
  <2>5. b \in Frees(h.mask, H)
    BY <2>4 DEF Frees
  <2>6. b = i
    <3> SUFFICES ASSUME b # i PROVE FALSE
      OBVIOUS
    <3>1. b <= i - 1 /\ i - 1 \in Nat /\ i - 1 < h.nblock[b] /\ i # 1
      BY <2>1, <2>2, <2>3
    <3>2. i - 1 \notin W
      BY <2>5, <3>1, NotUsed
    <3> QED BY <1>4, <3>1, <3>2
  <2> QED BY <2>5, <2>6
<1>5. ASSUME NEW f \in Frees(h.mask, H)
      PROVE  f \in 1..(UmmLast - 1) /\ f \notin W /\ (f = 1 \/ f - 1 \in W)
  <2>1. /\ f \in H /\ f # 0 /\ f # UmmLast /\ h.mask[f] /\ f \in Nat /\ f \in UmmBlockNos
        /\ f < h.nblock[f]
    BY FreeFacts
  <2>2. f \in 1..(UmmLast - 1)
    BY <1>2, <2>1
  <2>3. f \notin W
    <3>1. f <= f
      BY <2>1
    <3> QED BY <2>1, <3>1, NotUsed
  <2>4. CASE f # 1
    <3>1. PICK b \in H : b # UmmLast /\ b < f /\ h.nblock[b] = f
      <4>1. h.pblock[f] \in H /\ h.pblock[f] # UmmLast /\ h.pblock[f] < f /\ h.nblock[h.pblock[f]] = f
        BY <1>1, <2>1, Before
      <4> QED BY <4>1
    <3>2. b \in Nat
      BY <1>1, HeaderFacts
    <3>3. ~h.mask[b] /\ b # 0
      BY <1>1, <1>3, <2>1, <2>4, <3>1
    <3>4. b \in Useds(h.mask, H)
      BY <3>1, <3>3 DEF Useds
    <3>5. f - 1 \in UmmBlockNos /\ b <= f - 1 /\ f - 1 < f
      BY <1>2, <2>1, <3>1, <3>2
    <3>6. f - 1 \in W
      BY <3>1, <3>4, <3>5 DEF UsedCells
    <3> QED BY <2>2, <2>3, <3>6
  <2> QED BY <2>2, <2>3, <2>4
<1> QED BY <1>4, <1>5

-----------------------------------------------------------------------------
(* Heap: realloc() in place                                                *)

\* A block that grows in place leaves the others, and keeps its cells.
LEMMA CellsGrow ==
  ASSUME NEW h, NEW H, LinksOK(h, H), NEW g, NEW G, LinksOK(g, G),
         NEW c \in Useds(h.mask, H), NEW b \in Useds(g.mask, G),
         Changed(h, g, H, G, c, {b}), b <= c, h.nblock[c] <= g.nblock[b]
  PROVE  UsedCells(h.nblock, Useds(h.mask, H)) \subseteq UsedCells(g.nblock, Useds(g.mask, G))
<1>1. /\ Useds(g.mask, G) = (Useds(h.mask, H) \ {c}) \cup {b}
      /\ \A a \in Useds(h.mask, H) \ {c} : g.nblock[a] = h.nblock[a]
  BY DEF Changed
<1>2. c \in Nat /\ h.nblock[c] \in Nat /\ b \in Nat /\ g.nblock[b] \in Nat
  BY UsedFacts
<1> SUFFICES ASSUME NEW i \in UmmBlockNos, NEW a \in Useds(h.mask, H), a <= i, i < h.nblock[a]
             PROVE  \E x \in Useds(g.mask, G) : x <= i /\ i < g.nblock[x]
  BY DEF UsedCells
<1>3. i \in Nat
  BY BlockNos
<1>4. CASE a = c
  BY <1>2, <1>3, <1>4
<1>5. CASE a # c
  BY <1>1, <1>5
<1> QED BY <1>4, <1>5

\* Two steps in a row.
LEMMA ChangedTwice ==
  ASSUME NEW h, NEW H, NEW k, NEW K, NEW g, NEW G, NEW c, NEW b,
         Changed(h, k, H, K, c, {b}), Changed(k, g, K, G, b, {b}),
         b = c \/ b \notin Useds(h.mask, H)
  PROVE  Changed(h, g, H, G, c, {b})
<1>1. PICK U, V, W : U = Useds(h.mask, H) /\ V = Useds(k.mask, K) /\ W = Useds(g.mask, G)
  OBVIOUS
<1>2. /\ V = (U \ {c}) \cup {b}
      /\ \A a \in U \ {c} : k.nblock[a] = h.nblock[a]
  BY <1>1 DEF Changed
<1>3. /\ HeapOK(g, G) /\ W = (V \ {b}) \cup {b}
      /\ \A a \in V \ {b} : g.nblock[a] = k.nblock[a]
  BY <1>1 DEF Changed
<1>4. W = (U \ {c}) \cup {b}
  BY <1>2, <1>3
<1>5. ASSUME NEW a \in U \ {c} PROVE g.nblock[a] = h.nblock[a]
  <2>1. a \in V \ {b}
    BY <1>1, <1>2
  <2> QED BY <1>2, <1>3, <2>1
<1> QED BY <1>1, <1>3, <1>4, <1>5 DEF Changed

\* Data that neither step disturbs stays.
LEMMA UndisturbedTwice ==
  ASSUME NEW h, NEW H, NEW k, NEW K, NEW g, NEW lo, NEW hi,
         UsedCells(h.nblock, Useds(h.mask, H)) \subseteq UsedCells(k.nblock, Useds(k.mask, K)),
         Undisturbed(h, k, H, 0, 0), Undisturbed(k, g, K, lo, hi),
         \A i \in UsedCells(h.nblock, Useds(h.mask, H)) : i < lo \/ i >= hi
  PROVE  Undisturbed(h, g, H, 0, 0)
<1> SUFFICES ASSUME NEW i \in UsedCells(h.nblock, Useds(h.mask, H)) PROVE g.data[i] = h.data[i]
  BY DEF Undisturbed
<1>1. i \in Nat /\ i >= 0
  BY BlockNos DEF UsedCells
<1>2. k.data[i] = h.data[i]
  BY <1>1 DEF Undisturbed
<1>3. i \in UsedCells(k.nblock, Useds(k.mask, K)) /\ (i < lo \/ i >= hi)
  OBVIOUS
<1>4. g.data[i] = k.data[i]
  BY <1>3 DEF Undisturbed
<1> QED BY <1>2, <1>4

\* The block c takes in the free block behind it, and has n blocks then.
LEMMA GrowTrimOK ==
  ASSUME NEW h, NEW H \in SUBSET UmmBlockNos, HeapOK(h, H), NEW c \in Useds(h.mask, H),
         NEW d, d = h.nblock[c], h.mask[d], NEW x, x = h.nblock[d] - d,
         NEW n \in Nat, NEW z, c + z = h.nblock[d], d <= c + n, n <= z, n > 0, z \in Nat
  PROVE  Made(h, UmmTrim(GrownUp(h, c, x), c, z, n), H, c, c, c + n)
<1>0. LinksOK(h, H)
  BY DEF HeapOK
<1>1. /\ c \in Nat /\ c \in H /\ d \in Nat /\ d \in H /\ c < d
  BY <1>0, UsedFacts
<1>2. d \in Frees(h.mask, H)
  BY <1>1 DEF Frees
<1>3. h.nblock[d] \in Nat /\ d < h.nblock[d]
  BY <1>0, <1>2, FreeFacts
<1>4. PICK u : u = GrownUp(h, c, x)
  OBVIOUS
<1>5. x = IF h.mask[h.nblock[c]] THEN h.nblock[h.nblock[c]] - h.nblock[c] ELSE 0
  OBVIOUS
<1>6. PICK K \in SUBSET UmmBlockNos :
         /\ Changed(h, u, H, K, c, {c}) /\ Undisturbed(h, u, H, 0, 0)
         /\ u.nblock[c] = h.nblock[c] + x
  <2>1. Made(h, u, H, c, c, h.nblock[c] + x)
    BY <1>4, <1>5, GrowUpOK
  <2> QED BY <2>1 DEF Made
<1>7. u.nblock[c] = c + z
  BY <1>1, <1>3, <1>6
<1>8. HeapOK(u, K) /\ Useds(u.mask, K) = (Useds(h.mask, H) \ {c}) \cup {c}
  BY <1>6 DEF Changed
<1>9. c \in Useds(u.mask, K) /\ LinksOK(u, K)
  BY <1>8 DEF HeapOK
<1>10. PICK g : g = UmmTrim(u, c, z, n)
  OBVIOUS
<1>11. PICK G \in SUBSET UmmBlockNos :
          /\ Changed(u, g, K, G, c, {c}) /\ Undisturbed(u, g, K, c + n, c + z)
          /\ g.nblock[c] = c + n
  <2>1. Trimmed(u, g, K, c, n, z)
    BY <1>7, <1>8, <1>9, <1>10, TrimOK
  <2> QED BY <2>1 DEF Trimmed
<1>12. Changed(h, g, H, G, c, {c})
  BY <1>6, <1>11, ChangedTwice
<1>13. UsedCells(h.nblock, Useds(h.mask, H)) \subseteq UsedCells(u.nblock, Useds(u.mask, K))
  <2>1. c <= c /\ h.nblock[c] <= u.nblock[c]
    BY <1>1, <1>3, <1>7
  <2> QED BY <1>0, <1>6, <1>9, <2>1, CellsGrow
<1>14. ASSUME NEW i \in UsedCells(h.nblock, Useds(h.mask, H)) PROVE i < c + n \/ i >= c + z
  <2>1. i \in Nat
    BY BlockNos DEF UsedCells
  <2>2. ~(d <= i /\ i < h.nblock[d])
    BY <1>0, <1>2, <2>1, NotUsed
  <2> QED BY <1>1, <1>3, <2>1, <2>2
<1>15. Undisturbed(h, g, H, 0, 0)
  BY <1>6, <1>11, <1>13, <1>14, UndisturbedTwice
<1> QED BY <1>4, <1>10, <1>11, <1>12, <1>15 DEF Made

\* It takes in the free block b before it too.
LEMMA GrowBothOK ==
  ASSUME NEW h, NEW H \in SUBSET UmmBlockNos, HeapOK(h, H), NEW c \in Useds(h.mask, H),
         NEW b, b = h.pblock[c], h.mask[b],
         NEW d, d = h.nblock[c], h.mask[d], NEW x, x = h.nblock[d] - d,
         NEW n \in Nat, NEW z, b + z = h.nblock[d], d <= b + n, n <= z, n > 0, z \in Nat
  PROVE  Made(h, UmmTrim(GrownUp(GrownDown(h, c, b), b, x), b, z, n), H, c, b, b + n)
<1>0. LinksOK(h, H)
  BY DEF HeapOK
<1>1. c \in Nat /\ d \in Nat /\ c < d /\ d # UmmLast
  <2>1. ~h.mask[UmmLast]
    BY <1>0, LinksFacts
  <2> QED BY <1>0, <2>1, UsedFacts
<1>2. PICK k : k = GrownDown(h, c, b)
  OBVIOUS
<1>3. PICK K \in SUBSET UmmBlockNos :
         /\ Changed(h, k, H, K, c, {b}) /\ Undisturbed(h, k, H, 0, 0)
         /\ k.nblock[b] = d /\ b \notin Useds(h.mask, H)
         /\ b \in Nat /\ b < c /\ h.nblock[b] = c
         /\ k.mask[d] /\ k.nblock[d] = h.nblock[d]
  <2>1. MadeDown(h, k, H, c, b)
    BY <1>2, GrowDownOK
  <2> QED BY <2>1 DEF MadeDown
<1>4. HeapOK(k, K) /\ Useds(k.mask, K) = (Useds(h.mask, H) \ {c}) \cup {b}
  BY <1>3 DEF Changed
<1>5. b \in Useds(k.mask, K) /\ LinksOK(k, K)
  BY <1>4 DEF HeapOK
<1>6. PICK g : g = UmmTrim(GrownUp(k, b, x), b, z, n)
  OBVIOUS
<1>7. PICK G \in SUBSET UmmBlockNos :
         /\ Changed(k, g, K, G, b, {b}) /\ Undisturbed(k, g, K, 0, 0)
         /\ g.nblock[b] = b + n
  <2>1. d = k.nblock[b] /\ k.mask[d] /\ x = k.nblock[d] - d /\ b + z = k.nblock[d]
    BY <1>3
  <2>2. Made(k, g, K, b, b, b + n)
    BY <1>4, <1>5, <1>6, <2>1, GrowTrimOK
  <2> QED BY <2>2 DEF Made
<1>8. Changed(h, g, H, G, c, {b})
  BY <1>3, <1>7, ChangedTwice
<1>9. UsedCells(h.nblock, Useds(h.mask, H)) \subseteq UsedCells(k.nblock, Useds(k.mask, K))
  <2>1. b <= c /\ h.nblock[c] <= k.nblock[b]
    BY <1>1, <1>3
  <2> QED BY <1>0, <1>3, <1>5, <2>1, CellsGrow
<1>10. \A i \in UsedCells(h.nblock, Useds(h.mask, H)) : i < 0 \/ i >= 0
  <2>1. \A i \in UsedCells(h.nblock, Useds(h.mask, H)) : i \in Nat
    BY BlockNos DEF UsedCells
  <2> QED BY <2>1
<1>11. Undisturbed(h, g, H, 0, 0)
  BY <1>3, <1>7, <1>9, <1>10, UndisturbedTwice
<1> QED BY <1>2, <1>6, <1>7, <1>8, <1>11 DEF Made

-----------------------------------------------------------------------------
(* Heap: the steps                                                         *)

\* Only data changes.
WithData(h, d) == [h EXCEPT !.data = d]

HasData(h, g, H, d) ==
  HeapOK(g, H) /\ g.nblock = h.nblock /\ g.mask = h.mask /\ g.data = d

\* The lists do not depend on the data.
LEMMA DataField ==
  ASSUME NEW h, NEW H, HeapOK(h, H), NEW d \in [UmmBlockNos -> UmmStored]
  PROVE  HasData(h, WithData(h, d), H, d)
<1>0. PICK g : g = WithData(h, d)
  OBVIOUS
<1>1. LinksOK(h, H) /\ FreeCounted(h, H)
  BY DEF HeapOK
<1>2. h \in UmmHeapType
  BY <1>1, LinksFacts
<1>3. /\ g \in UmmHeapType
      /\ g.nblock = h.nblock /\ g.pblock = h.pblock /\ g.mask = h.mask
      /\ g.nfree = h.nfree /\ g.pfree = h.pfree /\ g.free_blocks = h.free_blocks
      /\ g.data = d
  BY <1>0, <1>2 DEF WithData, UmmHeapType
<1>4. LinksOK(g, H)
  BY <1>1, <1>3 DEF LinksOK
<1>5. FreeCounted(g, H)
  BY <1>1, <1>3 DEF FreeCounted
<1> QED BY <1>0, <1>3, <1>4, <1>5 DEF HeapOK, HasData

\* A pointer is set.
SetPtr(P, p, r) == [P EXCEPT ![p] = r]

PtrIsSet(P, R, p, r) ==
  PtrsOK(R) /\ R[p] = r /\ \A q \in UmmPtrs : q # p => R[q] = P[q]

PtrOK(r) ==
  /\ r \in [c : UmmBlockNos, bytes : Nat, keep : Nat]
  /\ r.c # 0 => r.bytes \in UmmSizes /\ r.keep <= UmmBlocks(r.bytes) /\ UmmBlocks(r.bytes) < 32767

\* The others stay as they were.
LEMMA PtrSet ==
  ASSUME NEW P, PtrsOK(P), NEW p \in UmmPtrs, NEW r, PtrOK(r)
  PROVE  PtrIsSet(P, SetPtr(P, p, r), p, r)
<1>0. PICK R : R = SetPtr(P, p, r)
  OBVIOUS
<1>1. P \in [UmmPtrs -> [c : UmmBlockNos, bytes : Nat, keep : Nat]]
  BY DEF PtrsOK
<1>2. R \in [UmmPtrs -> [c : UmmBlockNos, bytes : Nat, keep : Nat]]
  BY <1>0, <1>1 DEF SetPtr, PtrOK
<1>3. R[p] = r /\ \A q \in UmmPtrs : q # p => R[q] = P[q]
  BY <1>0, <1>1 DEF SetPtr
<1>4. ASSUME NEW q \in UmmPtrs, R[q].c # 0
      PROVE  R[q].bytes \in UmmSizes /\ R[q].keep <= UmmBlocks(R[q].bytes) /\ UmmBlocks(R[q].bytes) < 32767
  <2>1. CASE q = p
    BY <1>3, <1>4, <2>1 DEF PtrOK
  <2>2. CASE q # p
    BY <1>3, <1>4, <2>2 DEF PtrsOK
  <2> QED BY <2>1, <2>2
<1> QED BY <1>0, <1>2, <1>3, <1>4 DEF PtrsOK, PtrIsSet

\* All pointers but p hold what they held, which is not c.
Others(P, j, R, k, p, c) ==
  \A q \in UmmPtrs : q # p =>
     /\ R[q] = P[q] /\ (Holder(R, k, q) <=> Holder(P, j, q))
     /\ Holder(P, j, q) => P[q].c # c

\* What p and the job hold, where the others hold what they held.
Holds(g, G, P, j, R, k, p) ==
  /\ Holder(R, k, p) =>
       /\ R[p].c \in Useds(g.mask, G) /\ g.nblock[R[p].c] = R[p].c + UmmBlocks(R[p].bytes)
       /\ \A q \in UmmPtrs : q # p /\ Holder(P, j, q) => P[q].c # R[p].c
  /\ Copying(k) =>
       /\ k.c \in Useds(g.mask, G) /\ g.nblock[k.c] = k.c + k.blockSize
       /\ \A q \in UmmPtrs : q # p /\ Holder(P, j, q) => P[q].c # k.c
       /\ Holder(R, k, p) => R[p].c # k.c
  /\ \A a \in Useds(g.mask, G) :
       \/ Holder(R, k, p) /\ R[p].c = a
       \/ Copying(k) /\ k.c = a
       \/ \E q \in UmmPtrs : q # p /\ Holder(P, j, q) /\ P[q].c = a

\* The blocks in use after a step are those of the pointers and the job.
LEMMA OwnedStep ==
  ASSUME NEW h, NEW H, NEW g, NEW G, NEW c, NEW D, Changed(h, g, H, G, c, D),
         NEW P, NEW j, Owned(h, P, j, H), NEW R, NEW k, NEW p \in UmmPtrs,
         Others(P, j, R, k, p, c), Holds(g, G, P, j, R, k, p)
  PROVE  Owned(g, R, k, G)
<1>1. PICK U, V : U = Useds(h.mask, H) /\ V = Useds(g.mask, G)
  OBVIOUS
<1>2. V = (U \ {c}) \cup D /\ \A a \in U \ {c} : g.nblock[a] = h.nblock[a]
  BY <1>1 DEF Changed
<1>3. ASSUME NEW q \in UmmPtrs, Holder(R, k, q), q # p
      PROVE  /\ Holder(P, j, q) /\ R[q] = P[q] /\ P[q].c \in V
             /\ g.nblock[P[q].c] = P[q].c + UmmBlocks(P[q].bytes)
  <2>1. Holder(P, j, q) /\ R[q] = P[q] /\ P[q].c # c
    BY <1>3 DEF Others
  <2>2. P[q].c \in U /\ h.nblock[P[q].c] = P[q].c + UmmBlocks(P[q].bytes)
    BY <1>1, <2>1 DEF Owned
  <2> QED BY <1>2, <2>1, <2>2
<1>4. ASSUME NEW q \in UmmPtrs, Holder(R, k, q)
      PROVE  R[q].c \in V /\ g.nblock[R[q].c] = R[q].c + UmmBlocks(R[q].bytes)
  <2>1. CASE q = p
    BY <1>1, <1>4, <2>1 DEF Holds
  <2>2. CASE q # p
    BY <1>3, <1>4, <2>2
  <2> QED BY <2>1, <2>2
<1>5. ASSUME NEW q \in UmmPtrs, NEW r \in UmmPtrs, Holder(R, k, q), Holder(R, k, r), q # r
      PROVE  R[q].c # R[r].c
  <2>1. CASE q # p /\ r # p
    <3>1. Holder(P, j, q) /\ Holder(P, j, r) /\ R[q] = P[q] /\ R[r] = P[r]
      BY <1>3, <1>5, <2>1
    <3>2. P[q].c # P[r].c
      BY <1>5, <3>1 DEF Owned
    <3> QED BY <3>1, <3>2
  <2>2. CASE q = p
    <3>1. Holder(P, j, r) /\ R[r] = P[r] /\ r # p
      BY <1>3, <1>5, <2>2
    <3>2. P[r].c # R[p].c
      BY <1>5, <2>2, <3>1 DEF Holds
    <3> QED BY <2>2, <3>1, <3>2
  <2>3. CASE r = p
    <3>1. Holder(P, j, q) /\ R[q] = P[q] /\ q # p
      BY <1>3, <1>5, <2>3
    <3>2. P[q].c # R[p].c
      BY <1>5, <2>3, <3>1 DEF Holds
    <3> QED BY <2>3, <3>1, <3>2
  <2> QED BY <2>1, <2>2, <2>3
<1>6. ASSUME Copying(k)
      PROVE  /\ k.c \in V /\ g.nblock[k.c] = k.c + k.blockSize
             /\ \A q \in UmmPtrs : Holder(R, k, q) => R[q].c # k.c
  <2>1. /\ k.c \in V /\ g.nblock[k.c] = k.c + k.blockSize
        /\ \A q \in UmmPtrs : q # p /\ Holder(P, j, q) => P[q].c # k.c
        /\ Holder(R, k, p) => R[p].c # k.c
    BY <1>1, <1>6 DEF Holds
  <2>2. ASSUME NEW q \in UmmPtrs, Holder(R, k, q) PROVE R[q].c # k.c
    <3>1. CASE q = p
      BY <2>1, <2>2, <3>1
    <3>2. CASE q # p
      BY <1>3, <2>1, <2>2, <3>2
    <3> QED BY <3>1, <3>2
  <2> QED BY <2>1, <2>2
<1>7. ASSUME NEW a \in V
      PROVE  (\E q \in UmmPtrs : Holder(R, k, q) /\ R[q].c = a) \/ (Copying(k) /\ k.c = a)
  <2>1. \/ Holder(R, k, p) /\ R[p].c = a
        \/ Copying(k) /\ k.c = a
        \/ \E q \in UmmPtrs : q # p /\ Holder(P, j, q) /\ P[q].c = a
    BY <1>1 DEF Holds
  <2>2. \A q \in UmmPtrs : q # p /\ Holder(P, j, q) => Holder(R, k, q) /\ R[q] = P[q]
    BY DEF Others
  <2> QED BY <2>1, <2>2
<1> QED BY <1>1, <1>4, <1>5, <1>6, <1>7 DEF Owned

\* What Owned says, part by part.
LEMMA OwnedFacts ==
  ASSUME NEW h, NEW P, NEW j, NEW H, Owned(h, P, j, H)
  PROVE  /\ \A q \in UmmPtrs : Holder(P, j, q) =>
              /\ P[q].c \in Useds(h.mask, H)
              /\ h.nblock[P[q].c] = P[q].c + UmmBlocks(P[q].bytes)
         /\ \A q, r \in UmmPtrs : Holder(P, j, q) /\ Holder(P, j, r) /\ q # r => P[q].c # P[r].c
         /\ Copying(j) =>
              /\ j.c \in Useds(h.mask, H) /\ h.nblock[j.c] = j.c + j.blockSize
              /\ \A q \in UmmPtrs : Holder(P, j, q) => P[q].c # j.c
         /\ \A a \in Useds(h.mask, H) : \/ \E q \in UmmPtrs : Holder(P, j, q) /\ P[q].c = a
                                        \/ Copying(j) /\ j.c = a
BY DEF Owned

\* umm_malloc() with a block.
LEMMA MallocKeeps ==
  ASSUME NEW h, NEW P, NEW j, NEW H \in SUBSET UmmBlockNos, InvWith(h, P, j, H),
         NEW p \in UmmPtrs, P[p].c = 0, NEW size \in UmmSizes, NEW n, n = UmmBlocks(size),
         NEW f \in Frees(h.mask, H), n <= h.nblock[f] - f
  PROVE  HeapInv(WithData(UmmTake(h, f, n), UmmWritten(UmmTake(h, f, n).data, p, f, n)),
                 SetPtr(P, p, [c |-> f, bytes |-> size, keep |-> n]), j)
<1>0. PICK t : t = UmmTake(h, f, n)
  OBVIOUS
<1>1. PtrsOK(P) /\ JobOK(P, j) /\ Kept(h, P, j) /\ HeapOK(h, H) /\ Owned(h, P, j, H)
  BY DEF InvWith
<1>2. LinksOK(h, H)
  BY <1>1 DEF HeapOK
<1>3. /\ f \in Nat /\ f \in UmmBlockNos /\ f # 0 /\ f # UmmLast /\ h.nblock[f] \in Nat /\ h.nblock[f] <= UmmLast
      /\ h.mask[f] /\ f \in H
  BY <1>2, FreeFacts
<1>4. size \in Nat /\ n \in Nat /\ n > 0 /\ n <= UmmLast /\ f + n <= UmmLast /\ n < 32767
  <2>1. size \in Nat
    BY SizesNat
  <2>2. n \in Nat /\ n > 0
    BY <2>1, BlocksIs
  <2>3. UmmLast \in Nat /\ UmmLast < 32767
    BY UmmAssumption
  <2> QED BY <1>3, <2>1, <2>2, <2>3
<1>5. PICK G \in SUBSET UmmBlockNos :
         Changed(h, t, H, G, 0, {f}) /\ Undisturbed(h, t, H, 0, 0) /\ t.nblock[f] = f + n
  <2>1. Made(h, t, H, 0, f, f + n)
    BY <1>0, <1>1, <1>4, CoreTakeOK
  <2> QED BY <2>1 DEF Made
<1>6. HeapOK(t, G) /\ t \in UmmHeapType
  BY <1>5, LinksFacts DEF Changed, HeapOK
<1>7. PICK d : d = UmmWritten(t.data, p, f, n)
  OBVIOUS
<1>8. d \in [UmmBlockNos -> UmmStored]
  <2>1. t.data \in [UmmBlockNos -> UmmStored]
    BY <1>6, HeapFields
  <2>2. ASSUME NEW i \in UmmBlockNos, i \in UmmCells(f, n) PROVE UmmDatum(p, i - f) \in UmmStored
    <3>1. i - f \in Nat
      BY <1>3, <1>4, <2>2, BlockNos DEF UmmCells
    <3> QED BY <3>1 DEF UmmDatum, UmmStored
  <2> QED BY <1>7, <2>1, <2>2 DEF UmmWritten
<1>9. PICK g : g = WithData(t, d)
  OBVIOUS
<1>10. HeapOK(g, G) /\ g.nblock = t.nblock /\ g.mask = t.mask /\ g.data = d
  <2>1. HasData(t, g, G, d)
    BY <1>6, <1>8, <1>9, DataField
  <2> QED BY <2>1 DEF HasData
<1>11. Changed(h, g, H, G, 0, {f})
  BY <1>5, <1>10 DEF Changed
<1>12. PICK r : r = [c |-> f, bytes |-> size, keep |-> n]
  OBVIOUS
<1>13. /\ r \in [c : UmmBlockNos, bytes : Nat, keep : Nat]
       /\ r.c = f /\ r.bytes = size /\ r.keep = n
  BY <1>3, <1>4, <1>12
<1>24. PICK R : R = SetPtr(P, p, r)
  OBVIOUS
<1>14. PtrsOK(R) /\ R[p] = r /\ \A q \in UmmPtrs : q # p => R[q] = P[q]
  <2>1. PtrOK(r)
    BY <1>4, <1>13 DEF PtrOK
  <2>3. PtrIsSet(P, R, p, r)
    BY <1>1, <1>24, <2>1, PtrSet
  <2> QED BY <2>3 DEF PtrIsSet
<1>15. j.pc # "none" => p # j.p /\ j.p \in UmmPtrs
  BY <1>1, JobFacts
<1>16. JobOK(R, j)
  <2>1. CASE j = UmmNoJob
    BY <2>1 DEF JobOK
  <2>2. CASE j # UmmNoJob
    <3>1. j.pc # "none"
      BY <1>1, <2>2, JobFacts
    <3>2. R[j.p] = P[j.p]
      BY <1>14, <1>15, <3>1
    <3> QED BY <1>1, <3>2 DEF JobOK
  <2> QED BY <2>1, <2>2
<1>17. Copying(j) => p # j.p
  BY <1>15 DEF Copying
<1>18. ~Holder(P, j, p) /\ Holder(R, j, p)
  BY <1>3, <1>13, <1>14, <1>17 DEF Holder
<1>19. Others(P, j, R, j, p, 0)
  BY <1>14 DEF Others, Holder
<1>20. f \notin Useds(h.mask, H) /\ Useds(g.mask, G) = (Useds(h.mask, H) \ {0}) \cup {f}
       /\ 0 \notin Useds(h.mask, H)
       /\ \A a \in Useds(h.mask, H) : g.nblock[a] = h.nblock[a]
  BY <1>3, <1>11 DEF Changed, Useds
<1>21. Holds(g, G, P, j, R, j, p)
  <2>1. f \in Useds(g.mask, G) /\ g.nblock[f] = f + n
    BY <1>5, <1>10, <1>20
  <2>2. \A q \in UmmPtrs : Holder(P, j, q) => P[q].c \in Useds(h.mask, H)
    BY <1>1, OwnedFacts
  <2>3. Copying(j) =>
          /\ j.c \in Useds(h.mask, H) /\ h.nblock[j.c] = j.c + j.blockSize
          /\ \A q \in UmmPtrs : Holder(P, j, q) => P[q].c # j.c
    BY <1>1, OwnedFacts
  <2>4. \A a \in Useds(h.mask, H) : \/ \E q \in UmmPtrs : Holder(P, j, q) /\ P[q].c = a
                                    \/ Copying(j) /\ j.c = a
    BY <1>1, OwnedFacts
  <2>5. /\ R[p].c \in Useds(g.mask, G) /\ g.nblock[R[p].c] = R[p].c + UmmBlocks(R[p].bytes)
        /\ \A q \in UmmPtrs : q # p /\ Holder(P, j, q) => P[q].c # R[p].c
    BY <1>13, <1>14, <1>20, <2>1, <2>2
  <2>6. Copying(j) =>
          /\ j.c \in Useds(g.mask, G) /\ g.nblock[j.c] = j.c + j.blockSize
          /\ \A q \in UmmPtrs : q # p /\ Holder(P, j, q) => P[q].c # j.c
          /\ R[p].c # j.c
    BY <1>13, <1>14, <1>20, <2>3
  <2>7. ASSUME NEW a \in Useds(g.mask, G)
        PROVE  \/ R[p].c = a
               \/ Copying(j) /\ j.c = a
               \/ \E q \in UmmPtrs : q # p /\ Holder(P, j, q) /\ P[q].c = a
    <3>1. CASE a = f
      BY <1>13, <1>14, <3>1
    <3>2. CASE a # f
      BY <1>18, <1>20, <2>4, <3>2
    <3> QED BY <3>1, <3>2
  <2> QED BY <1>18, <2>5, <2>6, <2>7 DEF Holds
<1>22. Owned(g, R, j, G)
  BY <1>1, <1>11, <1>19, <1>21, OwnedStep
<1>23. Kept(g, R, j)
  <2> SUFFICES ASSUME NEW q \in UmmPtrs, R[q].c # 0, NEW k \in 0..(R[q].keep - 1)
               PROVE  g.data[DataAt(R, j, q) + k] = UmmDatum(q, k)
    BY DEF Kept
  <2>1. CASE q = p
    <3>1. DataAt(R, j, q) = f
      BY <1>13, <1>14, <1>17, <2>1 DEF DataAt, Copying
    <3>2. k \in 0..(n - 1)
      BY <1>13, <1>14, <2>1
    <3>3. f + k \in UmmBlockNos /\ f + k \in UmmCells(f, n) /\ (f + k) - f = k
      BY <1>3, <1>4, <3>2, BlockNos DEF UmmCells
    <3>4. d[f + k] = UmmDatum(p, (f + k) - f)
      BY <1>7, <3>3 DEF UmmWritten
    <3> QED BY <1>10, <2>1, <3>1, <3>3, <3>4
  <2>2. CASE q # p
    <3>1. R[q] = P[q]
      BY <1>14, <2>2
    <3>2. DataAt(R, j, q) = DataAt(P, j, q) /\ P[q].c # 0 /\ k \in 0..(P[q].keep - 1)
      BY <3>1 DEF DataAt
    <3>3. PICK i : i = DataAt(P, j, q) + k
      OBVIOUS
    <3>4. t.data[i] = UmmDatum(q, k)
      BY <1>5, <3>2, <3>3, DataStaysAll
    <3>5. i \in UmmBlockNos /\ i \in Nat /\ i \in UsedCells(h.nblock, Useds(h.mask, H))
      BY <3>2, <3>3, DataCells
    <3>6. i \notin UmmCells(f, n)
      <4>1. ~(f <= i /\ i < h.nblock[f])
        BY <1>2, <3>5, NotUsed
      <4> QED BY <1>3, <1>4, <3>5, <4>1 DEF UmmCells
    <3>7. d[i] = t.data[i]
      BY <1>7, <3>5, <3>6 DEF UmmWritten
    <3> QED BY <1>10, <3>2, <3>3, <3>4, <3>7
  <2> QED BY <2>1, <2>2
<1>25. HeapInv(g, R, j)
  BY <1>10, <1>14, <1>16, <1>22, <1>23 DEF HeapInv
<1> QED BY <1>0, <1>7, <1>9, <1>12, <1>24, <1>25

\* umm_free()
LEMMA FreeKeeps ==
  ASSUME NEW h, NEW P, NEW j, NEW H \in SUBSET UmmBlockNos, InvWith(h, P, j, H),
         NEW p \in UmmPtrs, P[p].c # 0, j.pc # "none" => p # j.p
  PROVE  HeapInv(UmmFreeCore(h, P[p].c), SetPtr(P, p, UmmNoPtr), j)
<1>1. PtrsOK(P) /\ JobOK(P, j) /\ Kept(h, P, j) /\ HeapOK(h, H) /\ Owned(h, P, j, H)
  BY DEF InvWith
<1>2. LinksOK(h, H)
  BY <1>1 DEF HeapOK
<1>3. PICK c : c = P[p].c
  OBVIOUS
<1>4. PICK g : g = UmmFreeCore(h, c)
  OBVIOUS
<1>5. Copying(j) => p # j.p
  BY DEF Copying
<1>6. Holder(P, j, p)
  BY <1>5 DEF Holder
<1>7. c \in Useds(h.mask, H)
  BY <1>1, <1>3, <1>6, OwnedFacts
<1>8. PICK G \in SUBSET UmmBlockNos :
         Changed(h, g, H, G, c, {}) /\ Undisturbed(h, g, H, c, h.nblock[c])
  BY <1>1, <1>4, <1>7, FreeCoreOK
<1>9. PtrOK(UmmNoPtr) /\ UmmNoPtr.c = 0
  BY BlockNos DEF PtrOK, UmmNoPtr
<1>10. PICK R : R = SetPtr(P, p, UmmNoPtr)
  OBVIOUS
<1>11. PtrsOK(R) /\ R[p] = UmmNoPtr /\ \A q \in UmmPtrs : q # p => R[q] = P[q]
  <2>1. PtrIsSet(P, R, p, UmmNoPtr)
    BY <1>1, <1>9, <1>10, PtrSet
  <2> QED BY <2>1 DEF PtrIsSet
<1>12. JobOK(R, j)
  <2>1. CASE j = UmmNoJob
    BY <2>1 DEF JobOK
  <2>2. CASE j # UmmNoJob
    <3>1. j.pc # "none" /\ j.p \in UmmPtrs
      BY <1>1, <2>2, JobFacts
    <3>2. R[j.p] = P[j.p]
      BY <1>11, <3>1
    <3> QED BY <1>1, <3>2 DEF JobOK
  <2> QED BY <2>1, <2>2
<1>13. Others(P, j, R, j, p, c)
  <2>1. \A q \in UmmPtrs : q # p /\ Holder(P, j, q) => P[q].c # c
    BY <1>1, <1>3, <1>6, OwnedFacts
  <2> QED BY <1>11, <2>1 DEF Others, Holder
<1>14. /\ Useds(g.mask, G) = Useds(h.mask, H) \ {c} /\ HeapOK(g, G)
       /\ \A a \in Useds(h.mask, H) \ {c} : g.nblock[a] = h.nblock[a]
  BY <1>8 DEF Changed
<1>15. Holds(g, G, P, j, R, j, p)
  <2>1. ~Holder(R, j, p)
    BY <1>9, <1>11 DEF Holder
  <2>2. Copying(j) =>
          /\ j.c \in Useds(h.mask, H) /\ h.nblock[j.c] = j.c + j.blockSize
          /\ \A q \in UmmPtrs : Holder(P, j, q) => P[q].c # j.c
    BY <1>1, OwnedFacts
  <2>3. Copying(j) =>
          /\ j.c \in Useds(g.mask, G) /\ g.nblock[j.c] = j.c + j.blockSize
          /\ \A q \in UmmPtrs : q # p /\ Holder(P, j, q) => P[q].c # j.c
    BY <1>3, <1>6, <1>14, <2>2
  <2>4. ASSUME NEW a \in Useds(g.mask, G)
        PROVE  \/ Copying(j) /\ j.c = a
               \/ \E q \in UmmPtrs : q # p /\ Holder(P, j, q) /\ P[q].c = a
    <3>1. a \in Useds(h.mask, H) /\ a # c
      BY <1>14
    <3>2. \/ \E q \in UmmPtrs : Holder(P, j, q) /\ P[q].c = a
          \/ Copying(j) /\ j.c = a
      BY <1>1, <3>1, OwnedFacts
    <3> QED BY <1>3, <3>1, <3>2
  <2> QED BY <2>1, <2>3, <2>4 DEF Holds
<1>16. Owned(g, R, j, G)
  BY <1>1, <1>8, <1>13, <1>15, OwnedStep
<1>17. Kept(g, R, j)
  <2> SUFFICES ASSUME NEW q \in UmmPtrs, R[q].c # 0, NEW k \in 0..(R[q].keep - 1)
               PROVE  g.data[DataAt(R, j, q) + k] = UmmDatum(q, k)
    BY DEF Kept
  <2>1. q # p /\ R[q] = P[q]
    BY <1>9, <1>11
  <2>2. DataAt(R, j, q) = DataAt(P, j, q) /\ P[q].c # 0 /\ k \in 0..(P[q].keep - 1)
    BY <2>1 DEF DataAt
  <2>3. HeadOf(P, j, p) = c
    BY <1>3, <1>5 DEF HeadOf
  <2>4. c # HeadOf(P, j, q)
    BY <2>1, <2>2, <2>3, PlaceApart
  <2>5. OnlyIn(h, g, H, c)
    <3>1. c \in Nat /\ h.nblock[c] \in Nat
      BY <1>2, <1>7, UsedFacts
    <3>2. c <= c /\ h.nblock[c] <= h.nblock[c]
      BY <3>1
    <3> QED BY <1>8, <3>1, <3>2 DEF OnlyIn
  <2>6. g.data[DataAt(P, j, q) + k] = UmmDatum(q, k)
    <3>1. P[q].c # 0
      BY <2>2
    <3>2. k \in 0..(P[q].keep - 1)
      BY <2>2
    <3> QED BY <1>7, <2>4, <2>5, <3>1, <3>2, DataStaysBut
  <2> QED BY <2>2, <2>6
<1>18. HeapInv(g, R, j)
  BY <1>11, <1>12, <1>14, <1>16, <1>17 DEF HeapInv
<1> QED BY <1>3, <1>4, <1>10, <1>18

\* realloc() begins, or fails.
LEMMA IdleKeeps ==
  ASSUME NEW h, NEW P, NEW j, NEW H \in SUBSET UmmBlockNos, InvWith(h, P, j, H), ~Copying(j),
         NEW k, ~Copying(k), JobOK(P, k)
  PROVE  HeapInv(h, P, k)
<1>1. PtrsOK(P) /\ Kept(h, P, j) /\ HeapOK(h, H) /\ Owned(h, P, j, H)
  BY DEF InvWith
<1>2. \A q \in UmmPtrs : Holder(P, k, q) <=> Holder(P, j, q)
  BY DEF Holder
<1>3. Owned(h, P, k, H)
  BY <1>1, <1>2 DEF Owned
<1>4. \A q \in UmmPtrs : DataAt(P, k, q) = DataAt(P, j, q)
  BY DEF DataAt, Copying
<1>5. Kept(h, P, k)
  BY <1>1, <1>4 DEF Kept
<1> QED BY <1>1, <1>3, <1>5 DEF HeapInv

\* The job goes on to its copy.
SetJob(j, c, z, moved) ==
  [j EXCEPT !.pc = "copy", !.c = c, !.blockSize = z, !.moved = moved]

JobIsSet(j, k, c, z, moved) ==
  /\ k \in UmmJobs /\ k.pc = "copy" /\ k.c = c /\ k.blockSize = z /\ (k.moved <=> moved)
  /\ k.p = j.p /\ k.size = j.size /\ k.from = j.from /\ k.cur = j.cur

\* The locals of umm_realloc() before its copy.
LEMMA JobSet ==
  ASSUME NEW j \in UmmJobs, NEW c \in UmmBlockNos, NEW z \in Nat, NEW moved \in BOOLEAN
  PROVE  JobIsSet(j, SetJob(j, c, z, moved), c, z, moved)
BY DEF JobIsSet, SetJob, UmmJobs

\* What the invariant says at the entry of the critical section.
LEMMA EntryFacts ==
  ASSUME NEW h, NEW P, NEW j, NEW H, InvWith(h, P, j, H), j.pc = "entry"
  PROVE  /\ ~Copying(j) /\ j \in UmmJobs /\ j.p \in UmmPtrs /\ Holder(P, j, j.p)
         /\ j.c = P[j.p].c /\ j.c # 0 /\ j.c = j.from /\ j.blockSize = j.cur
         /\ j.c \in Useds(h.mask, H) /\ h.nblock[j.c] = j.c + j.cur
         /\ j.c \in Nat /\ j.cur \in Nat /\ j.cur > 0
         /\ j.size \in UmmSizes /\ UmmBlocks(j.size) \in Nat /\ UmmBlocks(j.size) > 0
         /\ j.cur = UmmBlocks(P[j.p].bytes)
<1>1. PtrsOK(P) /\ JobOK(P, j) /\ Owned(h, P, j, H)
  BY DEF InvWith
<1>2. j.pc # "none" /\ ~Copying(j)
  BY DEF Copying
<1>3. /\ j \in UmmJobs /\ j.p \in UmmPtrs /\ j.size \in UmmSizes
      /\ j.c \in Nat /\ j.cur \in Nat /\ j.cur > 0
      /\ P[j.p].c = j.from /\ j.from # 0 /\ j.cur = UmmBlocks(P[j.p].bytes)
      /\ UmmBlocks(j.size) \in Nat /\ UmmBlocks(j.size) > 0
      /\ j.c = j.from /\ j.blockSize = j.cur
  BY <1>1, <1>2, JobFacts
<1>4. Holder(P, j, j.p)
  BY <1>2, <1>3 DEF Holder
<1>5. j.c \in Useds(h.mask, H) /\ h.nblock[j.c] = j.c + j.cur
  BY <1>1, <1>3, <1>4, OwnedFacts
<1> QED BY <1>2, <1>3, <1>4, <1>5

\* (1) The block has become part of b, with z blocks.
LEMMA InPlaceKeeps ==
  ASSUME NEW h, NEW P, NEW j, NEW H \in SUBSET UmmBlockNos, InvWith(h, P, j, H), j.pc = "entry",
         NEW g, NEW b \in UmmBlockNos, NEW z \in Nat, Made(h, g, H, j.c, b, b + z),
         b <= j.c, b \notin Useds(h.mask, H), j.c + j.cur <= b + z, UmmBlocks(j.size) <= z
  PROVE  HeapInv(g, P, SetJob(j, b, z, FALSE))
<1>1. PtrsOK(P) /\ JobOK(P, j) /\ Kept(h, P, j) /\ HeapOK(h, H) /\ Owned(h, P, j, H)
  BY DEF InvWith
<1>2. /\ ~Copying(j) /\ j \in UmmJobs /\ j.p \in UmmPtrs /\ Holder(P, j, j.p)
      /\ j.c = P[j.p].c /\ j.c # 0 /\ j.c = j.from
      /\ j.c \in Useds(h.mask, H)
  BY EntryFacts
<1>3. PICK p \in UmmPtrs : p = j.p
  BY <1>2
<1>4. PICK k : k = SetJob(j, b, z, FALSE)
  OBVIOUS
<1>5. JobIsSet(j, k, b, z, FALSE)
  BY <1>2, <1>4, JobSet
<1>6. /\ k \in UmmJobs /\ k.pc = "copy" /\ k.c = b /\ k.blockSize = z /\ ~k.moved
      /\ k.p = p /\ k.size = j.size /\ k.from = j.from /\ k.cur = j.cur
  BY <1>3, <1>5 DEF JobIsSet
<1>7. Copying(k)
  BY <1>6 DEF Copying
<1>8. JobOK(P, k)
  <2>1. j.from # 0 /\ j.cur = UmmBlocks(P[j.p].bytes)
    BY <1>2, EntryFacts
  <2> QED BY <1>2, <1>3, <1>6, <1>7, <2>1 DEF JobOK
<1>9. PICK G \in SUBSET UmmBlockNos :
         Changed(h, g, H, G, j.c, {b}) /\ Undisturbed(h, g, H, 0, 0) /\ g.nblock[b] = b + z
  BY DEF Made
<1>10. HeapOK(g, G) /\ Useds(g.mask, G) = (Useds(h.mask, H) \ {j.c}) \cup {b}
  BY <1>9 DEF Changed
<1>11. ~Holder(P, k, p)
  BY <1>6, <1>7 DEF Holder
<1>12. Others(P, j, P, k, p, j.c)
  <2>1. \A q \in UmmPtrs : q # p /\ Holder(P, j, q) => P[q].c # j.c
    <3>1. \A q, r \in UmmPtrs : Holder(P, j, q) /\ Holder(P, j, r) /\ q # r => P[q].c # P[r].c
      BY <1>1, OwnedFacts
    <3> QED BY <1>2, <1>3, <3>1
  <2>2. \A q \in UmmPtrs : q # p => (Holder(P, k, q) <=> Holder(P, j, q))
    BY <1>2, <1>6 DEF Holder
  <2> QED BY <2>1, <2>2 DEF Others
<1>13. Holds(g, G, P, j, P, k, p)
  <2>1. \A q \in UmmPtrs : Holder(P, j, q) => P[q].c \in Useds(h.mask, H)
    BY <1>1, OwnedFacts
  <2>2. /\ k.c \in Useds(g.mask, G) /\ g.nblock[k.c] = k.c + k.blockSize
        /\ \A q \in UmmPtrs : q # p /\ Holder(P, j, q) => P[q].c # k.c
    BY <1>6, <1>9, <1>10, <2>1
  <2>3. ASSUME NEW a \in Useds(g.mask, G)
        PROVE  k.c = a \/ \E q \in UmmPtrs : q # p /\ Holder(P, j, q) /\ P[q].c = a
    <3>1. CASE a = b
      BY <1>6, <3>1
    <3>2. CASE a # b
      <4>1. a \in Useds(h.mask, H) /\ a # j.c
        BY <1>10, <3>2
      <4>2. \E q \in UmmPtrs : Holder(P, j, q) /\ P[q].c = a
        BY <1>1, <1>2, <4>1, OwnedFacts
      <4> QED BY <1>2, <1>3, <4>1, <4>2
    <3> QED BY <3>1, <3>2
  <2> QED BY <1>7, <1>11, <2>2, <2>3 DEF Holds
<1>14. Owned(g, P, k, G)
  BY <1>1, <1>9, <1>12, <1>13, OwnedStep
<1>15. Kept(g, P, k)
  <2> SUFFICES ASSUME NEW q \in UmmPtrs, P[q].c # 0, NEW x \in 0..(P[q].keep - 1)
               PROVE  g.data[DataAt(P, k, q) + x] = UmmDatum(q, x)
    BY DEF Kept
  <2>1. DataAt(P, k, q) = DataAt(P, j, q)
    BY <1>6 DEF DataAt
  <2>2. g.data[DataAt(P, j, q) + x] = UmmDatum(q, x)
    BY <1>9, DataStaysAll
  <2> QED BY <2>1, <2>2
<1>16. HeapInv(g, P, k)
  BY <1>1, <1>8, <1>10, <1>14, <1>15 DEF HeapInv
<1> QED BY <1>4, <1>16

\* (4) There is a new block f.
LEMMA NewKeeps ==
  ASSUME NEW h, NEW P, NEW j, NEW H \in SUBSET UmmBlockNos, InvWith(h, P, j, H), j.pc = "entry",
         NEW g, NEW f \in Frees(h.mask, H), NEW n \in Nat, n = UmmBlocks(j.size),
         Made(h, g, H, 0, f, f + n), j.cur <= n
  PROVE  HeapInv(g, P, SetJob(j, f, n, TRUE))
<1>1. PtrsOK(P) /\ JobOK(P, j) /\ Kept(h, P, j) /\ HeapOK(h, H) /\ Owned(h, P, j, H)
  BY DEF InvWith
<1>2. /\ ~Copying(j) /\ j \in UmmJobs /\ j.p \in UmmPtrs /\ Holder(P, j, j.p)
      /\ j.c = P[j.p].c /\ j.c # 0 /\ j.c = j.from /\ h.nblock[j.c] = j.c + j.cur
      /\ j.c \in Useds(h.mask, H)
  BY EntryFacts
<1>3. f \in UmmBlockNos /\ f \notin Useds(h.mask, H) /\ 0 \notin Useds(h.mask, H)
  <2>1. LinksOK(h, H)
    BY <1>1 DEF HeapOK
  <2>2. f \in UmmBlockNos /\ h.mask[f]
    BY <2>1, FreeFacts
  <2> QED BY <2>2 DEF Useds
<1>4. PICK p \in UmmPtrs : p = j.p
  BY <1>2
<1>5. PICK k : k = SetJob(j, f, n, TRUE)
  OBVIOUS
<1>6. JobIsSet(j, k, f, n, TRUE)
  BY <1>2, <1>3, <1>5, JobSet
<1>7. /\ k \in UmmJobs /\ k.pc = "copy" /\ k.c = f /\ k.blockSize = n /\ k.moved
      /\ k.p = p /\ k.size = j.size /\ k.from = j.from /\ k.cur = j.cur
  BY <1>4, <1>6 DEF JobIsSet
<1>8. Copying(k)
  BY <1>7 DEF Copying
<1>9. JobOK(P, k)
  <2>1. j.from # 0 /\ j.cur = UmmBlocks(P[j.p].bytes)
    BY <1>2, EntryFacts
  <2>2. n <= n
    OBVIOUS
  <2> QED BY <1>2, <1>4, <1>7, <1>8, <2>1, <2>2 DEF JobOK
<1>10. PICK G \in SUBSET UmmBlockNos :
          Changed(h, g, H, G, 0, {f}) /\ Undisturbed(h, g, H, 0, 0) /\ g.nblock[f] = f + n
  BY DEF Made
<1>11. /\ HeapOK(g, G) /\ Useds(g.mask, G) = (Useds(h.mask, H) \ {0}) \cup {f}
       /\ \A a \in Useds(h.mask, H) : g.nblock[a] = h.nblock[a]
  BY <1>3, <1>10 DEF Changed
<1>12. \A q \in UmmPtrs : Holder(P, k, q) <=> Holder(P, j, q)
  BY <1>2, <1>7 DEF Holder
<1>13. Others(P, j, P, k, p, 0)
  BY <1>12 DEF Others, Holder
<1>14. Holds(g, G, P, j, P, k, p)
  <2>1. \A q \in UmmPtrs : Holder(P, j, q) => P[q].c \in Useds(h.mask, H)
    BY <1>1, OwnedFacts
  <2>2. /\ k.c \in Useds(g.mask, G) /\ g.nblock[k.c] = k.c + k.blockSize
        /\ \A q \in UmmPtrs : Holder(P, j, q) => P[q].c # k.c
    BY <1>3, <1>7, <1>10, <1>11, <2>1
  <2>3. /\ P[p].c \in Useds(g.mask, G) /\ g.nblock[P[p].c] = P[p].c + UmmBlocks(P[p].bytes)
        /\ \A q \in UmmPtrs : q # p /\ Holder(P, j, q) => P[q].c # P[p].c
    <3>1. /\ P[p].c \in Useds(h.mask, H) /\ h.nblock[P[p].c] = P[p].c + UmmBlocks(P[p].bytes)
          /\ \A q \in UmmPtrs : q # p /\ Holder(P, j, q) => P[q].c # P[p].c
      BY <1>1, <1>2, <1>4, OwnedFacts
    <3> QED BY <1>3, <1>11, <3>1
  <2>4. ASSUME NEW a \in Useds(g.mask, G)
        PROVE  \/ P[p].c = a \/ k.c = a
               \/ \E q \in UmmPtrs : q # p /\ Holder(P, j, q) /\ P[q].c = a
    <3>1. CASE a = f
      BY <1>7, <3>1
    <3>2. CASE a # f
      <4>1. a \in Useds(h.mask, H)
        BY <1>11, <3>2
      <4>2. \E q \in UmmPtrs : Holder(P, j, q) /\ P[q].c = a
        BY <1>1, <1>2, <4>1, OwnedFacts
      <4> QED BY <4>2
    <3> QED BY <3>1, <3>2
  <2>5. Holder(P, k, p)
    BY <1>2, <1>4, <1>12
  <2> QED BY <1>2, <1>4, <1>8, <2>2, <2>3, <2>4, <2>5 DEF Holds
<1>15. Owned(g, P, k, G)
  BY <1>1, <1>10, <1>13, <1>14, OwnedStep
<1>16. Kept(g, P, k)
  <2> SUFFICES ASSUME NEW q \in UmmPtrs, P[q].c # 0, NEW x \in 0..(P[q].keep - 1)
               PROVE  g.data[DataAt(P, k, q) + x] = UmmDatum(q, x)
    BY DEF Kept
  <2>1. DataAt(P, k, q) = DataAt(P, j, q)
    BY <1>7 DEF DataAt
  <2>2. g.data[DataAt(P, j, q) + x] = UmmDatum(q, x)
    BY <1>10, DataStaysAll
  <2> QED BY <2>1, <2>2
<1>17. HeapInv(g, P, k)
  BY <1>1, <1>9, <1>11, <1>15, <1>16 DEF HeapInv
<1> QED BY <1>5, <1>17

\* The pointer that umm_realloc() returns.
Resized(P, p, c, size) ==
  [c |-> c, bytes |-> size, keep |-> Min({P[p].keep, UmmBlocks(size)})]

\* It keeps no more data than it had and than it has room for.
LEMMA ResizedOK ==
  ASSUME NEW P, PtrsOK(P), NEW p \in UmmPtrs, NEW c \in UmmBlockNos, NEW size \in UmmSizes,
         UmmBlocks(size) < 32767
  PROVE  LET r == Resized(P, p, c, size)
         IN  /\ PtrOK(r) /\ r.c = c /\ r.bytes = size /\ r.keep \in Nat
             /\ r.keep <= P[p].keep /\ r.keep <= UmmBlocks(size)
<1>1. size \in Nat
  BY SizesNat
<1>2. PICK n \in Nat : n = UmmBlocks(size)
  BY <1>1, BlocksIs
<1>3. PICK m \in Nat : m = P[p].keep
  BY PtrFacts
<1>4. PICK x : x = Min({m, n})
  OBVIOUS
<1>5. x \in Nat /\ x <= m /\ x <= n
  <2>1. {m, n} \in SUBSET Nat /\ {m, n} # {}
    OBVIOUS
  <2>2. x \in {m, n} /\ \A y \in {m, n} : x <= y
    BY <1>4, <2>1, MinNat
  <2> QED BY <2>2
<1>6. PICK r : r = Resized(P, p, c, size)
  OBVIOUS
<1>7. r = [c |-> c, bytes |-> size, keep |-> x]
  BY <1>2, <1>3, <1>4, <1>6 DEF Resized
<1>8. /\ r \in [c : UmmBlockNos, bytes : Nat, keep : Nat]
      /\ r.c = c /\ r.bytes = size /\ r.keep = x
  BY <1>1, <1>5, <1>7
<1>9. PtrOK(r)
  BY <1>2, <1>5, <1>8 DEF PtrOK
<1> QED BY <1>2, <1>3, <1>5, <1>6, <1>8, <1>9

\* The block c has the n blocks that were asked for: of its data those below
\* c + n are where they were.
Settled(h, g, H, c, n) ==
  \E G \in SUBSET UmmBlockNos :
     /\ Changed(h, g, H, G, c, {c}) /\ Undisturbed(h, g, H, c + n, h.nblock[c])
     /\ g.nblock[c] = c + n

\* umm_realloc() returns the block c.
LEMMA SettleKeeps ==
  ASSUME NEW h, NEW P, NEW j, NEW H \in SUBSET UmmBlockNos, InvWith(h, P, j, H),
         j.pc = "entry" \/ (j.pc = "exit" /\ ~j.moved),
         NEW g, NEW n, n = UmmBlocks(j.size), Settled(h, g, H, j.c, n)
  PROVE  HeapInv(g, SetPtr(P, j.p, Resized(P, j.p, j.c, j.size)), UmmNoJob)
<1>1. PtrsOK(P) /\ JobOK(P, j) /\ Kept(h, P, j) /\ HeapOK(h, H) /\ Owned(h, P, j, H)
  BY DEF InvWith
<1>2. LinksOK(h, H) /\ j.pc # "none"
  BY <1>1 DEF HeapOK
<1>3. /\ j \in UmmJobs /\ j.p \in UmmPtrs /\ j.size \in UmmSizes /\ j.c \in Nat
      /\ P[j.p].c = j.from /\ j.from # 0 /\ n \in Nat /\ n > 0
      /\ j.pc = "entry" => j.c = j.from
  BY <1>1, <1>2, JobFacts
<1>4. PICK p \in UmmPtrs : p = j.p
  BY <1>3
<1>5. PICK c \in Nat : c = j.c
  BY <1>3
<1>6. HeadOf(P, j, p) = c /\ DataAt(P, j, p) = c /\ P[p].c # 0
  <2>1. CASE j.pc = "entry"
    BY <1>3, <1>4, <1>5, <2>1 DEF HeadOf, DataAt, Copying
  <2>2. CASE j.pc = "exit" /\ ~j.moved
    BY <1>3, <1>4, <1>5, <2>2 DEF HeadOf, DataAt, Copying
  <2> QED BY <2>1, <2>2
<1>7. c \in Useds(h.mask, H)
  <2>1. Placed(h, P, j, H, p)
    BY <1>6, PlaceIs
  <2> QED BY <1>6, <2>1 DEF Placed
<1>8. PICK G \in SUBSET UmmBlockNos :
         /\ Changed(h, g, H, G, c, {c}) /\ Undisturbed(h, g, H, c + n, h.nblock[c])
         /\ g.nblock[c] = c + n
  BY <1>5 DEF Settled
<1>9. /\ HeapOK(g, G) /\ LinksOK(g, G) /\ Useds(g.mask, G) = (Useds(h.mask, H) \ {c}) \cup {c}
  BY <1>8 DEF Changed, HeapOK
<1>10. c \in Useds(g.mask, G) /\ c \in UmmBlockNos /\ c # 0 /\ n < 32767
  <2>1. c \in Useds(g.mask, G)
    BY <1>9
  <2>2. c \in UmmBlockNos /\ c # 0 /\ g.nblock[c] <= UmmLast
    BY <1>9, <2>1, UsedFacts
  <2>3. UmmLast \in Nat /\ UmmLast < 32767
    BY UmmAssumption
  <2> QED BY <1>3, <1>8, <2>1, <2>2, <2>3
<1>11. PICK r : r = Resized(P, p, c, j.size)
  OBVIOUS
<1>12. /\ PtrOK(r) /\ r.c = c /\ r.bytes = j.size /\ r.keep \in Nat
       /\ r.keep <= P[p].keep /\ r.keep <= n
  BY <1>1, <1>3, <1>10, <1>11, ResizedOK
<1>13. PICK R : R = SetPtr(P, p, r)
  OBVIOUS
<1>14. PtrsOK(R) /\ R[p] = r /\ \A q \in UmmPtrs : q # p => R[q] = P[q]
  <2>1. PtrIsSet(P, R, p, r)
    BY <1>1, <1>12, <1>13, PtrSet
  <2> QED BY <2>1 DEF PtrIsSet
<1>15. PICK k : k = UmmNoJob
  OBVIOUS
<1>16. k.pc = "none" /\ ~Copying(k) /\ JobOK(R, k)
  BY <1>15 DEF UmmNoJob, Copying, JobOK
<1>17. \A q \in UmmPtrs : Holder(R, k, q) <=> R[q].c # 0
  BY <1>16 DEF Holder
<1>18. \A q \in UmmPtrs : q # p => (Holder(P, j, q) <=> P[q].c # 0) /\ HeadOf(P, j, q) = P[q].c
  BY <1>4 DEF Holder, HeadOf
<1>19. \A q \in UmmPtrs : q # p /\ Holder(P, j, q) => P[q].c # c
  <2> SUFFICES ASSUME NEW q \in UmmPtrs, q # p, Holder(P, j, q) PROVE P[q].c # c
    OBVIOUS
  <2>1. P[q].c # 0 /\ HeadOf(P, j, q) = P[q].c
    BY <1>18
  <2>2. HeadOf(P, j, q) # HeadOf(P, j, p)
    BY <1>6, <2>1, PlaceApart
  <2> QED BY <1>6, <2>1, <2>2
<1>20. Others(P, j, R, k, p, c)
  BY <1>14, <1>17, <1>18, <1>19 DEF Others
<1>21. Holds(g, G, P, j, R, k, p)
  <2>1. Holder(R, k, p)
    BY <1>10, <1>12, <1>14, <1>17
  <2>2. /\ R[p].c \in Useds(g.mask, G) /\ g.nblock[R[p].c] = R[p].c + UmmBlocks(R[p].bytes)
        /\ \A q \in UmmPtrs : q # p /\ Holder(P, j, q) => P[q].c # R[p].c
    BY <1>8, <1>10, <1>12, <1>14, <1>19
  <2>3. ASSUME NEW a \in Useds(g.mask, G)
        PROVE  R[p].c = a \/ \E q \in UmmPtrs : q # p /\ Holder(P, j, q) /\ P[q].c = a
    <3>1. CASE a = c
      BY <1>12, <1>14, <3>1
    <3>2. CASE a # c
      <4>1. a \in Useds(h.mask, H)
        BY <1>9, <3>2
      <4>2. \/ \E q \in UmmPtrs : Holder(P, j, q) /\ P[q].c = a
            \/ Copying(j) /\ j.c = a
        BY <1>1, <4>1, OwnedFacts
      <4>3. Holder(P, j, p) => P[p].c = c
        <5>1. CASE j.pc = "entry"
          BY <1>3, <1>4, <1>5, <5>1
        <5>2. CASE j.pc = "exit" /\ ~j.moved
          BY <1>4, <5>2 DEF Holder, Copying
        <5> QED BY <5>1, <5>2
      <4> QED BY <1>5, <3>2, <4>2, <4>3
    <3> QED BY <3>1, <3>2
  <2> QED BY <1>16, <2>1, <2>2, <2>3 DEF Holds
<1>22. Owned(g, R, k, G)
  BY <1>1, <1>8, <1>20, <1>21, OwnedStep
<1>23. Kept(g, R, k)
  <2> SUFFICES ASSUME NEW q \in UmmPtrs, R[q].c # 0, NEW x \in 0..(R[q].keep - 1)
               PROVE  g.data[DataAt(R, k, q) + x] = UmmDatum(q, x)
    BY DEF Kept
  <2>1. DataAt(R, k, q) = R[q].c
    BY <1>16 DEF DataAt
  <2>2. CASE q = p
    <3>1. x \in 0..(P[p].keep - 1) /\ x < n /\ x \in Nat
      <4>1. PICK m \in Nat, y \in Nat : m = P[p].keep /\ y = r.keep
        BY <1>1, <1>12, PtrFacts
      <4>2. y <= m /\ y <= n /\ x \in 0..(y - 1)
        BY <1>12, <1>14, <2>2, <4>1
      <4>3. x \in 0..(m - 1) /\ x < n /\ x \in Nat
        BY <1>3, <4>2
      <4> QED BY <4>1, <4>3
    <3>2. PICK i : i = DataAt(P, j, p) + x
      OBVIOUS
    <3>3. i \in UsedCells(h.nblock, Useds(h.mask, H)) /\ h.data[i] = UmmDatum(p, x)
      BY <1>6, <3>1, <3>2, DataCells
    <3>4. i = c + x /\ i < c + n
      BY <1>3, <1>6, <3>1, <3>2
    <3>5. g.data[i] = h.data[i]
      BY <1>8, <3>3, <3>4 DEF Undisturbed
    <3> QED BY <1>12, <1>14, <2>1, <2>2, <3>3, <3>4, <3>5
  <2>3. CASE q # p
    <3>1. R[q] = P[q] /\ DataAt(P, j, q) = P[q].c
      BY <1>4, <1>14, <2>3 DEF DataAt
    <3>2. P[q].c # 0 /\ x \in 0..(P[q].keep - 1)
      BY <3>1
    <3>3. c # HeadOf(P, j, q)
      BY <1>6, <2>3, <3>2, PlaceApart
    <3>4. c + n \in Nat /\ h.nblock[c] \in Nat /\ c <= c + n /\ h.nblock[c] <= h.nblock[c]
      BY <1>2, <1>3, <1>7, UsedFacts
    <3>5. OnlyIn(h, g, H, c)
      BY <1>8, <3>4 DEF OnlyIn
    <3>6. g.data[DataAt(P, j, q) + x] = UmmDatum(q, x)
      BY <1>7, <3>2, <3>3, <3>5, DataStaysBut
    <3> QED BY <2>1, <3>1, <3>6
  <2> QED BY <2>2, <2>3
<1>24. HeapInv(g, R, k)
  BY <1>9, <1>14, <1>16, <1>22, <1>23 DEF HeapInv
<1> QED BY <1>4, <1>5, <1>11, <1>13, <1>15, <1>24

\* The end of umm_realloc() after a move: the old block is freed.
LEMMA MovedKeeps ==
  ASSUME NEW h, NEW P, NEW j, NEW H \in SUBSET UmmBlockNos, InvWith(h, P, j, H),
         j.pc = "exit", j.moved
  PROVE  HeapInv(UmmFreeCore(h, j.from), SetPtr(P, j.p, Resized(P, j.p, j.c, j.size)), UmmNoJob)
<1>1. PtrsOK(P) /\ JobOK(P, j) /\ Kept(h, P, j) /\ HeapOK(h, H) /\ Owned(h, P, j, H)
  BY DEF InvWith
<1>2. LinksOK(h, H) /\ j.pc # "none" /\ Copying(j)
  BY <1>1 DEF HeapOK, Copying
<1>3. /\ j \in UmmJobs /\ j.p \in UmmPtrs /\ j.size \in UmmSizes /\ j.c \in Nat
      /\ P[j.p].c = j.from /\ j.from # 0 /\ j.blockSize = UmmBlocks(j.size)
      /\ j.blockSize \in Nat
  BY <1>1, <1>2, JobFacts
<1>4. PICK p \in UmmPtrs : p = j.p
  BY <1>3
<1>5. PICK c \in Nat, n \in Nat : c = j.c /\ n = j.blockSize
  BY <1>3
<1>6. PICK o : o = j.from
  OBVIOUS
<1>7. Holder(P, j, p)
  BY <1>3, <1>4 DEF Holder
<1>8. /\ o \in Useds(h.mask, H) /\ c \in Useds(h.mask, H) /\ h.nblock[c] = c + n
      /\ o # c /\ \A q \in UmmPtrs : Holder(P, j, q) => P[q].c # c
  BY <1>1, <1>2, <1>3, <1>4, <1>5, <1>6, <1>7, OwnedFacts
<1>9. PICK g : g = UmmFreeCore(h, o)
  OBVIOUS
<1>10. PICK G \in SUBSET UmmBlockNos :
          Changed(h, g, H, G, o, {}) /\ Undisturbed(h, g, H, o, h.nblock[o])
  BY <1>1, <1>8, <1>9, FreeCoreOK
<1>11. /\ HeapOK(g, G) /\ Useds(g.mask, G) = Useds(h.mask, H) \ {o}
       /\ \A a \in Useds(h.mask, H) \ {o} : g.nblock[a] = h.nblock[a]
  BY <1>10 DEF Changed
<1>12. c \in UmmBlockNos /\ c # 0 /\ n < 32767
  <2>1. c \in UmmBlockNos /\ c # 0 /\ h.nblock[c] <= UmmLast
    BY <1>2, <1>8, UsedFacts
  <2>2. UmmLast \in Nat /\ UmmLast < 32767
    BY UmmAssumption
  <2> QED BY <1>8, <2>1, <2>2
<1>13. PICK r : r = Resized(P, p, c, j.size)
  OBVIOUS
<1>14. /\ PtrOK(r) /\ r.c = c /\ r.bytes = j.size /\ r.keep \in Nat
       /\ r.keep <= P[p].keep /\ r.keep <= UmmBlocks(j.size)
  BY <1>1, <1>3, <1>5, <1>12, <1>13, ResizedOK
<1>15. PICK R : R = SetPtr(P, p, r)
  OBVIOUS
<1>16. PtrsOK(R) /\ R[p] = r /\ \A q \in UmmPtrs : q # p => R[q] = P[q]
  <2>1. PtrIsSet(P, R, p, r)
    BY <1>1, <1>14, <1>15, PtrSet
  <2> QED BY <2>1 DEF PtrIsSet
<1>17. PICK k : k = UmmNoJob
  OBVIOUS
<1>18. k.pc = "none" /\ ~Copying(k) /\ JobOK(R, k)
  BY <1>17 DEF UmmNoJob, Copying, JobOK
<1>19. \A q \in UmmPtrs : (Holder(R, k, q) <=> R[q].c # 0) /\ (Holder(P, j, q) <=> P[q].c # 0)
  BY <1>18 DEF Holder
<1>20. \A q \in UmmPtrs : q # p /\ Holder(P, j, q) => P[q].c # o
  <2>1. \A q, s \in UmmPtrs : Holder(P, j, q) /\ Holder(P, j, s) /\ q # s => P[q].c # P[s].c
    BY <1>1, OwnedFacts
  <2> QED BY <1>3, <1>4, <1>6, <1>7, <2>1
<1>21. Others(P, j, R, k, p, o)
  BY <1>16, <1>19, <1>20 DEF Others
<1>22. Holds(g, G, P, j, R, k, p)
  <2>1. Holder(R, k, p)
    BY <1>12, <1>14, <1>16, <1>19
  <2>2. /\ R[p].c \in Useds(g.mask, G) /\ g.nblock[R[p].c] = R[p].c + UmmBlocks(R[p].bytes)
        /\ \A q \in UmmPtrs : q # p /\ Holder(P, j, q) => P[q].c # R[p].c
    BY <1>3, <1>5, <1>8, <1>11, <1>14, <1>16
  <2>3. ASSUME NEW a \in Useds(g.mask, G)
        PROVE  R[p].c = a \/ \E q \in UmmPtrs : q # p /\ Holder(P, j, q) /\ P[q].c = a
    <3>1. a \in Useds(h.mask, H) /\ a # o
      BY <1>11
    <3>2. \/ \E q \in UmmPtrs : Holder(P, j, q) /\ P[q].c = a
          \/ Copying(j) /\ j.c = a
      BY <1>1, <3>1, OwnedFacts
    <3> QED BY <1>3, <1>4, <1>5, <1>6, <1>14, <1>16, <3>1, <3>2
  <2> QED BY <1>18, <2>1, <2>2, <2>3 DEF Holds
<1>23. Owned(g, R, k, G)
  BY <1>1, <1>10, <1>21, <1>22, OwnedStep
<1>24. Kept(g, R, k)
  <2> SUFFICES ASSUME NEW q \in UmmPtrs, R[q].c # 0, NEW x \in 0..(R[q].keep - 1)
               PROVE  g.data[DataAt(R, k, q) + x] = UmmDatum(q, x)
    BY DEF Kept
  <2>1. P[q].c # 0 /\ x \in 0..(P[q].keep - 1)
    <3>1. CASE q = p
      <4>1. P[p].keep \in Nat
        BY <1>1, PtrFacts
      <4> QED BY <1>3, <1>4, <1>14, <1>16, <3>1, <4>1
    <3>2. CASE q # p
      BY <1>16, <3>2
    <3> QED BY <3>1, <3>2
  <2>2. DataAt(R, k, q) = DataAt(P, j, q) /\ o # HeadOf(P, j, q)
    <3>1. DataAt(R, k, q) = R[q].c
      BY <1>18 DEF DataAt
    <3>2. CASE q = p
      BY <1>2, <1>4, <1>5, <1>8, <1>14, <1>16, <3>1, <3>2 DEF DataAt, HeadOf
    <3>3. CASE q # p
      <4>1. DataAt(P, j, q) = P[q].c /\ HeadOf(P, j, q) = P[q].c
        BY <1>4, <3>3 DEF DataAt, HeadOf
      <4> QED BY <1>16, <1>19, <1>20, <2>1, <3>1, <3>3, <4>1
    <3> QED BY <3>2, <3>3
  <2>3. o \in Nat /\ h.nblock[o] \in Nat /\ o <= o /\ h.nblock[o] <= h.nblock[o]
    <3>1. o \in Nat /\ h.nblock[o] \in Nat
      BY <1>2, <1>8, UsedFacts
    <3> QED BY <3>1
  <2>4. OnlyIn(h, g, H, o)
    BY <1>10, <2>3 DEF OnlyIn
  <2>5. g.data[DataAt(P, j, q) + x] = UmmDatum(q, x)
    <3>1. o # HeadOf(P, j, q)
      BY <2>2
    <3>2. P[q].c # 0
      BY <2>1
    <3>3. x \in 0..(P[q].keep - 1)
      BY <2>1
    <3>4. o \in Useds(h.mask, H)
      BY <1>8
    <3> QED BY <2>4, <3>1, <3>2, <3>3, <3>4, DataStaysBut
  <2> QED BY <2>2, <2>5
<1>25. HeapInv(g, R, k)
  BY <1>11, <1>16, <1>18, <1>23, <1>24 DEF HeapInv
<1> QED BY <1>4, <1>5, <1>6, <1>9, <1>13, <1>15, <1>17, <1>25

\* The copy.
ExitJob(j) == [j EXCEPT !.pc = "exit"]

\* The locals of umm_realloc() after its copy.
LEMMA ExitJobIs ==
  ASSUME NEW j \in UmmJobs
  PROVE  LET k == ExitJob(j)
         IN  /\ k \in UmmJobs /\ k.pc = "exit" /\ k.c = j.c /\ k.blockSize = j.blockSize
             /\ (k.moved <=> j.moved)
             /\ k.p = j.p /\ k.size = j.size /\ k.from = j.from /\ k.cur = j.cur
BY DEF ExitJob, UmmJobs

\* memmove() and memcpy() in umm_realloc() carry the data to its new place.
LEMMA CopyKeeps ==
  ASSUME NEW h, NEW P, NEW j, NEW H \in SUBSET UmmBlockNos, InvWith(h, P, j, H), j.pc = "copy"
  PROVE  HeapInv(WithData(h, UmmCopied(h.data, j.from, j.c, j.cur)), P, ExitJob(j))
<1>1. PtrsOK(P) /\ JobOK(P, j) /\ Kept(h, P, j) /\ HeapOK(h, H) /\ Owned(h, P, j, H)
  BY DEF InvWith
<1>2. LinksOK(h, H) /\ j.pc # "none" /\ Copying(j)
  BY <1>1 DEF HeapOK, Copying
<1>3. /\ j \in UmmJobs /\ j.p \in UmmPtrs
      /\ j.c \in Nat /\ j.from \in Nat /\ j.cur \in Nat /\ j.blockSize \in Nat
      /\ P[j.p].c = j.from /\ j.from # 0 /\ j.cur = UmmBlocks(P[j.p].bytes)
      /\ P[j.p].keep \in Nat /\ P[j.p].keep <= j.cur
      /\ j.moved => j.cur <= j.blockSize
      /\ ~j.moved => j.c <= j.from /\ j.from + j.cur <= j.c + j.blockSize
  BY <1>1, <1>2, JobFacts
<1>4. PICK p \in UmmPtrs : p = j.p
  BY <1>3
<1>5. PICK c \in Nat, o \in Nat, n \in Nat : c = j.c /\ o = j.from /\ n = j.cur
  BY <1>3
<1>6. c \in Useds(h.mask, H) /\ h.nblock[c] = c + j.blockSize
  BY <1>1, <1>2, <1>5, OwnedFacts
<1>7. h \in UmmHeapType /\ h.data \in [UmmBlockNos -> UmmStored] /\ h.nblock[c] <= UmmLast
  BY <1>2, <1>6, LinksFacts, HeapFields, UsedFacts
\* The old place is in a block in use as well.
<1>8. PICK e \in Useds(h.mask, H) : /\ e \in Nat /\ e <= o /\ o + n <= h.nblock[e] /\ h.nblock[e] \in Nat
                                    /\ h.nblock[e] <= UmmLast
                                    /\ \A q \in UmmPtrs : q # p /\ Holder(P, j, q) => P[q].c # e
  <2>1. CASE j.moved
    <3>1. Holder(P, j, p)
      BY <1>3, <1>4, <2>1 DEF Holder
    <3>2. /\ o \in Useds(h.mask, H) /\ h.nblock[o] = o + n
          /\ \A q \in UmmPtrs : q # p /\ Holder(P, j, q) => P[q].c # o
      BY <1>1, <1>3, <1>4, <1>5, <3>1, OwnedFacts
    <3>3. h.nblock[o] <= UmmLast /\ o <= o /\ o + n <= h.nblock[o] /\ h.nblock[o] \in Nat
      BY <1>2, <3>2, UsedFacts
    <3> QED BY <3>2, <3>3
  <2>2. CASE ~j.moved
    <3>1. \A q \in UmmPtrs : Holder(P, j, q) => P[q].c # c
      BY <1>1, <1>2, <1>5, OwnedFacts
    <3>2. c <= o /\ o + n <= h.nblock[c] /\ h.nblock[c] \in Nat
      BY <1>3, <1>5, <1>6, <2>2
    <3> QED BY <1>6, <1>7, <3>1, <3>2
  <2> QED BY <2>1, <2>2
<1>9. c + n <= h.nblock[c]
  BY <1>3, <1>5, <1>6
<1>10. PICK d : d = UmmCopied(h.data, o, c, n)
  OBVIOUS
<1>11. \A i \in UmmBlockNos :
         /\ i \in UmmCells(c, n) => d[i] = h.data[o + (i - c)] /\ o + (i - c) \in UmmBlockNos
         /\ i \notin UmmCells(c, n) /\ i \in UmmCells(o, n) => d[i] = UmmNoData
         /\ i \notin UmmCells(c, n) /\ i \notin UmmCells(o, n) => d[i] = h.data[i]
  <2>1. \A i \in UmmBlockNos : i \in UmmCells(c, n) => o + (i - c) \in UmmBlockNos
    BY <1>8, BlockNos DEF UmmCells
  <2> QED BY <1>10, <2>1 DEF UmmCopied, UmmWiped
<1>12. d \in [UmmBlockNos -> UmmStored]
  <2>1. UmmNoData \in UmmStored
    BY DEF UmmStored
  <2>2. \A i \in UmmBlockNos : d[i] \in UmmStored
    BY <1>7, <1>11, <2>1
  <2>3. DOMAIN d = UmmBlockNos /\ d = [i \in UmmBlockNos |-> d[i]]
    BY <1>10 DEF UmmCopied
  <2> QED BY <2>2, <2>3
<1>13. PICK g : g = WithData(h, d)
  OBVIOUS
<1>14. HeapOK(g, H) /\ g.nblock = h.nblock /\ g.mask = h.mask /\ g.data = d
  <2>1. HasData(h, g, H, d)
    BY <1>1, <1>12, <1>13, DataField
  <2> QED BY <2>1 DEF HasData
<1>15. PICK k : k = ExitJob(j)
  OBVIOUS
<1>16. /\ k \in UmmJobs /\ k.pc = "exit" /\ k.c = j.c /\ k.blockSize = j.blockSize
       /\ (k.moved <=> j.moved)
       /\ k.p = j.p /\ k.size = j.size /\ k.from = j.from /\ k.cur = j.cur
  BY <1>3, <1>15, ExitJobIs
<1>17. Copying(k)
  BY <1>16 DEF Copying
<1>18. JobOK(P, k)
  <2>1. j # UmmNoJob
    BY <1>2 DEF UmmNoJob
  <2> QED BY <1>1, <1>2, <1>16, <1>17, <2>1 DEF JobOK
<1>19. \A q \in UmmPtrs : Holder(P, k, q) <=> Holder(P, j, q)
  BY <1>2, <1>16, <1>17 DEF Holder
<1>20. Owned(g, P, k, H)
  BY <1>1, <1>2, <1>14, <1>16, <1>17, <1>19 DEF Owned
<1>21. Kept(g, P, k)
  <2> SUFFICES ASSUME NEW q \in UmmPtrs, P[q].c # 0, NEW x \in 0..(P[q].keep - 1)
               PROVE  g.data[DataAt(P, k, q) + x] = UmmDatum(q, x)
    BY DEF Kept
  <2>1. CASE q = p
    <3>1. DataAt(P, k, q) = c /\ DataAt(P, j, q) = o
      BY <1>3, <1>4, <1>5, <1>16, <2>1 DEF DataAt
    <3>2. x \in Nat /\ x < n
      BY <1>3, <1>4, <1>5, <2>1
    <3>3. c + x \in UmmCells(c, n) /\ c + x \in UmmBlockNos /\ o + ((c + x) - c) = o + x
      <4>1. PICK y \in Nat : y = h.nblock[c] /\ c + n <= y /\ y <= UmmLast
        BY <1>3, <1>6, <1>7, <1>9
      <4>2. c + x \in Nat /\ c + x < c + n /\ c <= c + x /\ c + x <= UmmLast
        BY <3>2, <4>1, BlockNos
      <4>3. c + x \in UmmCells(c, n)
        BY <3>2, <4>2 DEF UmmCells
      <4> QED BY <3>2, <4>2, <4>3, BlockNos
    <3>4. h.data[o + x] = UmmDatum(q, x)
      BY <1>1, <3>1 DEF Kept
    <3> QED BY <1>11, <1>14, <3>1, <3>3, <3>4
  <2>2. CASE q # p
    <3>1. DataAt(P, k, q) = DataAt(P, j, q) /\ HeadOf(P, j, q) = P[q].c /\ Holder(P, j, q)
      BY <1>4, <1>16, <2>2 DEF DataAt, HeadOf, Holder
    <3>2. PICK i : i = DataAt(P, j, q) + x
      OBVIOUS
    <3>3. P[q].c # c /\ P[q].c # e
      <4>1. P[q].c # c
        BY <1>1, <1>2, <1>5, <3>1, OwnedFacts
      <4> QED BY <1>8, <2>2, <3>1, <4>1
    <3>4. /\ i \in Nat /\ i \in UmmBlockNos /\ h.data[i] = UmmDatum(q, x)
          /\ i < c \/ i >= h.nblock[c]
          /\ i < e \/ i >= h.nblock[e]
      BY <1>6, <1>8, <3>1, <3>2, <3>3, DataCells
    <3>5. i \notin UmmCells(c, n)
      BY <1>3, <1>6, <1>9, <3>4 DEF UmmCells
    <3>6. i \notin UmmCells(o, n)
      BY <1>8, <3>4 DEF UmmCells
    <3>7. d[i] = h.data[i]
      BY <1>11, <3>4, <3>5, <3>6
    <3> QED BY <1>14, <3>1, <3>2, <3>4, <3>7
  <2> QED BY <2>1, <2>2
<1>22. HeapInv(g, P, k)
  BY <1>1, <1>14, <1>18, <1>20, <1>21 DEF HeapInv
<1> QED BY <1>5, <1>10, <1>13, <1>15, <1>22

-----------------------------------------------------------------------------
(* Heap: the cases of umm_realloc()                                        *)

\* (1) The block before is free and there is room with it.
LEMMA ReallocDown ==
  ASSUME NEW h, NEW P, NEW j, NEW H \in SUBSET UmmBlockNos, InvWith(h, P, j, H), j.pc = "entry",
         NEW b, b = h.pblock[j.c], h.mask[b], NEW z, z = (j.c - b) + j.blockSize,
         UmmBlocks(j.size) <= z
  PROVE  HeapInv(GrownDown(h, j.c, b), P, SetJob(j, b, z, FALSE))
<1>1. HeapOK(h, H)
  BY DEF InvWith
<1>2. /\ j.c \in Useds(h.mask, H) /\ h.nblock[j.c] = j.c + j.cur /\ j.c \in Nat
      /\ j.cur \in Nat /\ j.blockSize = j.cur
  BY EntryFacts
<1>3. PICK c \in Nat, n \in Nat : c = j.c /\ n = j.cur
  BY <1>2
<1>4. PICK g : g = GrownDown(h, c, b)
  OBVIOUS
<1>5. MadeDown(h, g, H, c, b)
  <2>1. c \in Useds(h.mask, H) /\ b = h.pblock[c] /\ h.mask[b]
    BY <1>2, <1>3
  <2> QED BY <1>1, <1>4, <2>1, GrowDownOK
<1>6. /\ b \in Nat /\ b < c /\ b \notin Useds(h.mask, H)
      /\ Made(h, g, H, c, b, h.nblock[c])
  BY <1>5 DEF MadeDown, Made
<1>7. b \in UmmBlockNos
  <2>1. c <= UmmLast
    BY <1>1, <1>2, <1>3, UsedFacts, BlockNos DEF HeapOK
  <2> QED BY <1>3, <1>6, <2>1, BlockNos
<1>8. z \in Nat /\ h.nblock[c] = b + z /\ c + n <= b + z /\ b <= c
  BY <1>2, <1>3, <1>6
<1>9. Made(h, g, H, j.c, b, b + z) /\ j.c + j.cur <= b + z /\ b <= j.c
  BY <1>3, <1>6, <1>8
<1>10. HeapInv(g, P, SetJob(j, b, z, FALSE))
  BY <1>6, <1>7, <1>8, <1>9, InPlaceKeeps
<1> QED BY <1>3, <1>4, <1>10

\* (1) The next block is needed too.
LEMMA ReallocBoth ==
  ASSUME NEW h, NEW P, NEW j, NEW H \in SUBSET UmmBlockNos, InvWith(h, P, j, H), j.pc = "entry",
         NEW b, b = h.pblock[j.c], h.mask[b],
         NEW d, d = h.nblock[j.c], h.mask[d], NEW x, x = h.nblock[d] - d,
         NEW z, z = (j.c - b) + j.blockSize + x, NEW n, n = UmmBlocks(j.size),
         (j.c - b) + j.blockSize < n, n <= z
  PROVE  HeapInv(UmmTrim(GrownUp(GrownDown(h, j.c, b), b, x), b, z, n), P, SetJob(j, b, n, FALSE))
<1>1. HeapOK(h, H) /\ LinksOK(h, H)
  BY DEF InvWith, HeapOK
<1>2. /\ j.c \in Useds(h.mask, H) /\ h.nblock[j.c] = j.c + j.cur /\ j.c \in Nat
      /\ j.cur \in Nat /\ j.blockSize = j.cur /\ n \in Nat /\ n > 0
  BY EntryFacts
<1>3. PICK c \in Nat, u \in Nat : c = j.c /\ u = j.cur
  BY <1>2
<1>4. PICK g : g = UmmTrim(GrownUp(GrownDown(h, c, b), b, x), b, z, n)
  OBVIOUS
<1>5. b \in Nat /\ b < c /\ b \notin Useds(h.mask, H)
  <2>1. c \in Useds(h.mask, H) /\ b = h.pblock[c] /\ h.mask[b]
    BY <1>2, <1>3
  <2>2. MadeDown(h, GrownDown(h, c, b), H, c, b)
    BY <1>1, <2>1, GrowDownOK
  <2> QED BY <2>2 DEF MadeDown
<1>6. d = c + u /\ d \in H
  BY <1>1, <1>2, <1>3, UsedFacts
<1>7. PICK e \in Nat : e = h.nblock[d] /\ d < e
  <2>1. d \in Frees(h.mask, H)
    BY <1>6 DEF Frees
  <2> QED BY <1>1, <2>1, FreeFacts
<1>8. x = e - d /\ z \in Nat /\ b + z = h.nblock[d] /\ d <= b + n /\ c + u <= b + n /\ b <= c
  BY <1>2, <1>3, <1>5, <1>6, <1>7
<1>9. Made(h, g, H, c, b, b + n)
  <2>1. c \in Useds(h.mask, H) /\ b = h.pblock[c] /\ d = h.nblock[c]
    BY <1>2, <1>3
  <2>2. z \in Nat /\ b + z = h.nblock[d] /\ d <= b + n
    BY <1>8
  <2> QED BY <1>1, <1>2, <1>4, <2>1, <2>2, GrowBothOK
<1>10. b \in UmmBlockNos
  <2>1. c <= UmmLast
    BY <1>1, <1>2, <1>3, UsedFacts, BlockNos
  <2> QED BY <1>3, <1>5, <2>1, BlockNos
<1>11. Made(h, g, H, j.c, b, b + n) /\ j.c + j.cur <= b + n /\ b <= j.c /\ UmmBlocks(j.size) <= n
  BY <1>2, <1>3, <1>8, <1>9
<1>12. HeapInv(g, P, SetJob(j, b, n, FALSE))
  BY <1>2, <1>5, <1>10, <1>11, InPlaceKeeps
<1> QED BY <1>3, <1>4, <1>12

\* (2) The block is large enough, or the end of the call.
LEMMA ReallocTrim ==
  ASSUME NEW h, NEW P, NEW j, NEW H \in SUBSET UmmBlockNos, InvWith(h, P, j, H),
         j.pc = "entry" \/ (j.pc = "exit" /\ ~j.moved),
         NEW n, n = UmmBlocks(j.size), n <= j.blockSize
  PROVE  HeapInv(UmmTrim(h, j.c, j.blockSize, n), SetPtr(P, j.p, Resized(P, j.p, j.c, j.size)), UmmNoJob)
<1>1. PtrsOK(P) /\ JobOK(P, j) /\ HeapOK(h, H) /\ Owned(h, P, j, H)
  BY DEF InvWith
<1>2. j.pc # "none"
  OBVIOUS
<1>3. n \in Nat /\ n > 0 /\ j.c \in Nat /\ j.blockSize \in Nat
  BY <1>1, <1>2, JobFacts
<1>4. PICK c \in Nat, z \in Nat : c = j.c /\ z = j.blockSize
  BY <1>3
<1>5. c \in Useds(h.mask, H) /\ h.nblock[c] = c + z
  <2>1. CASE j.pc = "entry"
    BY <1>4, <2>1, EntryFacts
  <2>2. CASE j.pc = "exit"
    BY <1>1, <1>4, <2>2, OwnedFacts DEF Copying
  <2> QED BY <2>1, <2>2
<1>6. PICK g : g = UmmTrim(h, c, z, n)
  OBVIOUS
<1>7. Trimmed(h, g, H, c, n, z)
  BY <1>1, <1>3, <1>4, <1>5, <1>6, TrimOK
<1>8. Settled(h, g, H, j.c, n)
  BY <1>4, <1>5, <1>7 DEF Trimmed, Settled
<1>9. HeapInv(g, SetPtr(P, j.p, Resized(P, j.p, j.c, j.size)), UmmNoJob)
  BY <1>8, SettleKeeps
<1> QED BY <1>4, <1>6, <1>9

\* (3) There is room with the next block.
LEMMA ReallocUp ==
  ASSUME NEW h, NEW P, NEW j, NEW H \in SUBSET UmmBlockNos, InvWith(h, P, j, H), j.pc = "entry",
         NEW d, d = h.nblock[j.c], h.mask[d], NEW x, x = h.nblock[d] - d,
         NEW z, z = j.blockSize + x, NEW n, n = UmmBlocks(j.size), j.blockSize < n, n <= z
  PROVE  HeapInv(UmmTrim(GrownUp(h, j.c, x), j.c, z, n),
                 SetPtr(P, j.p, Resized(P, j.p, j.c, j.size)), UmmNoJob)
<1>1. HeapOK(h, H) /\ LinksOK(h, H)
  BY DEF InvWith, HeapOK
<1>2. /\ j.c \in Useds(h.mask, H) /\ h.nblock[j.c] = j.c + j.cur /\ j.c \in Nat
      /\ j.cur \in Nat /\ j.blockSize = j.cur /\ n \in Nat /\ n > 0
  BY EntryFacts
<1>3. PICK c \in Nat, u \in Nat : c = j.c /\ u = j.cur
  BY <1>2
<1>4. PICK g : g = UmmTrim(GrownUp(h, c, x), c, z, n)
  OBVIOUS
<1>5. d = c + u /\ d \in H
  BY <1>1, <1>2, <1>3, UsedFacts
<1>6. PICK e \in Nat : e = h.nblock[d] /\ d < e
  <2>1. d \in Frees(h.mask, H)
    BY <1>5 DEF Frees
  <2> QED BY <1>1, <2>1, FreeFacts
<1>7. z \in Nat /\ c + z = h.nblock[d] /\ d <= c + n
  BY <1>2, <1>3, <1>5, <1>6
<1>8. Made(h, g, H, c, c, c + n)
  <2>1. c \in Useds(h.mask, H) /\ d = h.nblock[c]
    BY <1>2, <1>3
  <2> QED BY <1>1, <1>2, <1>4, <1>7, <2>1, GrowTrimOK
<1>9. PICK G \in SUBSET UmmBlockNos :
        Changed(h, g, H, G, c, {c}) /\ Undisturbed(h, g, H, 0, 0) /\ g.nblock[c] = c + n
  BY <1>8 DEF Made
<1>10. Undisturbed(h, g, H, c + n, h.nblock[c])
  <2>1. \A i \in UsedCells(h.nblock, Useds(h.mask, H)) : i >= 0
    BY BlockNos DEF UsedCells
  <2> QED BY <1>9, <2>1 DEF Undisturbed
<1>11. Settled(h, g, H, j.c, n)
  BY <1>3, <1>9, <1>10 DEF Settled
<1>12. HeapInv(g, SetPtr(P, j.p, Resized(P, j.p, j.c, j.size)), UmmNoJob)
  BY <1>11, SettleKeeps
<1> QED BY <1>3, <1>4, <1>12

\* (4) A new block.
LEMMA ReallocNew ==
  ASSUME NEW h, NEW P, NEW j, NEW H \in SUBSET UmmBlockNos, InvWith(h, P, j, H), j.pc = "entry",
         NEW n, n = UmmBlocks(j.size), j.blockSize < n, NEW f, f = UmmBestFit(h, n), f # 0
  PROVE  HeapInv(UmmTake(h, f, n), P, SetJob(j, f, n, TRUE))
<1>1. HeapOK(h, H) /\ LinksOK(h, H)
  BY DEF InvWith, HeapOK
<1>2. j.cur \in Nat /\ j.blockSize = j.cur /\ n \in Nat /\ n > 0
  BY EntryFacts
<1>3. f \in Frees(h.mask, H) /\ n <= h.nblock[f] - f
  BY <1>1, <1>2, BestFitIs
<1>4. PICK g : g = UmmTake(h, f, n)
  OBVIOUS
<1>5. Made(h, g, H, 0, f, f + n)
  BY <1>1, <1>2, <1>3, <1>4, CoreTakeOK
<1>6. j.cur <= n
  BY <1>2
<1>7. HeapInv(g, P, SetJob(j, f, n, TRUE))
  BY <1>2, <1>3, <1>5, <1>6, NewKeeps
<1> QED BY <1>4, <1>7

-----------------------------------------------------------------------------
(* Heap: the allocations                                                   *)

Allocs(P, j) ==
  {[c |-> P[p].c, n |-> UmmBlocks(P[p].bytes)] : p \in {q \in UmmPtrs : Holder(P, j, q)}}
  \cup (IF Copying(j) THEN {[c |-> j.c, n |-> j.blockSize]} ELSE {})

AllocCells(P, j) == UNION {UmmCells(u.c, u.n) : u \in Allocs(P, j)}

\* They are the blocks in use, one allocation for each.
LEMMA AllocsAre ==
  ASSUME NEW h, NEW P, NEW j, NEW H \in SUBSET UmmBlockNos, InvWith(h, P, j, H)
  PROVE  /\ \A u \in Allocs(P, j) : /\ u.c \in Useds(h.mask, H) /\ h.nblock[u.c] = u.c + u.n
                                    /\ u.n \in Nat /\ u = [c |-> u.c, n |-> u.n]
         /\ \A a \in Useds(h.mask, H) : \E u \in Allocs(P, j) : u.c = a
<1>1. PtrsOK(P) /\ JobOK(P, j) /\ Owned(h, P, j, H)
  BY DEF InvWith
<1>2. ASSUME NEW u \in Allocs(P, j)
      PROVE  /\ u.c \in Useds(h.mask, H) /\ h.nblock[u.c] = u.c + u.n
             /\ u.n \in Nat /\ u = [c |-> u.c, n |-> u.n]
  <2>1. CASE \E p \in UmmPtrs : Holder(P, j, p) /\ u = [c |-> P[p].c, n |-> UmmBlocks(P[p].bytes)]
    <3>1. PICK p \in UmmPtrs : Holder(P, j, p) /\ u = [c |-> P[p].c, n |-> UmmBlocks(P[p].bytes)]
      BY <2>1
    <3>2. /\ P[p].c \in Useds(h.mask, H) /\ h.nblock[P[p].c] = P[p].c + UmmBlocks(P[p].bytes)
          /\ UmmBlocks(P[p].bytes) \in Nat
      BY <1>1, <3>1, OwnedFacts, PtrFacts
    <3> QED BY <3>1, <3>2
  <2>2. CASE Copying(j) /\ u = [c |-> j.c, n |-> j.blockSize]
    <3>1. j.pc # "none"
      BY <2>2 DEF Copying
    <3>2. /\ j.c \in Useds(h.mask, H) /\ h.nblock[j.c] = j.c + j.blockSize /\ j.blockSize \in Nat
      BY <1>1, <2>2, <3>1, OwnedFacts, JobFacts
    <3> QED BY <2>2, <3>2
  <2> QED BY <2>1, <2>2 DEF Allocs
<1>3. ASSUME NEW a \in Useds(h.mask, H)
      PROVE  \E u \in Allocs(P, j) : u.c = a
  <2>1. \/ \E q \in UmmPtrs : Holder(P, j, q) /\ P[q].c = a
        \/ Copying(j) /\ j.c = a
    BY <1>1, OwnedFacts
  <2>2. CASE \E q \in UmmPtrs : Holder(P, j, q) /\ P[q].c = a
    <3>1. PICK q \in UmmPtrs : Holder(P, j, q) /\ P[q].c = a
      BY <2>2
    <3>2. PICK u : u = [c |-> P[q].c, n |-> UmmBlocks(P[q].bytes)]
      OBVIOUS
    <3>3. u \in Allocs(P, j) /\ u.c = a
      BY <3>1, <3>2 DEF Allocs
    <3> QED BY <3>3
  <2>3. CASE Copying(j) /\ j.c = a
    <3>1. PICK u : u = [c |-> j.c, n |-> j.blockSize]
      OBVIOUS
    <3>2. u \in Allocs(P, j) /\ u.c = a
      BY <2>3, <3>1 DEF Allocs
    <3> QED BY <3>2
  <2> QED BY <2>1, <2>2, <2>3
<1> QED BY <1>2, <1>3

\* Their cells are those of the blocks in use.
LEMMA AllocCellsAre ==
  ASSUME NEW h, NEW P, NEW j, NEW H \in SUBSET UmmBlockNos, InvWith(h, P, j, H)
  PROVE  AllocCells(P, j) = UsedCells(h.nblock, Useds(h.mask, H))
<1>1. LinksOK(h, H)
  BY DEF InvWith, HeapOK
<1>2. ASSUME NEW i \in AllocCells(P, j)
      PROVE  i \in UsedCells(h.nblock, Useds(h.mask, H))
  <2>1. PICK u \in Allocs(P, j) : i \in UmmCells(u.c, u.n)
    BY DEF AllocCells
  <2>2. u.c \in Useds(h.mask, H) /\ h.nblock[u.c] = u.c + u.n /\ u.n \in Nat
    BY AllocsAre
  <2>3. PICK a \in Nat, n \in Nat : a = u.c /\ n = u.n
    BY <1>1, <2>2, UsedFacts
  <2>4. h.nblock[a] <= UmmLast /\ h.nblock[a] = a + n /\ a \in Useds(h.mask, H)
    BY <1>1, <2>2, <2>3, UsedFacts
  <2>5. i \in Nat /\ a <= i /\ i < a + n
    BY <2>1, <2>3 DEF UmmCells
  <2>6. i \in UmmBlockNos
    BY <2>3, <2>4, <2>5, BlockNos
  <2> QED BY <2>4, <2>5, <2>6 DEF UsedCells
<1>3. ASSUME NEW i \in UsedCells(h.nblock, Useds(h.mask, H))
      PROVE  i \in AllocCells(P, j)
  <2>1. PICK a \in Useds(h.mask, H) : a <= i /\ i < h.nblock[a]
    BY DEF UsedCells
  <2>2. i \in Nat /\ a \in Nat
    BY <1>1, UsedFacts, BlockNos DEF UsedCells
  <2>3. PICK u \in Allocs(P, j) : u.c = a
    BY AllocsAre
  <2>4. PICK n \in Nat : n = u.n /\ h.nblock[a] = a + n
    BY <2>3, AllocsAre
  <2>5. i \in UmmCells(u.c, u.n)
    BY <2>1, <2>2, <2>3, <2>4 DEF UmmCells
  <2> QED BY <2>5 DEF AllocCells
<1> QED BY <1>2, <1>3

\* A call fails only if no gap is large enough.
Full(P, j, n) ==
  n > 0 => ~\E c \in 1..(UmmLast - 1) : /\ c + n <= UmmLast
                                         /\ UmmCells(c, n) \cap AllocCells(P, j) = {}

\* umm_malloc_core() finds a block if there is one.
LEMMA FailsFull ==
  ASSUME NEW h, NEW P, NEW j, NEW H \in SUBSET UmmBlockNos, InvWith(h, P, j, H),
         NEW n \in Nat, UmmBestFit(h, n) = 0
  PROVE  Full(P, j, n)
<1>1. LinksOK(h, H)
  BY DEF InvWith, HeapOK
<1>2. \A f \in Frees(h.mask, H) : h.nblock[f] - f < n
  BY <1>1, BestFitIs
<1>3. AllocCells(P, j) = UsedCells(h.nblock, Useds(h.mask, H))
  BY AllocCellsAre
<1>4. ASSUME n > 0, NEW c \in 1..(UmmLast - 1), c + n <= UmmLast
      PROVE  UmmCells(c, n) \cap AllocCells(P, j) # {}
  BY <1>1, <1>2, <1>3, <1>4, NoGap
<1> QED BY <1>4 DEF Full

\* Whether the call is over or has not begun makes no difference to it.
LEMMA IdleAllocs ==
  ASSUME NEW P, NEW j, NEW k, ~Copying(j), ~Copying(k)
  PROVE  AllocCells(P, j) = AllocCells(P, k)
<1>1. \A q : Holder(P, j, q) <=> Holder(P, k, q)
  BY DEF Holder
<1>2. Allocs(P, j) = Allocs(P, k)
  BY <1>1 DEF Allocs
<1> QED BY <1>2 DEF AllocCells

\* The same of the variables.
LEMMA FullIs ==
  /\ UmmUsed = Allocs(ummPtr, ummJob) /\ UmmUsedBlocks = AllocCells(ummPtr, ummJob)
  /\ UmmFailsWhenFull <=> Full(ummPtr, ummJob, ummNull)
<1>1. UmmUsed = Allocs(ummPtr, ummJob)
  BY DEF UmmUsed, Allocs, UmmCopying, Copying, Holder
<1>2. UmmUsedBlocks = AllocCells(ummPtr, ummJob)
  BY <1>1 DEF UmmUsedBlocks, AllocCells
<1> QED BY <1>1, <1>2 DEF UmmFailsWhenFull, Full

\* And of their next values.
LEMMA FullIsNext ==
  UmmFailsWhenFull' <=> Full(ummPtr', ummJob', ummNull')
<1>1. UmmUsed' = Allocs(ummPtr', ummJob')
  BY DEF UmmUsed, Allocs, UmmCopying, Copying, Holder
<1>2. UmmUsedBlocks' = AllocCells(ummPtr', ummJob')
  BY <1>1 DEF UmmUsedBlocks, AllocCells
<1> QED BY <1>2 DEF UmmFailsWhenFull, Full

-----------------------------------------------------------------------------
(* Heap: the actions                                                       *)

\* The invariant, with the set of the headers.
LEMMA InvSome ==
  ASSUME NEW h, NEW P, NEW j, HeapInv(h, P, j)
  PROVE  \E H \in SUBSET UmmBlockNos : InvWith(h, P, j, H)
BY DEF HeapInv, InvWith

\* The invariant after a step that did not fail.
LEMMA InvAfter ==
  ASSUME HeapInv(ummHeap', ummPtr', ummJob'), ummNull' = 0
  PROVE  UmmInv'
<1>1. Full(ummPtr', ummJob', ummNull')
  BY DEF Full
<1> QED BY <1>1, FullIsNext DEF UmmInv

\* And after one that did: it leaves the heap and the pointers.
LEMMA InvAfterFail ==
  ASSUME NEW H \in SUBSET UmmBlockNos, InvWith(ummHeap, ummPtr, ummJob, H), NEW n \in Nat,
         UmmBestFit(ummHeap, n) = 0, ummNull' = n, ummHeap' = ummHeap, ummPtr' = ummPtr,
         ummJob' = ummJob \/ (ummJob.pc = "entry" /\ ummJob' = UmmNoJob)
  PROVE  UmmInv'
<1>1. Full(ummPtr, ummJob, n)
  BY FailsFull
<1>2. CASE ummJob' = ummJob
  <2>1. HeapInv(ummHeap', ummPtr', ummJob')
    BY <1>2 DEF InvWith, HeapInv
  <2>2. Full(ummPtr', ummJob', ummNull')
    BY <1>1, <1>2
  <2> QED BY <2>1, <2>2, FullIsNext DEF UmmInv
<1>3. CASE ummJob.pc = "entry" /\ ummJob' = UmmNoJob
  <2>1. PICK k : k = UmmNoJob
    OBVIOUS
  <2>2. ~Copying(k) /\ ~Copying(ummJob) /\ JobOK(ummPtr, k)
    BY <1>3, <2>1 DEF Copying, JobOK, UmmNoJob
  <2>3. HeapInv(ummHeap, ummPtr, k)
    BY <2>2, IdleKeeps
  <2>4. AllocCells(ummPtr, ummJob) = AllocCells(ummPtr, k)
    BY <2>2, IdleAllocs
  <2>5. Full(ummPtr, k, n)
    BY <1>1, <2>4 DEF Full
  <2>6. HeapInv(ummHeap', ummPtr', ummJob') /\ Full(ummPtr', ummJob', ummNull')
    BY <1>3, <2>1, <2>3, <2>5
  <2> QED BY <2>6, FullIsNext DEF UmmInv
<1> QED BY <1>2, <1>3

\* umm_malloc()
LEMMA MallocStep ==
  ASSUME UmmInv, NEW p \in UmmPtrs, NEW size \in UmmSizes, UmmMalloc(p, size)
  PROVE  UmmInv'
<1>1. PICK H \in SUBSET UmmBlockNos : InvWith(ummHeap, ummPtr, ummJob, H)
  BY InvSome DEF UmmInv
<1>2. PICK n \in Nat : n = UmmBlocks(size)
  BY SizesNat, BlocksIs
<1>3. PICK f : f = UmmBestFit(ummHeap, n)
  OBVIOUS
<1>4. CASE f = 0
  <2>1. ummNull' = n /\ ummHeap' = ummHeap /\ ummPtr' = ummPtr /\ ummJob' = ummJob
    BY <1>2, <1>3, <1>4 DEF UmmMalloc
  <2> QED BY <1>1, <1>3, <1>4, <2>1, InvAfterFail
<1>5. CASE f # 0
  <2>1. /\ ummNull' = 0 /\ ummPtr[p].c = 0 /\ ummJob' = ummJob
        /\ ummHeap' = WithData(UmmTake(ummHeap, f, n), UmmWritten(UmmTake(ummHeap, f, n).data, p, f, n))
        /\ ummPtr' = SetPtr(ummPtr, p, [c |-> f, bytes |-> size, keep |-> n])
    BY <1>2, <1>3, <1>5 DEF UmmMalloc, WithData, SetPtr
  <2>2. LinksOK(ummHeap, H)
    BY <1>1 DEF InvWith, HeapOK
  <2>3. f \in Frees(ummHeap.mask, H) /\ n <= ummHeap.nblock[f] - f
    BY <1>3, <1>5, <2>2, BestFitIs
  <2>4. HeapInv(WithData(UmmTake(ummHeap, f, n), UmmWritten(UmmTake(ummHeap, f, n).data, p, f, n)),
                SetPtr(ummPtr, p, [c |-> f, bytes |-> size, keep |-> n]), ummJob)
    BY <1>1, <1>2, <2>1, <2>3, MallocKeeps
  <2> QED BY <2>1, <2>4, InvAfter
<1> QED BY <1>4, <1>5

\* umm_free(), which does not free the block of a realloc() under way.
LEMMA FreeStep ==
  ASSUME UmmInv, NEW p \in UmmPtrs, UmmFree(p)
  PROVE  UmmInv'
<1>1. PICK H \in SUBSET UmmBlockNos : InvWith(ummHeap, ummPtr, ummJob, H)
  BY InvSome DEF UmmInv
<1>2. /\ ummNull' = 0 /\ ummPtr[p].c # 0 /\ ummJob' = ummJob
      /\ ummHeap' = UmmFreeCore(ummHeap, ummPtr[p].c) /\ ummPtr' = SetPtr(ummPtr, p, UmmNoPtr)
      /\ p \in UmmIsr \/ ummJob.pc = "none"
  BY DEF UmmFree, UmmMayRun, SetPtr
<1>3. ummJob.pc # "none" => p # ummJob.p
  <2>1. ummJob.pc # "none" => ummJob.p \in UmmApp
    BY <1>1, JobFacts DEF InvWith
  <2> QED BY <1>2, <2>1, UmmAssumption
<1>4. HeapInv(UmmFreeCore(ummHeap, ummPtr[p].c), SetPtr(ummPtr, p, UmmNoPtr), ummJob)
  BY <1>1, <1>2, <1>3, FreeKeeps
<1> QED BY <1>2, <1>4, InvAfter

\* umm_realloc() reads the size of its block.
LEMMA ReadStep ==
  ASSUME UmmInv, NEW p \in UmmPtrs, NEW size \in UmmSizes, UmmReallocRead(p, size)
  PROVE  UmmInv'
<1>1. PICK H \in SUBSET UmmBlockNos : InvWith(ummHeap, ummPtr, ummJob, H)
  BY InvSome DEF UmmInv
<1>2. PICK z : z = UmmSize(ummHeap, ummPtr[p].c)
  OBVIOUS
<1>3. PICK k : k = [pc |-> "entry", p |-> p, size |-> size, c |-> ummPtr[p].c,
                    from |-> ummPtr[p].c, blockSize |-> z, cur |-> z, moved |-> FALSE]
  OBVIOUS
<1>4. /\ p \in UmmApp /\ ummJob.pc = "none" /\ ummPtr[p].c # 0
      /\ ummJob' = k /\ ummNull' = 0 /\ ummHeap' = ummHeap /\ ummPtr' = ummPtr
  BY <1>2, <1>3 DEF UmmReallocRead
<1>5. ~Copying(ummJob) /\ ~Copying(k)
  BY <1>3, <1>4 DEF Copying
<1>6. PtrsOK(ummPtr) /\ Owned(ummHeap, ummPtr, ummJob, H)
  BY <1>1 DEF InvWith
<1>7. Holder(ummPtr, ummJob, p)
  BY <1>4, <1>5 DEF Holder
<1>8. /\ ummHeap.nblock[ummPtr[p].c] = ummPtr[p].c + UmmBlocks(ummPtr[p].bytes)
      /\ ummPtr[p].c \in Nat /\ UmmBlocks(ummPtr[p].bytes) \in Nat /\ ummPtr[p].c \in UmmBlockNos
  BY <1>6, <1>7, OwnedFacts, PtrFacts
<1>9. z = UmmBlocks(ummPtr[p].bytes) /\ z \in Nat
  BY <1>2, <1>8 DEF UmmSize
<1>10. /\ k \in UmmJobs /\ k.pc = "entry" /\ k.p = p /\ k.c = ummPtr[p].c /\ k.from = ummPtr[p].c
       /\ k.blockSize = z /\ k.cur = z /\ k.moved = FALSE
  BY <1>3, <1>4, <1>8, <1>9 DEF UmmJobs
<1>11. JobOK(ummPtr, k)
  BY <1>4, <1>5, <1>9, <1>10 DEF JobOK
<1>12. HeapInv(ummHeap, ummPtr, k)
  BY <1>1, <1>5, <1>11, IdleKeeps
<1> QED BY <1>4, <1>12, InvAfter

\* umm_realloc() copies.
LEMMA ReallocCopyStep ==
  ASSUME UmmInv, UmmReallocCopy
  PROVE  UmmInv'
<1>1. PICK H \in SUBSET UmmBlockNos : InvWith(ummHeap, ummPtr, ummJob, H)
  BY InvSome DEF UmmInv
<1>2. /\ ummNull' = 0 /\ ummJob.pc = "copy" /\ ummPtr' = ummPtr
      /\ ummHeap' = WithData(ummHeap, UmmCopied(ummHeap.data, ummJob.from, ummJob.c, ummJob.cur))
      /\ ummJob' = ExitJob(ummJob)
  BY DEF UmmReallocCopy, WithData, ExitJob
<1>3. HeapInv(WithData(ummHeap, UmmCopied(ummHeap.data, ummJob.from, ummJob.c, ummJob.cur)),
              ummPtr, ExitJob(ummJob))
  BY <1>1, <1>2, CopyKeeps
<1> QED BY <1>2, <1>3, InvAfter

\* The pointer that is returned.
LEMMA ReturnIs ==
  ASSUME NEW p, NEW c, NEW size, UmmReturn(p, c, size)
  PROVE  ummPtr' = SetPtr(ummPtr, p, Resized(ummPtr, p, c, size))
BY DEF UmmReturn, SetPtr, Resized

\* umm_realloc() ends.
LEMMA ExitStep ==
  ASSUME UmmInv, UmmReallocExit
  PROVE  UmmInv'
<1>1. PICK H \in SUBSET UmmBlockNos : InvWith(ummHeap, ummPtr, ummJob, H)
  BY InvSome DEF UmmInv
<1>2. PICK R : R = SetPtr(ummPtr, ummJob.p, Resized(ummPtr, ummJob.p, ummJob.c, ummJob.size))
  OBVIOUS
<1>3. UmmReturn(ummJob.p, ummJob.c, ummJob.size)
  BY DEF UmmReallocExit
<1>4. ummPtr' = R
  BY <1>2, <1>3, ReturnIs
<1>5. ummNull' = 0 /\ ummJob.pc = "exit" /\ ummJob' = UmmNoJob
  BY DEF UmmReallocExit
<1>6. CASE ummJob.moved
  <2>1. ummHeap' = UmmFreeCore(ummHeap, ummJob.from)
    BY <1>6 DEF UmmReallocExit
  <2>2. HeapInv(UmmFreeCore(ummHeap, ummJob.from), R, UmmNoJob)
    BY <1>1, <1>2, <1>5, <1>6, MovedKeeps
  <2> QED BY <1>4, <1>5, <2>1, <2>2, InvAfter
<1>7. CASE ~ummJob.moved
  <2>1. PICK n : n = UmmBlocks(ummJob.size)
    OBVIOUS
  <2>2. ummHeap' = UmmTrim(ummHeap, ummJob.c, ummJob.blockSize, n)
    BY <1>7, <2>1 DEF UmmReallocExit
  <2>3. n <= ummJob.blockSize
    BY <1>1, <1>5, <2>1, JobFacts DEF InvWith, Copying
  <2>4. HeapInv(UmmTrim(ummHeap, ummJob.c, ummJob.blockSize, n), R, UmmNoJob)
    BY <1>1, <1>2, <1>5, <1>7, <2>1, <2>3, ReallocTrim
  <2> QED BY <1>4, <1>5, <2>2, <2>4, InvAfter
<1> QED BY <1>6, <1>7

\* What the entry of umm_realloc() does, case by case.
EntryDown(n, b, z) ==
  /\ ummHeap.mask[b] /\ n <= z /\ ummHeap' = GrownDown(ummHeap, ummJob.c, b)
  /\ ummJob' = SetJob(ummJob, b, z, FALSE) /\ ummNull' = 0 /\ ummPtr' = ummPtr

EntryBoth(n, b, d, x, z) ==
  /\ ummHeap.mask[b] /\ ummHeap.mask[d] /\ (ummJob.c - b) + ummJob.blockSize < n /\ n <= z
  /\ x = ummHeap.nblock[d] - d
  /\ ummHeap' = UmmTrim(GrownUp(GrownDown(ummHeap, ummJob.c, b), b, x), b, z, n)
  /\ ummJob' = SetJob(ummJob, b, n, FALSE) /\ ummNull' = 0 /\ ummPtr' = ummPtr

EntryTrim(n) ==
  /\ n <= ummJob.blockSize
  /\ ummHeap' = UmmTrim(ummHeap, ummJob.c, ummJob.blockSize, n)
  /\ UmmReturn(ummJob.p, ummJob.c, ummJob.size) /\ ummJob' = UmmNoJob /\ ummNull' = 0

EntryUp(n, d, x, z) ==
  /\ ummHeap.mask[d] /\ ummJob.blockSize < n /\ n <= z /\ x = ummHeap.nblock[d] - d
  /\ ummHeap' = UmmTrim(GrownUp(ummHeap, ummJob.c, x), ummJob.c, z, n)
  /\ UmmReturn(ummJob.p, ummJob.c, ummJob.size) /\ ummJob' = UmmNoJob /\ ummNull' = 0

EntryNew(n, f) ==
  /\ f # 0 /\ ummJob.blockSize < n
  /\ ummHeap' = UmmTake(ummHeap, f, n) /\ ummJob' = SetJob(ummJob, f, n, TRUE)
  /\ ummNull' = 0 /\ ummPtr' = ummPtr

EntryFail(n, f) ==
  f = 0 /\ ummNull' = n /\ ummJob' = UmmNoJob /\ ummHeap' = ummHeap /\ ummPtr' = ummPtr

\* There are no others.
LEMMA EntryCases ==
  ASSUME UmmReallocEntry, NEW n \in Nat, n = UmmBlocks(ummJob.size),
         NEW b \in Nat, b = ummHeap.pblock[ummJob.c],
         NEW d \in Nat, d = ummHeap.nblock[ummJob.c],
         NEW e \in Nat, e = ummHeap.nblock[d], ummJob.c \in Nat, ummJob.blockSize \in Nat,
         NEW f, f = UmmBestFit(ummHeap, n)
  PROVE  \/ EntryDown(n, b, (ummJob.c - b) + ummJob.blockSize)
         \/ EntryBoth(n, b, d, e - d, (ummJob.c - b) + ummJob.blockSize + (e - d))
         \/ EntryTrim(n)
         \/ EntryUp(n, d, e - d, ummJob.blockSize + (e - d))
         \/ EntryNew(n, f)
         \/ EntryFail(n, f)
<1>1. PICK x \in Int : x = IF ummHeap.mask[d] THEN e - d ELSE 0
  OBVIOUS
<1>2. PICK y \in Int : y = IF ummHeap.mask[b] THEN ummJob.c - b ELSE 0
  OBVIOUS
<1>3. PICK z \in Nat : z = ummJob.blockSize
  OBVIOUS
<1>4. PICK down : down = [UmmAssimilateDown(UmmDisconnect(ummHeap, b), ummJob.c, FALSE)
                            EXCEPT !.free_blocks = @ - y]
  OBVIOUS
<1>5. CASE y > 0 /\ (y + z) + x >= n /\ y + z >= n
  <2>1. /\ ummHeap' = down /\ ummJob' = SetJob(ummJob, b, y + z, FALSE)
        /\ ummNull' = 0 /\ ummPtr' = ummPtr
    BY <1>1, <1>2, <1>3, <1>4, <1>5 DEF UmmReallocEntry, SetJob
  <2>2. ummHeap.mask[b] /\ y = ummJob.c - b
    BY <1>2, <1>5
  <2>3. down = GrownDown(ummHeap, ummJob.c, b)
    BY <1>4, <2>2 DEF GrownDown
  <2> QED BY <1>3, <1>5, <2>1, <2>2, <2>3 DEF EntryDown
<1>6. CASE y > 0 /\ (y + z) + x >= n /\ ~(y + z >= n)
  <2>1. /\ ummHeap' = UmmTrim([UmmAssimilateUp(down, b) EXCEPT !.free_blocks = @ - x], b, (y + z) + x, n)
        /\ ummJob' = SetJob(ummJob, b, n, FALSE)
        /\ ummNull' = 0 /\ ummPtr' = ummPtr
    BY <1>1, <1>2, <1>3, <1>4, <1>6 DEF UmmReallocEntry, SetJob
  <2>2. ummHeap.mask[b] /\ y = ummJob.c - b /\ ummHeap.mask[d] /\ x = e - d
    BY <1>1, <1>2, <1>6
  <2>3. down = GrownDown(ummHeap, ummJob.c, b)
    BY <1>4, <2>2 DEF GrownDown
  <2>4. ummHeap' = UmmTrim(GrownUp(GrownDown(ummHeap, ummJob.c, b), b, x), b, (y + z) + x, n)
    BY <2>1, <2>3 DEF GrownUp
  <2> QED BY <1>3, <1>6, <2>1, <2>2, <2>4, SMTT(30) DEF EntryBoth
<1>7. CASE ~(y > 0 /\ (y + z) + x >= n) /\ z >= n
  <2>1. /\ ummHeap' = UmmTrim(ummHeap, ummJob.c, ummJob.blockSize, n)
        /\ UmmReturn(ummJob.p, ummJob.c, ummJob.size) /\ ummJob' = UmmNoJob /\ ummNull' = 0
    BY <1>1, <1>2, <1>3, <1>7 DEF UmmReallocEntry
  <2> QED BY <1>3, <1>7, <2>1 DEF EntryTrim
<1>8. CASE ~(y > 0 /\ (y + z) + x >= n) /\ ~(z >= n) /\ z + x >= n
  <2>1. /\ ummHeap' = UmmTrim([UmmAssimilateUp(ummHeap, ummJob.c) EXCEPT !.free_blocks = @ - x], ummJob.c, z + x, n)
        /\ UmmReturn(ummJob.p, ummJob.c, ummJob.size) /\ ummJob' = UmmNoJob /\ ummNull' = 0
    BY <1>1, <1>2, <1>3, <1>8 DEF UmmReallocEntry
  <2>2. ummHeap.mask[d] /\ x = e - d
    BY <1>1, <1>8
  <2> QED BY <1>3, <1>8, <2>1, <2>2 DEF EntryUp, GrownUp
<1>9. CASE ~(y > 0 /\ (y + z) + x >= n) /\ ~(z >= n) /\ ~(z + x >= n) /\ f # 0
  <2>1. /\ ummHeap' = UmmTake(ummHeap, f, n) /\ ummJob' = SetJob(ummJob, f, n, TRUE)
        /\ ummNull' = 0 /\ ummPtr' = ummPtr
    BY <1>1, <1>2, <1>3, <1>9 DEF UmmReallocEntry, SetJob
  <2> QED BY <1>3, <1>9, <2>1 DEF EntryNew
<1>10. CASE ~(y > 0 /\ (y + z) + x >= n) /\ ~(z >= n) /\ ~(z + x >= n) /\ f = 0
  BY <1>1, <1>2, <1>3, <1>10 DEF UmmReallocEntry, EntryFail
<1> QED BY <1>5, <1>6, <1>7, <1>8, <1>9, <1>10

\* umm_realloc() in its critical section.
LEMMA EntryStep ==
  ASSUME UmmInv, UmmReallocEntry
  PROVE  UmmInv'
<1>1. PICK H \in SUBSET UmmBlockNos : InvWith(ummHeap, ummPtr, ummJob, H)
  BY InvSome DEF UmmInv
<1>2. ummJob.pc = "entry"
  BY DEF UmmReallocEntry
<1>3. LinksOK(ummHeap, H)
  BY <1>1 DEF InvWith, HeapOK
<1>4. /\ ummJob.c \in Useds(ummHeap.mask, H) /\ ummJob.c \in Nat /\ ummJob.blockSize \in Nat
      /\ UmmBlocks(ummJob.size) \in Nat
  BY <1>1, <1>2, EntryFacts
<1>5. ummJob.c \in UmmBlockNos
  BY <1>3, <1>4, UsedFacts
<1>6. /\ ummHeap.nblock \in [UmmBlockNos -> UmmBlockNos]
      /\ ummHeap.pblock \in [UmmBlockNos -> UmmBlockNos]
  BY <1>3, LinksFacts, HeapFields
<1>7. \A i \in UmmBlockNos : i \in Nat
  BY BlockNos
<1>8. PICK n \in Nat : n = UmmBlocks(ummJob.size)
  BY <1>4
<1>9. PICK b \in Nat : b = ummHeap.pblock[ummJob.c]
  BY <1>5, <1>6, <1>7
<1>10. PICK d \in Nat : d = ummHeap.nblock[ummJob.c] /\ d \in UmmBlockNos
  BY <1>5, <1>6, <1>7
<1>11. PICK e \in Nat : e = ummHeap.nblock[d]
  BY <1>6, <1>7, <1>10
<1>12. PICK f : f = UmmBestFit(ummHeap, n)
  OBVIOUS
<1>13. PICK x, z : x = e - d /\ z = (ummJob.c - b) + ummJob.blockSize
  OBVIOUS
<1>14. PICK R : R = SetPtr(ummPtr, ummJob.p, Resized(ummPtr, ummJob.p, ummJob.c, ummJob.size))
  OBVIOUS
<1>15. CASE EntryDown(n, b, z)
  <2>1. HeapInv(GrownDown(ummHeap, ummJob.c, b), ummPtr, SetJob(ummJob, b, z, FALSE))
    BY <1>1, <1>2, <1>8, <1>9, <1>13, <1>15, ReallocDown DEF EntryDown
  <2> QED BY <1>15, <2>1, InvAfter DEF EntryDown
<1>16. CASE EntryBoth(n, b, d, x, z + x)
  <2>1. /\ ummHeap.mask[b] /\ ummHeap.mask[d] /\ x = ummHeap.nblock[d] - d
        /\ (ummJob.c - b) + ummJob.blockSize < n /\ n <= z + x
    BY <1>16 DEF EntryBoth
  <2>2. PICK y : y = z + x /\ y = (ummJob.c - b) + ummJob.blockSize + x /\ n <= y
    BY <1>13, <2>1
  <2>3. HeapInv(UmmTrim(GrownUp(GrownDown(ummHeap, ummJob.c, b), b, x), b, y, n), ummPtr,
                SetJob(ummJob, b, n, FALSE))
    BY <1>1, <1>2, <1>8, <1>9, <1>10, <2>1, <2>2, ReallocBoth
  <2> QED BY <1>16, <2>2, <2>3, InvAfter DEF EntryBoth
<1>17. CASE EntryTrim(n)
  <2>1. HeapInv(UmmTrim(ummHeap, ummJob.c, ummJob.blockSize, n), R, UmmNoJob)
    BY <1>1, <1>2, <1>8, <1>14, <1>17, ReallocTrim DEF EntryTrim
  <2>2. ummPtr' = R
    BY <1>14, <1>17, ReturnIs DEF EntryTrim
  <2> QED BY <1>17, <2>1, <2>2, InvAfter DEF EntryTrim
<1>18. CASE EntryUp(n, d, x, ummJob.blockSize + x)
  <2>1. ummHeap.mask[d] /\ x = ummHeap.nblock[d] - d /\ ummJob.blockSize < n
    BY <1>18 DEF EntryUp
  <2>2. PICK y : y = ummJob.blockSize + x /\ n <= y
    BY <1>18 DEF EntryUp
  <2>3. HeapInv(UmmTrim(GrownUp(ummHeap, ummJob.c, x), ummJob.c, y, n), R, UmmNoJob)
    BY <1>1, <1>2, <1>8, <1>10, <1>14, <2>1, <2>2, ReallocUp
  <2>4. ummPtr' = R
    BY <1>14, <1>18, ReturnIs DEF EntryUp
  <2> QED BY <1>18, <2>2, <2>3, <2>4, InvAfter DEF EntryUp
<1>19. CASE EntryNew(n, f)
  <2>1. HeapInv(UmmTake(ummHeap, f, n), ummPtr, SetJob(ummJob, f, n, TRUE))
    BY <1>1, <1>2, <1>8, <1>12, <1>19, ReallocNew DEF EntryNew
  <2> QED BY <1>19, <2>1, InvAfter DEF EntryNew
<1>20. CASE EntryFail(n, f)
  BY <1>1, <1>2, <1>12, <1>20, InvAfterFail DEF EntryFail
<1> QED
  <2>1. \/ EntryDown(n, b, (ummJob.c - b) + ummJob.blockSize)
        \/ EntryBoth(n, b, d, e - d, (ummJob.c - b) + ummJob.blockSize + (e - d))
        \/ EntryTrim(n)
        \/ EntryUp(n, d, e - d, ummJob.blockSize + (e - d))
        \/ EntryNew(n, f)
        \/ EntryFail(n, f)
    BY <1>4, <1>8, <1>9, <1>10, <1>11, <1>12, EntryCases
  <2> QED BY <1>13, <1>15, <1>16, <1>17, <1>18, <1>19, <1>20, <2>1, Zenon

-----------------------------------------------------------------------------
(* Heap: the starts                                                         *)

\* The fields of the heap after _umm_init_heap().
LEMMA InitHeapIs ==
  /\ UmmInitHeap \in UmmHeapType
  /\ UmmInitHeap.nblock = [i \in UmmBlockNos |-> IF i = 0 THEN 1 ELSE IF i = 1 THEN UmmLast ELSE 0]
  /\ UmmInitHeap.mask = [i \in UmmBlockNos |-> i = 1]
  /\ UmmInitHeap.pblock = [i \in UmmBlockNos |-> IF i = UmmLast THEN 1 ELSE 0]
  /\ UmmInitHeap.nfree = [i \in UmmBlockNos |-> IF i = 0 THEN 1 ELSE 0]
  /\ UmmInitHeap.pfree = [i \in UmmBlockNos |-> IF i = 0 THEN 1 ELSE 0]
  /\ UmmInitHeap.free_blocks = UmmLast - 1
<1>1. 0 \in UmmBlockNos /\ 1 \in UmmBlockNos /\ UmmLast \in UmmBlockNos
  BY BlockNos
<1>2. UmmNoData \in UmmStored /\ UmmLast - 1 \in Int
  BY BlockNos DEF UmmStored
<1>3. [i \in UmmBlockNos |-> i = 1] \in [UmmBlockNos -> BOOLEAN]
  OBVIOUS
<1>4. /\ [i \in UmmBlockNos |-> IF i = 0 THEN 1 ELSE IF i = 1 THEN UmmLast ELSE 0] \in [UmmBlockNos -> UmmBlockNos]
      /\ [i \in UmmBlockNos |-> IF i = UmmLast THEN 1 ELSE 0] \in [UmmBlockNos -> UmmBlockNos]
      /\ [i \in UmmBlockNos |-> IF i = 0 THEN 1 ELSE 0] \in [UmmBlockNos -> UmmBlockNos]
      /\ [i \in UmmBlockNos |-> UmmNoData] \in [UmmBlockNos -> UmmStored]
  BY <1>1, <1>2
<1>5. UmmInitHeap \in UmmHeapType
  BY <1>2, <1>3, <1>4 DEF UmmInitHeap, UmmHeapType
<1> QED BY <1>5 DEF UmmInitHeap

\* Its lists: one free block between the two special ones.
LEMMA InitLinks ==
  LinksOK(UmmInitHeap, {0, 1, UmmLast}) /\ Useds(UmmInitHeap.mask, {0, 1, UmmLast}) = {}
<1>1. PICK h : h = UmmInitHeap
  OBVIOUS
<1>2. PICK H : H = {0, 1, UmmLast}
  OBVIOUS
<1>3. UmmLast \in Nat /\ UmmLast > 1 /\ H \subseteq UmmBlockNos /\ h \in UmmHeapType
  BY <1>1, <1>2, BlockNos, InitHeapIs
<1>4. h.nblock[0] = 1 /\ h.nblock[1] = UmmLast /\ h.pblock[1] = 0 /\ h.pblock[UmmLast] = 1
  BY <1>1, <1>2, <1>3, InitHeapIs
<1>5. \A i \in H : h.mask[i] <=> i = 1
  BY <1>1, <1>3, InitHeapIs
<1>6. h.nfree[0] = 1 /\ h.nfree[1] = 0 /\ h.pfree[0] = 1 /\ h.pfree[1] = 0
  BY <1>1, <1>2, <1>3, InitHeapIs
<1>7. Headers(h.nblock, h.pblock, H)
  <2>1. PICK nb, pb : nb = h.nblock /\ pb = h.pblock
    OBVIOUS
  <2>2. nb[0] = 1 /\ nb[1] = UmmLast /\ pb[1] = 0 /\ pb[UmmLast] = 1
    BY <1>4, <2>1
  <2>3. \A i \in H : i # UmmLast => nb[i] \in H /\ i < nb[i] /\ pb[nb[i]] = i
    BY <1>2, <1>3, <2>2
  <2>4. \A i, k \in H : i < k => nb[i] <= k
    BY <1>2, <1>3, <2>2
  <2>5. Headers(nb, pb, H)
    BY <1>2, <1>3, <2>3, <2>4 DEF Headers
  <2> QED BY <2>1, <2>5
<1>8. Masked(h.mask, h.nblock, H)
  BY <1>2, <1>3, <1>4, <1>5 DEF Masked
<1>9. Frees(h.mask, H) = {1} /\ Useds(h.mask, H) = {}
  BY <1>2, <1>5 DEF Frees, Useds
<1>10. FreeRing(h.nfree, h.pfree, {1})
  <2>1. PICK nf, pf : nf = h.nfree /\ pf = h.pfree
    OBVIOUS
  <2>2. nf[0] = 1 /\ nf[1] = 0 /\ pf[0] = 1 /\ pf[1] = 0
    BY <1>6, <2>1
  <2>3. {1} \cup {0} = {0, 1} /\ 0 \notin {1}
    OBVIOUS
  <2>4. \A i \in {0, 1} : /\ nf[i] \in {0, 1} /\ pf[i] \in {0, 1}
                          /\ pf[nf[i]] = i /\ nf[pf[i]] = i
    BY <2>2
  <2>5. \A S \in SUBSET {0, 1} : 0 \in S /\ (\A i \in S : nf[i] \in S) => S = {0, 1}
    BY <2>2
  <2>6. FreeRing(nf, pf, {1})
    BY <2>3, <2>4, <2>5, Zenon DEF FreeRing
  <2> QED BY <2>1, <2>6
<1>11. LinksOK(h, H)
  BY <1>3, <1>7, <1>8, <1>9, <1>10 DEF LinksOK
<1> QED BY <1>1, <1>2, <1>9, <1>11

\* The invariant holds after _umm_init_heap().
LEMMA HeapStart ==
  ASSUME UmmInit
  PROVE  UmmInv
<1>1. PICK h : h = UmmInitHeap
  OBVIOUS
<1>2. PICK H : H = {0, 1, UmmLast}
  OBVIOUS
<1>3. PICK P : P = [p \in UmmPtrs |-> UmmNoPtr]
  OBVIOUS
<1>4. PICK j : j = UmmNoJob
  OBVIOUS
<1>5. ummHeap = h /\ ummPtr = P /\ ummJob = j /\ ummNull = 0
  BY <1>1, <1>3, <1>4 DEF UmmInit
<1>6. LinksOK(h, H) /\ Useds(h.mask, H) = {} /\ h.free_blocks = UmmLast - 1
  BY <1>1, <1>2, InitLinks, InitHeapIs
<1>7. H \in SUBSET UmmBlockNos
  BY <1>2, BlockNos
<1>8. FreeCounted(h, H)
  <2>1. UsedCells(h.nblock, Useds(h.mask, H)) = {}
    BY <1>6 DEF UsedCells
  <2>2. Cardinality({}) = 0
    BY FS_EmptySet
  <2> QED BY <1>6, <2>1, <2>2, BlockNos DEF FreeCounted
<1>9. \A p \in UmmPtrs : P[p] = UmmNoPtr /\ P[p].c = 0
  BY <1>3 DEF UmmNoPtr
<1>10. PtrsOK(P)
  <2>1. UmmNoPtr \in [c : UmmBlockNos, bytes : Nat, keep : Nat]
    BY BlockNos DEF UmmNoPtr
  <2>2. P \in [UmmPtrs -> [c : UmmBlockNos, bytes : Nat, keep : Nat]]
    BY <1>3, <2>1
  <2> QED BY <1>9, <2>2 DEF PtrsOK
<1>11. JobOK(P, j) /\ ~Copying(j)
  BY <1>4 DEF JobOK, Copying, UmmNoJob
<1>12. Kept(h, P, j)
  BY <1>9 DEF Kept
<1>13. Owned(h, P, j, H)
  BY <1>6, <1>9, <1>11 DEF Owned, Holder
<1>14. HeapInv(h, P, j)
  BY <1>6, <1>7, <1>8, <1>10, <1>11, <1>12, <1>13 DEF HeapInv, HeapOK
<1>15. UmmFailsWhenFull
  BY <1>5 DEF UmmFailsWhenFull
<1> QED BY <1>5, <1>14, <1>15 DEF UmmInv

\* Every step of the heap keeps the invariant.
LEMMA HeapStep ==
  ASSUME UmmInv, [UmmNext]_ummVars
  PROVE  UmmInv'
<1>1. ASSUME NEW p \in UmmPtrs, NEW size \in UmmSizes, UmmMalloc(p, size) PROVE UmmInv'
  BY <1>1, MallocStep
<1>2. ASSUME NEW p \in UmmPtrs, NEW size \in UmmSizes, UmmReallocRead(p, size) PROVE UmmInv'
  BY <1>2, ReadStep
<1>3. ASSUME NEW p \in UmmPtrs, UmmFree(p) PROVE UmmInv'
  BY <1>3, FreeStep
<1>4. CASE UmmReallocEntry
  BY <1>4, EntryStep
<1>5. CASE UmmReallocCopy
  BY <1>5, ReallocCopyStep
<1>6. CASE UmmReallocExit
  BY <1>6, ExitStep
<1>7. CASE UNCHANGED ummVars
  <2>1. ummHeap' = ummHeap /\ ummPtr' = ummPtr /\ ummJob' = ummJob /\ ummNull' = ummNull
    BY <1>7 DEF ummVars
  <2>2. Full(ummPtr', ummJob', ummNull')
    BY <2>1, FullIs DEF UmmInv
  <2>3. HeapInv(ummHeap', ummPtr', ummJob')
    BY <2>1 DEF UmmInv
  <2> QED BY <2>1, <2>2, <2>3, FullIsNext DEF UmmInv
<1> QED BY <1>1, <1>2, <1>3, <1>4, <1>5, <1>6, <1>7 DEF UmmNext

-----------------------------------------------------------------------------
(* Heap: what the invariant says                                           *)

\* The block list, read off the allocations W and the starts F of the gaps.
LEMMA HeadsAre ==
  ASSUME NEW h, NEW P, NEW j, NEW H \in SUBSET UmmBlockNos, InvWith(h, P, j, H)
  PROVE  {u.c : u \in Allocs(P, j)} \cup Frees(h.mask, H) \cup {0, UmmLast} = H
<1>1. LinksOK(h, H)
  BY DEF InvWith, HeapOK
<1>2. 0 \in H /\ UmmLast \in H
  BY <1>1, LinksFacts, HeaderFacts
<1>3. {u.c : u \in Allocs(P, j)} = Useds(h.mask, H)
  BY AllocsAre
<1> QED BY <1>2, <1>3 DEF Frees, Useds

\* nblock and pblock are the neighbours among the headers.
LEMMA NextHeader ==
  ASSUME NEW h, NEW H \in SUBSET UmmBlockNos, LinksOK(h, H), NEW i \in H, i # UmmLast
  PROVE  /\ h.nblock[i] = Min({k \in H : k > i})
         /\ h.pblock[h.nblock[i]] = i
<1>1. Headers(h.nblock, h.pblock, H)
  BY LinksFacts
<1>2. /\ \A k \in H : k \in Nat
      /\ h.nblock[i] \in H /\ i < h.nblock[i] /\ h.nblock[i] \in Nat /\ h.pblock[h.nblock[i]] = i
      /\ \A k \in H : i < k => h.nblock[i] <= k
  BY <1>1, HeaderFacts
<1>3. PICK T : T = {k \in H : k > i}
  OBVIOUS
<1>4. T \in SUBSET Nat /\ h.nblock[i] \in T
  BY <1>2, <1>3
<1>5. PICK m : m = Min(T)
  OBVIOUS
<1>6. m \in T /\ \A y \in T : m <= y
  BY <1>4, <1>5, MinNat
<1>7. m \in Nat /\ h.nblock[i] <= m /\ m <= h.nblock[i]
  BY <1>2, <1>3, <1>4, <1>6
<1>8. h.nblock[i] = m
  BY <1>2, <1>7
<1> QED BY <1>2, <1>3, <1>5, <1>8

\* Two allocations share no block.
LEMMA AllocsApart ==
  ASSUME NEW h, NEW P, NEW j, NEW H \in SUBSET UmmBlockNos, InvWith(h, P, j, H),
         NEW u \in Allocs(P, j), NEW v \in Allocs(P, j), u # v
  PROVE  UmmCells(u.c, u.n) \cap UmmCells(v.c, v.n) = {}
<1>1. LinksOK(h, H)
  BY DEF InvWith, HeapOK
<1>2. /\ u.c \in Useds(h.mask, H) /\ h.nblock[u.c] = u.c + u.n /\ u.n \in Nat /\ u = [c |-> u.c, n |-> u.n]
      /\ v.c \in Useds(h.mask, H) /\ h.nblock[v.c] = v.c + v.n /\ v.n \in Nat /\ v = [c |-> v.c, n |-> v.n]
  BY AllocsAre
<1>3. PICK a \in Nat, m \in Nat, b \in Nat, n \in Nat : a = u.c /\ m = u.n /\ b = v.c /\ n = v.n
  BY <1>1, <1>2, UsedFacts
<1>4. /\ a \in H /\ a # UmmLast /\ b \in H /\ b # UmmLast
      /\ h.nblock[a] = a + m /\ h.nblock[b] = b + n
  BY <1>1, <1>2, <1>3, UsedFacts
<1>5. a # b
  BY <1>2, <1>3, <1>4
<1>6. ASSUME NEW i \in UmmCells(u.c, u.n), i \in UmmCells(v.c, v.n) PROVE FALSE
  <2>1. i \in Nat /\ a <= i /\ i < a + m /\ b <= i /\ i < b + n
    BY <1>3, <1>6 DEF UmmCells
  <2>2. Headers(h.nblock, h.pblock, H)
    BY <1>1, LinksFacts
  <2>3. i < h.nblock[a] /\ i < h.nblock[b]
    BY <1>4, <2>1
  <2> QED BY <1>4, <1>5, <2>1, <2>2, <2>3, Apart
<1> QED BY <1>6

\* UmmIntegrity of the values of the variables.
Sound(h, P, j, used, list, starts, heads) ==
  /\ \A u, v \in Allocs(P, j) : u # v => UmmCells(u.c, u.n) \cap UmmCells(v.c, v.n) = {}
  /\ used \subseteq 1..(UmmLast - 1)
  /\ \A p \in UmmPtrs : P[p].c # 0 => 8 * UmmBlocks(P[p].bytes) - 4 >= P[p].bytes
  /\ \A i \in heads \ {UmmLast} :
       /\ h.nblock[i] = Min({k \in heads : k > i})
       /\ h.pblock[h.nblock[i]] = i
       /\ h.mask[i] <=> i \in starts
  /\ ~h.mask[UmmLast]
  /\ ToSet(list) = starts /\ Len(list) = Cardinality(starts)
  /\ \A i \in starts \cup {0} : h.pfree[h.nfree[i]] = i
  /\ h.free_blocks = UmmLast - 1 - Cardinality(used)

\* It follows from the invariant.
LEMMA SoundIs ==
  ASSUME NEW h, NEW P, NEW j, NEW H \in SUBSET UmmBlockNos, InvWith(h, P, j, H)
  PROVE  Sound(h, P, j, AllocCells(P, j), UmmFreeList(h), Frees(h.mask, H), H)
<1>1. LinksOK(h, H) /\ FreeCounted(h, H) /\ PtrsOK(P)
  BY DEF InvWith, HeapOK
<1>2. PICK W : W = AllocCells(P, j)
  OBVIOUS
<1>3. W = UsedCells(h.nblock, Useds(h.mask, H))
  BY <1>2, AllocCellsAre
<1>4. \A u, v \in Allocs(P, j) : u # v => UmmCells(u.c, u.n) \cap UmmCells(v.c, v.n) = {}
  BY AllocsApart
<1>5. W \subseteq 1..(UmmLast - 1)
  <2> SUFFICES ASSUME NEW i \in W PROVE i \in 1..(UmmLast - 1)
    OBVIOUS
  <2>1. PICK a \in Useds(h.mask, H) : a <= i /\ i < h.nblock[a]
    BY <1>3 DEF UsedCells
  <2>2. i \in Nat
    BY <1>3, BlockNos DEF UsedCells
  <2>3. a \in Nat /\ a # 0 /\ h.nblock[a] \in Nat /\ h.nblock[a] <= UmmLast
    BY <1>1, UsedFacts
  <2> QED BY <2>1, <2>2, <2>3, BlockNos
<1>6. ASSUME NEW p \in UmmPtrs, P[p].c # 0
      PROVE  8 * UmmBlocks(P[p].bytes) - 4 >= P[p].bytes
  BY <1>1, <1>6, PtrFacts, BlocksIs
<1>7. ASSUME NEW i \in H \ {UmmLast}
      PROVE  /\ h.nblock[i] = Min({k \in H : k > i})
             /\ h.pblock[h.nblock[i]] = i
             /\ h.mask[i] <=> i \in Frees(h.mask, H)
  <2>1. i \in H /\ i # UmmLast
    OBVIOUS
  <2>2. h.nblock[i] = Min({k \in H : k > i}) /\ h.pblock[h.nblock[i]] = i
    BY <1>1, <2>1, NextHeader
  <2> QED BY <2>1, <2>2 DEF Frees
<1>8. /\ ~h.mask[UmmLast]
      /\ \A i \in Frees(h.mask, H) \cup {0} : h.pfree[h.nfree[i]] = i
  BY <1>1, LinksFacts, RingLinks
<1>9. ToSet(UmmFreeList(h)) = Frees(h.mask, H) /\ Len(UmmFreeList(h)) = Cardinality(Frees(h.mask, H))
  BY <1>1, FreeListIs DEF Listed
<1>10. h.free_blocks = UmmLast - 1 - Cardinality(W)
  BY <1>1, <1>3 DEF FreeCounted
<1> QED BY <1>2, <1>4, <1>5, <1>6, <1>7, <1>8, <1>9, <1>10 DEF Sound

\* So does UmmIntegrity.
LEMMA IntegrityHolds ==
  ASSUME UmmInv
  PROVE  UmmIntegrity
<1>1. PICK H \in SUBSET UmmBlockNos : InvWith(ummHeap, ummPtr, ummJob, H)
  BY InvSome DEF UmmInv
<1>2. UmmUsed = Allocs(ummPtr, ummJob) /\ UmmUsedBlocks = AllocCells(ummPtr, ummJob)
  BY FullIs
<1>3. UmmGaps = Frees(ummHeap.mask, H)
  <2>1. PICK W : W = UmmUsedBlocks
    OBVIOUS
  <2>2. W = UsedCells(ummHeap.nblock, Useds(ummHeap.mask, H)) /\ LinksOK(ummHeap, H)
    BY <1>1, <1>2, <2>1, AllocCellsAre DEF InvWith, HeapOK
  <2>3. {i \in 1..(UmmLast - 1) : i \notin W /\ (i = 1 \/ i - 1 \in W)} = Frees(ummHeap.mask, H)
    BY <2>2, GapStarts
  <2> QED BY <2>1, <2>3 DEF UmmGaps
<1>4. UmmHeads = H
  BY <1>1, <1>2, <1>3, HeadsAre DEF UmmHeads
<1>5. Sound(ummHeap, ummPtr, ummJob, UmmUsedBlocks, UmmFreeList(ummHeap), UmmGaps, UmmHeads)
  BY <1>1, <1>2, <1>3, <1>4, SoundIs
<1> QED BY <1>2, <1>5, Zenon DEF UmmIntegrity, Sound

\* And UmmPromise.
LEMMA PromiseHolds ==
  ASSUME UmmInv
  PROVE  UmmPromise
<1>1. Kept(ummHeap, ummPtr, ummJob) /\ UmmFailsWhenFull
  BY DEF UmmInv, HeapInv
<1>2. UmmDataKept
  BY <1>1 DEF UmmDataKept, Kept, DataAt
<1> QED BY <1>1, <1>2 DEF UmmPromise

\* The invariant holds in every state of the heap.
LEMMA HeapInvariant == UmmSpec => []UmmInv
<1>1. UmmInit => UmmInv
  BY HeapStart
<1>2. UmmInv /\ [UmmNext]_ummVars => UmmInv'
  BY HeapStep
<1> QED BY <1>1, <1>2, PTL DEF UmmSpec

\* umm_malloc.cpp keeps its lists: in every state that malloc(), free() and
\* realloc() reach, by the sketch and by interrupt handlers that run between
\* the parts of realloc(), the allocations are disjoint and large enough, the
\* block list has them and the gaps between them and nothing else, the free
\* list has the gaps, and stats.free_blocks counts them.
THEOREM HeapSound == UmmSpec => []UmmIntegrity
<1>1. UmmInv => UmmIntegrity
  BY IntegrityHolds
<1> QED BY <1>1, HeapInvariant, PTL

\* Data stays where its owner finds it, through umm_realloc() too, and a call
\* returns NULL only if no run of unused blocks is long enough.
THEOREM HeapPromise == UmmSpec => []UmmPromise
<1>1. UmmInv => UmmPromise
  BY PromiseHolds
<1> QED BY <1>1, HeapInvariant, PTL
=============================================================================
