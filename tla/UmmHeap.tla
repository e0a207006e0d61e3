------------------------------- MODULE UmmHeap -------------------------------
(***************************************************************************)
(* The heap: umm_malloc/umm_malloc.cpp in its default build (best fit,     *)
(* UMM_REALLOC_DEFRAG, UMM_LIGHTWEIGHT_CPU, UMM_STATS, no poison, one      *)
(* heap).                                                                  *)
(*                                                                         *)
(* The heap is an array of blocks of 8 bytes.  A header (4 bytes) links    *)
(* the block to the next and the previous one in memory; the body holds    *)
(* the links of the free list while the block is free, and data while it   *)
(* is in use.  An allocation of n blocks owns the body of the first and    *)
(* all of the others.                                                      *)
(*                                                                         *)
(* malloc() and free() run with interrupts off.  realloc() reads the size  *)
(* of its block before it turns them off, and turns them on again while it *)
(* copies: an interrupt handler may allocate and free at those two points. *)
(*                                                                         *)
(* A field whose memory has become something else (the header of a block   *)
(* merged into another, the links of a block in use, freed data) is 0 or   *)
(* UmmNoData here: what is left there is not told apart.                   *)
(***************************************************************************)
EXTENDS Integers, Sequences, FiniteSets, SequencesExt, FiniteSetsExt

CONSTANTS
    UmmLast,    \* UMM_BLOCK_LAST: the index of the last block
    UmmApp,     \* pointers of the sketch
    UmmIsr,     \* pointers of interrupt handlers
    UmmSizes    \* sizes in bytes that are asked for

UmmPtrs == UmmApp \cup UmmIsr

ASSUME UmmAssumption ==
    /\ UmmLast \in Nat /\ UmmLast > 1 /\ UmmLast < 32767
    /\ UmmSizes \subseteq Nat \ {0}
    /\ UmmApp \cap UmmIsr = {}

VARIABLES
    ummHeap,  \* the blocks and stats.free_blocks, see UmmInitHeap
    ummPtr,   \* the pointers: first block (0: NULL), bytes asked for, blocks of data
    ummJob,   \* the locals of a realloc() that is under way
    ummNull   \* blocks that the last call asked for in vain, 0 if it had them

ummVars == <<ummHeap, ummPtr, ummJob, ummNull>>

UmmBlockNos == 0..UmmLast
UmmNoData   == <<>>
UmmNoPtr    == [c |-> 0, bytes |-> 0, keep |-> 0]
UmmNoJob    == [pc |-> "none"]

(* The content of the k-th block of the data of p.                         *)
UmmDatum(p, k) == <<p, k>>

(* Memory d, where nothing is left of the data in cells.                   *)
UmmWiped(d, cells) == [i \in UmmBlockNos |-> IF i \in cells THEN UmmNoData ELSE d[i]]

(* _umm_init_heap(): one free block between the two special ones.  mask is *)
(* the bit UMM_FREELIST_MASK of nblock.                                    *)
UmmInitHeap ==
    [nblock |-> [i \in UmmBlockNos |-> IF i = 0 THEN 1 ELSE IF i = 1 THEN UmmLast ELSE 0],
     mask   |-> [i \in UmmBlockNos |-> i = 1],
     pblock |-> [i \in UmmBlockNos |-> IF i = UmmLast THEN 1 ELSE 0],
     nfree  |-> [i \in UmmBlockNos |-> IF i = 0 THEN 1 ELSE 0],
     pfree  |-> [i \in UmmBlockNos |-> IF i = 0 THEN 1 ELSE 0],
     data   |-> [i \in UmmBlockNos |-> UmmNoData],
     free_blocks |-> UmmLast - 1]

UmmInit ==
    /\ ummHeap = UmmInitHeap
    /\ ummPtr = [p \in UmmPtrs |-> UmmNoPtr]
    /\ ummJob = UmmNoJob
    /\ ummNull = 0

-----------------------------------------------------------------------------
(* Operators on the heap, one for each function of the allocator.          *)

(* Without the limit of 32767.                                             *)
UmmBlocks_Wraps(size) ==
    IF size <= 4 THEN 1 ELSE (2 + ((size - 4 - 1) \div 8)) % 65536

(* umm_blocks(): blocks for size bytes, in 16 bits.                        *)
UmmBlocks(size) ==
    IF size <= 4 THEN 1
    ELSE LET blocks == 2 + ((size - 4 - 1) \div 8)
         IN  (IF blocks > 32767 THEN 32767 ELSE blocks) % 65536

(* UMM_NFREE(a) = b and UMM_PFREE(b) = a: both are written into the bodies *)
(* of the blocks.                                                          *)
UmmLink(h, a, b) ==
    [h EXCEPT !.nfree[a] = b, !.pfree[b] = a,
              !.data[a] = UmmNoData, !.data[b] = UmmNoData]

UmmSize(h, c)  == h.nblock[c] - c
UmmCells(c, n) == c..(c + n - 1)

(* umm_split_block(): writes a new header at c + blocks.                   *)
UmmSplitBlock(h, c, blocks, free) ==
    [h EXCEPT !.nblock[c + blocks] = h.nblock[c], !.mask[c + blocks] = free,
              !.pblock[c + blocks] = c,
              !.pblock[h.nblock[c]] = c + blocks,
              !.nblock[c] = c + blocks, !.mask[c] = FALSE,
              !.data[c + blocks] = UmmNoData]

(* umm_disconnect_from_free_list() *)
UmmDisconnect(h, c) ==
    [UmmLink(h, h.pfree[c], h.nfree[c]) EXCEPT !.mask[c] = FALSE,
                                               !.nfree[c] = 0, !.pfree[c] = 0]

(* umm_assimilate_up() *)
UmmAssimilateUp(h, c) ==
    LET next == h.nblock[c] IN
    IF ~h.mask[next] THEN h
    ELSE [UmmDisconnect(h, next) EXCEPT !.pblock[h.nblock[next]] = c,
                                        !.nblock[c] = h.nblock[next],
                                        !.nblock[next] = 0, !.pblock[next] = 0]

(* umm_assimilate_down(): the merged block starts at UMM_PBLOCK(c).        *)
UmmAssimilateDown(h, c, free) ==
    [h EXCEPT !.nblock[h.pblock[c]] = h.nblock[c], !.mask[h.pblock[c]] = free,
              !.pblock[h.nblock[c]] = h.pblock[c],
              !.nblock[c] = 0, !.pblock[c] = 0]

(* umm_free_core() *)
UmmFreeCore(h, c) ==
    LET old == UmmCells(c, UmmSize(h, c))
        g   == UmmAssimilateUp([h EXCEPT !.free_blocks = @ + UmmSize(h, c),
                                         !.data = UmmWiped(@, old)], c)
    IN
    IF g.mask[g.pblock[c]]
    THEN UmmAssimilateDown(g, c, TRUE)
    ELSE [UmmLink(UmmLink(g, c, g.nfree[0]), 0, c) EXCEPT !.mask[c] = TRUE]

(* The free list, as the loop of umm_malloc_core() walks it: one turn, and *)
(* all of them.                                                            *)
UmmWalk(h, s) ==
    LET n == h.nfree[IF s = <<>> THEN 0 ELSE s[Len(s)]]
    IN  IF n = 0 THEN s ELSE Append(s, n)

UmmFreeList(h) ==
    LET walk[i \in 0..UmmLast] == IF i = 0 THEN <<>> ELSE UmmWalk(h, walk[i - 1])
    IN  walk[UmmLast]

(* umm_malloc_core(): the first of the smallest free blocks that fit, 0    *)
(* if none does.                                                           *)
UmmBestFit(h, blocks) ==
    LET list == UmmFreeList(h)
        fits == {i \in DOMAIN list : UmmSize(h, list[i]) >= blocks}
        best == Min({UmmSize(h, list[i]) : i \in fits})
    IN  IF fits = {} THEN 0 ELSE list[Min({i \in fits : UmmSize(h, list[i]) = best})]

(* umm_malloc_core(): the free block cf is taken, its rest stays on the    *)
(* free list in its place.                                                 *)
UmmTake(h, cf, blocks) ==
    LET g == [h EXCEPT !.free_blocks = @ - blocks]
        rest == cf + blocks
    IN  IF UmmSize(h, cf) = blocks
        THEN UmmDisconnect(g, cf)
        ELSE [UmmLink(UmmLink(UmmSplitBlock(g, cf, blocks, TRUE),
                              h.pfree[cf], rest), rest, h.nfree[cf])
                EXCEPT !.nfree[cf] = 0, !.pfree[cf] = 0]

(* The end of umm_realloc(): what is too much is cut off and freed.        *)
UmmTrim(h, c, blockSize, blocks) ==
    IF blockSize > blocks
    THEN UmmFreeCore(UmmSplitBlock(h, c, blocks, FALSE), c + blocks)
    ELSE h

-----------------------------------------------------------------------------
(* malloc() and free(), by the sketch or by an interrupt handler.          *)

(* While realloc() is under way only interrupt handlers run.               *)
UmmMayRun(p) == p \in UmmIsr \/ ummJob.pc = "none"

(* Memory d, with the data of p in the blocks from c on.                   *)
UmmWritten(d, p, c, blocks) ==
    [i \in UmmBlockNos |-> IF i \in UmmCells(c, blocks) THEN UmmDatum(p, i - c) ELSE d[i]]

(* umm_malloc(), and umm_calloc() with the product of its arguments: the   *)
(* caller then writes its data.                                            *)
UmmMalloc(p, size) ==
    LET blocks == UmmBlocks(size)
        cf     == UmmBestFit(ummHeap, blocks)
        taken  == UmmTake(ummHeap, cf, blocks)
    IN  /\ UmmMayRun(p)
        /\ ummPtr[p].c = 0
        /\ IF cf = 0
           THEN /\ ummNull' = blocks
                /\ UNCHANGED <<ummHeap, ummPtr>>
           ELSE /\ ummNull' = 0
                /\ ummHeap' = [taken EXCEPT !.data = UmmWritten(@, p, cf, blocks)]
                /\ ummPtr' = [ummPtr EXCEPT ![p] =
                        [c |-> cf, bytes |-> size, keep |-> blocks]]
        /\ UNCHANGED ummJob

(* umm_free(), and umm_realloc() to 0 bytes.                               *)
UmmFree(p) ==
    /\ UmmMayRun(p)
    /\ ummPtr[p].c # 0
    /\ ummHeap' = UmmFreeCore(ummHeap, ummPtr[p].c)
    /\ ummPtr' = [ummPtr EXCEPT ![p] = UmmNoPtr]
    /\ ummNull' = 0
    /\ UNCHANGED ummJob

-----------------------------------------------------------------------------
(* realloc(), by the sketch.                                               *)

(* umm_realloc() up to UMM_CRITICAL_ENTRY(): reads the size of the block.  *)
UmmReallocRead(p, size) ==
    /\ p \in UmmApp
    /\ ummJob.pc = "none"
    /\ ummPtr[p].c # 0
    /\ LET blockSize == UmmSize(ummHeap, ummPtr[p].c) IN
       ummJob' = [pc |-> "entry", p |-> p, size |-> size, c |-> ummPtr[p].c,
                  from |-> ummPtr[p].c, blockSize |-> blockSize, cur |-> blockSize,
                  moved |-> FALSE]
    /\ ummNull' = 0
    /\ UNCHANGED <<ummHeap, ummPtr>>

(* p now points to c, where what fits of its data is kept.                 *)
UmmReturn(p, c, size) ==
    ummPtr' = [ummPtr EXCEPT ![p] = [c |-> c, bytes |-> size,
                                     keep |-> Min({@.keep, UmmBlocks(size)})]]

(* The critical section of umm_realloc() up to the copy, or to the end if  *)
(* there is none: (1) the previous block is free and with it, or with the  *)
(* next one too, there is room, (2) the block is large enough, (3) it is   *)
(* with the next block, (4) a new block.                                   *)
UmmReallocEntry ==
    LET j      == ummJob
        h      == ummHeap
        blocks == UmmBlocks(j.size)
        next   == h.nblock[j.c]
        prev   == h.pblock[j.c]
        nextBlockSize == IF h.mask[next] THEN h.nblock[next] - next ELSE 0
        prevBlockSize == IF h.mask[prev] THEN j.c - prev ELSE 0
        downSize == prevBlockSize + j.blockSize
        upSize   == j.blockSize + nextBlockSize
        down   == [UmmAssimilateDown(UmmDisconnect(h, prev), j.c, FALSE)
                     EXCEPT !.free_blocks = @ - prevBlockSize]
        both   == [UmmAssimilateUp(down, prev) EXCEPT !.free_blocks = @ - nextBlockSize]
        up     == [UmmAssimilateUp(h, j.c) EXCEPT !.free_blocks = @ - nextBlockSize]
        new    == UmmBestFit(h, blocks)
        Copy(g, c, blockSize, moved) ==
                      /\ ummHeap' = g
                      /\ ummJob' = [j EXCEPT !.pc = "copy", !.c = c,
                                      !.blockSize = blockSize, !.moved = moved]
                      /\ ummNull' = 0
                      /\ UNCHANGED ummPtr
        Done(g)    == /\ ummHeap' = g
                      /\ ummJob' = UmmNoJob
                      /\ ummNull' = 0
                      /\ UmmReturn(j.p, j.c, j.size)
    IN  /\ j.pc = "entry"
        /\ IF prevBlockSize > 0 /\ downSize + nextBlockSize >= blocks
           THEN IF downSize >= blocks
                THEN Copy(down, prev, downSize, FALSE)
                ELSE Copy(UmmTrim(both, prev, downSize + nextBlockSize, blocks), prev, blocks, FALSE)
           ELSE IF j.blockSize >= blocks
           THEN Done(UmmTrim(h, j.c, j.blockSize, blocks))
           ELSE IF upSize >= blocks
           THEN Done(UmmTrim(up, j.c, upSize, blocks))
           ELSE IF new # 0
           THEN Copy(UmmTake(h, new, blocks), new, blocks, TRUE)
           ELSE /\ ummNull' = blocks
                /\ ummJob' = UmmNoJob
                /\ UNCHANGED <<ummHeap, ummPtr>>

(* Memory d after a copy of n blocks, of whose old place nothing is left.  *)
UmmCopied(d, from, to, n) ==
    [i \in UmmBlockNos |-> IF i \in UmmCells(to, n) THEN d[from + (i - to)]
                           ELSE UmmWiped(d, UmmCells(from, n))[i]]

(* The last block is not copied.                                           *)
UmmReallocCopy_Short ==
    LET j == ummJob IN
    /\ j.pc = "copy"
    /\ ummHeap' = [ummHeap EXCEPT !.data = UmmCopied(@, j.from, j.c, j.cur - 1)]
    /\ ummJob' = [j EXCEPT !.pc = "exit"]
    /\ ummNull' = 0
    /\ UNCHANGED ummPtr

(* memmove() or memcpy() of all the bytes of the old block, interrupts on. *)
UmmReallocCopy ==
    LET j == ummJob IN
    /\ j.pc = "copy"
    /\ ummHeap' = [ummHeap EXCEPT !.data = UmmCopied(@, j.from, j.c, j.cur)]
    /\ ummJob' = [j EXCEPT !.pc = "exit"]
    /\ ummNull' = 0
    /\ UNCHANGED ummPtr

(* The rest of umm_realloc(): in case (4) the old block, which is not part *)
(* of the new one, is freed; what is too much is cut off.                  *)
UmmReallocExit ==
    LET j == ummJob IN
    /\ j.pc = "exit"
    /\ ummHeap' = IF j.moved
                  THEN UmmFreeCore(ummHeap, j.from)
                  ELSE UmmTrim(ummHeap, j.c, j.blockSize, UmmBlocks(j.size))
    /\ UmmReturn(j.p, j.c, j.size)
    /\ ummJob' = UmmNoJob
    /\ ummNull' = 0

-----------------------------------------------------------------------------
UmmNext ==
    \/ \E p \in UmmPtrs :
         \/ \E size \in UmmSizes : UmmMalloc(p, size) \/ UmmReallocRead(p, size)
         \/ UmmFree(p)
    \/ UmmReallocEntry
    \/ UmmReallocCopy
    \/ UmmReallocExit

UmmSpec == UmmInit /\ [][UmmNext]_ummVars

-----------------------------------------------------------------------------
(* Properties                                                              *)

(* The blocks in use: one allocation for each pointer, and a second one    *)
(* while realloc() copies to a new block.                                  *)
UmmCopying == ummJob.pc \in {"copy", "exit"}
UmmUsed ==
    {[c |-> ummPtr[p].c, n |-> UmmBlocks(ummPtr[p].bytes)] :
        p \in {q \in UmmPtrs : /\ ummPtr[q].c # 0
                               /\ UmmCopying /\ ~ummJob.moved => q # ummJob.p}}
    \cup (IF UmmCopying THEN {[c |-> ummJob.c, n |-> ummJob.blockSize]} ELSE {})
UmmUsedBlocks == UNION {UmmCells(u.c, u.n) : u \in UmmUsed}

(* Where the gaps between them start, and where there has to be a header.  *)
UmmGaps == {i \in 1..(UmmLast - 1) : /\ i \notin UmmUsedBlocks
                                     /\ i = 1 \/ i - 1 \in UmmUsedBlocks}
UmmHeads == {u.c : u \in UmmUsed} \cup UmmGaps \cup {0, UmmLast}

(* The heap is sound, whatever interrupt handlers do between the steps of  *)
(* realloc(): the allocations are disjoint and each has the blocks it      *)
(* needs for its bytes, the block list has exactly the allocations and the *)
(* maximal runs of free blocks between them (so free neighbours are always *)
(* merged), back links agree with forward links, the free list has exactly *)
(* the free blocks and is doubly linked, and stats.free_blocks counts them *)
(* (what umm_integrity_check() walks, and more).                           *)
UmmIntegrity ==
    LET h    == ummHeap
        list == UmmFreeList(h)
    IN  /\ \A u, v \in UmmUsed : u # v => UmmCells(u.c, u.n) \cap UmmCells(v.c, v.n) = {}
        /\ UmmUsedBlocks \subseteq 1..(UmmLast - 1)
        /\ \A p \in UmmPtrs : ummPtr[p].c # 0 => 8 * UmmBlocks(ummPtr[p].bytes) - 4 >= ummPtr[p].bytes
        /\ \A i \in UmmHeads \ {UmmLast} :
             /\ h.nblock[i] = Min({k \in UmmHeads : k > i})
             /\ h.pblock[h.nblock[i]] = i
             /\ h.mask[i] <=> i \in UmmGaps
        /\ ~h.mask[UmmLast]
        /\ ToSet(list) = UmmGaps /\ Len(list) = Cardinality(UmmGaps)
        /\ \A i \in UmmGaps \cup {0} : h.pfree[h.nfree[i]] = i
        /\ h.free_blocks = UmmLast - 1 - Cardinality(UmmUsedBlocks)

(* Data stays: the blocks of an allocation hold what its owner wrote, also *)
(* through realloc(), where it is at the old place until the copy is made  *)
(* and at the new one afterwards, the part that fits the new size too.     *)
UmmDataKept ==
    \A p \in UmmPtrs :
      LET moving == ummJob.pc = "exit" /\ ummJob.p = p
          c      == IF moving THEN ummJob.c ELSE ummPtr[p].c
      IN  ummPtr[p].c # 0 =>
            \A k \in 0..(ummPtr[p].keep - 1) :
               ummHeap.data[c + k] = UmmDatum(p, k)

(* malloc() and realloc() return NULL only if no run of unused blocks is   *)
(* long enough.                                                            *)
UmmFailsWhenFull ==
    ummNull > 0 =>
        ~\E c \in 1..(UmmLast - 1) : /\ c + ummNull <= UmmLast
                                     /\ UmmCells(c, ummNull) \cap UmmUsedBlocks = {}

(* What the callers of the heap are promised: data stays, and there is     *)
(* memory as long as some gap is large enough (umm_realloc(),              *)
(* umm_malloc_core()).                                                     *)
UmmPromise == UmmDataKept /\ UmmFailsWhenFull
=============================================================================
