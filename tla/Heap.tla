-------------------------------- MODULE Heap --------------------------------
(***************************************************************************)
(* The kernel heap of mm/heap.c.  A table holds one byte per block; a      *)
(* request is served from the first run of free entries that is long       *)
(* enough, and every entry of an allocation except its last carries the    *)
(* flag HEAP_BLOCK_HAS_NEXT, which is all kfree has to find its end.       *)
(*                                                                         *)
(* Each loop iteration of get_free_entry and of set_blocks_free is a step, *)
(* so that the loops themselves are what is checked and proved.  No other  *)
(* code runs on the heap meanwhile: the kernel has one thread, and its     *)
(* interrupt handlers never allocate.                                      *)
(***************************************************************************)
EXTENDS Integers

CONSTANTS
  Total,      \* kernel_heap_table.total, the number of table entries
  BlockSize,  \* HEAP_BLOCK_SIZE
  Sizes       \* the sizes the kernel passes to kmalloc

MaxInt == 2147483647

\* kheap_init: the heap has a whole, positive number of blocks.
ASSUME TotalAssumption == Total \in Nat \ {0}
ASSUME BlockSizeAssumption == BlockSize \in Nat \ {0, 1}

\* Callers pass non-negative ints, for which the conversions of the block
\* count from size_t to uint32_t to int lose nothing.
ASSUME SizesAssumption == Sizes \subseteq 0 .. MaxInt

VARIABLES
  entries,  \* heap_table.entries, one byte per block
  live,     \* live[b]: blocks marked for the pointer to block b that a
            \*   caller holds, 0 when no caller holds one
  pc,       \* the heap function being executed, "idle" outside the heap
  size,     \* kmalloc's argument
  i,        \* the loop index of get_free_entry and of set_blocks_free
  bc,       \* get_free_entry: blocks counted in the current run
  bs,       \* get_free_entry: first block of the current run, or -1
  ptr       \* kfree's argument, as a block number

locals == <<size, i, bc, bs, ptr>>
vars == <<entries, live, pc, locals>>

-----------------------------------------------------------------------------
HEAP_FREE == 0
HEAP_TAKEN == 1
HEAP_BLOCK_HAS_NEXT == 128

TAKEN_AND_NEXT == HEAP_TAKEN + HEAP_BLOCK_HAS_NEXT  \* HEAP_TAKEN | HAS_NEXT

isfree_untaken(entry) == entry # HEAP_TAKEN  \* mutant
isfree(entry) == entry % 16 = HEAP_FREE

has_next_masked(entry) == (entry % 16) \div HEAP_BLOCK_HAS_NEXT = 1  \* mutant
has_next(entry) == entry \div HEAP_BLOCK_HAS_NEXT = 1

Blocks == 0 .. Total - 1

(***************************************************************************)
(* heap_malloc's block count.  C reads !size % HEAP_BLOCK_SIZE as          *)
(* (!size) % HEAP_BLOCK_SIZE, so only size 0 takes the first branch.       *)
(***************************************************************************)
not(n) == IF n = 0 THEN 1 ELSE 0

num_blocks(n) ==
  IF not(n) % BlockSize # 0 THEN n \div BlockSize ELSE n \div BlockSize + 1

-----------------------------------------------------------------------------
\* kheap_init and heap_create: every entry is free.
Init ==
  /\ entries = [b \in Blocks |-> HEAP_FREE]
  /\ live = [b \in Blocks |-> 0]
  /\ pc = "idle"
  /\ size = 0
  /\ i = 0
  /\ bc = 0
  /\ bs = -1
  /\ ptr = 0

\* Leaving the heap; the locals are dead.
Return ==
  /\ pc' = "idle"
  /\ size' = 0
  /\ i' = 0
  /\ bc' = 0
  /\ bs' = -1
  /\ ptr' = 0

\* kmalloc -> heap_malloc -> heap_malloc_blocks -> get_free_entry.
kmalloc(s) ==
  /\ pc = "idle"
  /\ pc' = "get_free_entry"
  /\ size' = s
  /\ i' = 0
  /\ bc' = 0
  /\ bs' = -1
  /\ UNCHANGED <<entries, live, ptr>>

SkipTaken_counting ==  \* mutant: bc is not reset
  /\ pc = "get_free_entry"
  /\ i < Total
  /\ ~isfree(entries[i])
  /\ bs' = -1
  /\ i' = i + 1
  /\ UNCHANGED <<entries, live, pc, size, bc, ptr>>

SkipTaken_keeping ==  \* mutant: bs is not reset
  /\ pc = "get_free_entry"
  /\ i < Total
  /\ ~isfree(entries[i])
  /\ bc' = 0
  /\ i' = i + 1
  /\ UNCHANGED <<entries, live, pc, size, bs, ptr>>

\* A taken entry ends the run.
SkipTaken ==
  /\ pc = "get_free_entry"
  /\ i < Total
  /\ ~isfree(entries[i])
  /\ bc' = 0
  /\ bs' = -1
  /\ i' = i + 1
  /\ UNCHANGED <<entries, live, pc, size, ptr>>

\* A free entry starts or extends the run; the loop breaks once it is long
\* enough.
CountFree ==
  /\ pc = "get_free_entry"
  /\ i < Total
  /\ isfree(entries[i])
  /\ bs' = IF bs = -1 THEN i ELSE bs
  /\ bc' = bc + 1
  /\ IF bc' = num_blocks(size)
     THEN pc' = "heap_malloc_blocks" /\ i' = i
     ELSE pc' = pc /\ i' = i + 1
  /\ UNCHANGED <<entries, live, size, ptr>>

EndOfTable_missed ==  \* mutant: the loop starts over
  /\ pc = "get_free_entry"
  /\ i = Total
  /\ i' = 0
  /\ bc' = 0
  /\ bs' = -1
  /\ UNCHANGED <<entries, live, pc, size, ptr>>

\* The loop falls off the table, and whatever run it was in is the result.
EndOfTable ==
  /\ pc = "get_free_entry"
  /\ i = Total
  /\ pc' = "heap_malloc_blocks"
  /\ UNCHANGED <<entries, live, locals>>

\* -ENOMEM from get_free_entry: kmalloc returns 0.
ReturnNull ==
  /\ pc = "heap_malloc_blocks"
  /\ bs = -1
  /\ Return
  /\ UNCHANGED <<entries, live>>

mark(n) == IF n > 1 THEN TAKEN_AND_NEXT ELSE HEAP_TAKEN

\* The entries after set_blocks_taken(start, n), whose last block is end.
\* Entries it writes outside the table (start - 1 when start = n = 0, and all
\* from Total on) lie in memory the heap never reads, and are left out.
marked(start, end, n) ==
  [b \in Blocks |->
     IF b = end THEN HEAP_TAKEN
     ELSE IF b = start \/ (start < b /\ b < end) THEN mark(n)
     ELSE entries[b]]

taken_past_end(start, n) == marked(start, start + n, n)  \* mutant
taken(start, n) == marked(start, start + n - 1, n)

\* A request for no blocks still has its start marked, and so owns a block.
extent(n) == IF n = 0 THEN 1 ELSE n

set_blocks_taken ==
  /\ pc = "heap_malloc_blocks"
  /\ bs # -1
  /\ entries' = taken(bs, num_blocks(size))
  /\ live' = [live EXCEPT ![bs] = extent(num_blocks(size))]
  /\ Return

\* kfree of a pointer kmalloc returned: no caller frees one twice.
kfree(b) ==
  /\ pc = "idle"
  /\ live[b] > 0
  /\ pc' = "set_blocks_free"
  /\ ptr' = b
  /\ i' = b
  /\ UNCHANGED <<entries, live, size, bc, bs>>

\* kfree of an address below the heap (a null pointer): the kernel hangs.
BadFree ==
  /\ pc = "idle"
  /\ pc' = "bad_free"
  /\ UNCHANGED <<entries, live, locals>>

Hang ==
  /\ pc = "bad_free"
  /\ UNCHANGED vars

\* One entry is released; the one without the flag is the last.
ReleaseBlock ==
  /\ pc = "set_blocks_free"
  /\ i < Total
  /\ entries' = [entries EXCEPT ![i] = HEAP_FREE]
  /\ IF has_next(entries[i])
     THEN i' = i + 1 /\ UNCHANGED <<live, pc, size, bc, bs, ptr>>
     ELSE live' = [live EXCEPT ![ptr] = 0] /\ Return

\* The loop falls off the table.
ReleaseEnd ==
  /\ pc = "set_blocks_free"
  /\ i = Total
  /\ live' = [live EXCEPT ![ptr] = 0]
  /\ Return
  /\ UNCHANGED entries

HeapStep ==
  \/ SkipTaken
  \/ CountFree
  \/ EndOfTable
  \/ ReturnNull
  \/ set_blocks_taken
  \/ ReleaseBlock
  \/ ReleaseEnd

Next ==
  \/ \E s \in Sizes : kmalloc(s)
  \/ \E b \in Blocks : kfree(b)
  \/ BadFree
  \/ Hang
  \/ HeapStep

Spec == Init /\ [][Next]_vars

(***************************************************************************)
(* The run lengths kmalloc marks, and the abstract allocator the heap      *)
(* implements, whose state is the callers' pointers.                       *)
(***************************************************************************)
Lengths == {extent(num_blocks(s)) : s \in Sizes}

Allocator == INSTANCE BlockAllocator WITH live <- live, Total <- Total, Lengths <- Lengths

\* The processor executes the heap's code once it has entered it.
FairSpec == Spec /\ WF_vars(HeapStep)

-----------------------------------------------------------------------------
(* Properties.                                                             *)

PC == {"idle", "get_free_entry", "heap_malloc_blocks", "set_blocks_free",
       "bad_free"}

\* The type invariant: entries hold one of the three bytes the heap writes,
\* and the loop variables stay in the range of the table.
TypeOK ==
  /\ entries \in [Blocks -> {HEAP_FREE, HEAP_TAKEN, TAKEN_AND_NEXT}]
  /\ live \in [Blocks -> Nat]
  /\ pc \in PC
  /\ size \in Sizes \cup {0}
  /\ i \in 0 .. Total
  /\ bc \in 0 .. Total
  /\ bs \in -1 .. Total - 1
  /\ ptr \in Blocks

Covers(b, c) == b <= c /\ c < b + live[b]

\* Block c of the allocation being released has been released already.
Released(b, c) == pc = "set_blocks_free" /\ b = ptr /\ c < i

\* No two pointers the callers hold share a block of the heap.
NoOverlap ==
  \A a, b, c \in Blocks : Covers(a, c) /\ Covers(b, c) => a = b

\* The chain kfree will follow from a held pointer is that of exactly its
\* blocks: each carries HEAP_BLOCK_HAS_NEXT except the last.
ChainAgrees ==
  \A b, c \in Blocks :
    Covers(b, c) /\ ~Released(b, c) =>
      entries[c] = IF c = b + live[b] - 1 THEN HEAP_TAKEN ELSE TAKEN_AND_NEXT

\* A taken entry belongs to a held pointer: kfree leaves no entry behind.
NoLostBlock ==
  \A c \in Blocks : ~isfree(entries[c]) =>
    \E b \in Blocks : Covers(b, c) /\ ~Released(b, c)

\* Blocks b .. b+n-1 exist and are all free.
Fits(b, n) == b + n <= Total /\ \A c \in b .. b + n - 1 : isfree(entries[c])

\* get_free_entry finds the lowest place that fits, if there is one, and
\* refuses only when there is none: the reset on a taken entry, the break
\* and the end of the table cooperate.
FirstFit ==
  pc = "heap_malloc_blocks" /\ num_blocks(size) > 0 =>
    \A b \in Blocks : Fits(b, num_blocks(size)) =>
      /\ bs # -1
      /\ bs <= b
      /\ Fits(bs, num_blocks(size))

FreeBlocks == {b \in Blocks : isfree(entries[b])}

\* For requests of one block the heap is a set of free blocks: one is taken
\* from it, if there is any, and goes back when it is freed.  It is as such
\* that the file layer's model knows the heap.
OneBlockRequests ==
  [][/\ pc = "heap_malloc_blocks" /\ num_blocks(size) = 1 =>
          IF FreeBlocks = {} THEN live' = live /\ FreeBlocks' = {}
          ELSE \E b \in FreeBlocks :
                 live' = [live EXCEPT ![b] = 1] /\ FreeBlocks' = FreeBlocks \ {b}
     /\ pc = "set_blocks_free" /\ live[ptr] = 1 =>
          /\ live' = [live EXCEPT ![ptr] = 0]
          /\ ptr \notin FreeBlocks /\ FreeBlocks' = FreeBlocks \cup {ptr}
     /\ pc \notin {"heap_malloc_blocks", "set_blocks_free"} => FreeBlocks' = FreeBlocks]_vars

\* The heap implements the abstract allocator: a request is only ever given
\* blocks that no caller holds, though it looks at the table alone, and kfree
\* gives back one whole run.
ImplementsAllocator == Allocator!Spec

\* Every call of kmalloc and kfree returns, or the kernel hangs on a bad
\* free, which it does deliberately.
CallsReturn == pc # "idle" ~> pc \in {"idle", "bad_free"}
=============================================================================
