----------------------------- MODULE HeapProofs -----------------------------
(***************************************************************************)
(* Proofs about the kernel heap, for every table size, block size and set  *)
(* of request sizes.  The invariants of Heap speak of the table and of the *)
(* callers' pointers between loop iterations; IInv adds what the two loops *)
(* know about the part of the table they have passed.                      *)
(***************************************************************************)
EXTENDS Heap, TLAPS

\* get_free_entry, between two iterations: a run ends just before i, starts
\* after a taken entry and is still too short; nothing fits before it.
ScanInv ==
  pc = "get_free_entry" =>
    /\ size \in Sizes
    /\ bs = -1 => bc = 0 /\ (i > 0 => ~isfree(entries[i-1]))
    /\ bs # -1 => /\ bs + bc = i
                  /\ bc >= 1
                  /\ \A c \in Blocks : bs <= c /\ c < i => isfree(entries[c])
                  /\ bs > 0 => ~isfree(entries[bs-1])
                  /\ num_blocks(size) > 0 => bc < num_blocks(size)
    /\ num_blocks(size) > 0 =>
         \A b \in Blocks : Fits(b, num_blocks(size)) =>
           IF bs = -1 THEN i <= b ELSE bs <= b

\* heap_malloc_blocks: the part of the run that lies in the table is free,
\* and the entry before it is not (set_blocks_taken(start, 0) writes it).
FoundInv ==
  pc = "heap_malloc_blocks" =>
    /\ size \in Sizes
    /\ bs # -1 =>
         /\ \A c \in Blocks : bs <= c /\ c < bs + extent(num_blocks(size)) =>
              isfree(entries[c])
         /\ bs > 0 => ~isfree(entries[bs-1])

\* set_blocks_free: the loop is inside the allocation it was called for.
ReleaseInv ==
  pc = "set_blocks_free" =>
    live[ptr] > 0 /\ ptr <= i /\ i < ptr + live[ptr]

LoopInv == ScanInv /\ FoundInv /\ ReleaseInv

IInv == TypeOK /\ NoOverlap /\ ChainAgrees /\ NoLostBlock /\ FirstFit /\ LoopInv

-----------------------------------------------------------------------------
(* Arithmetic of the operators.                                            *)

\* A quotient of naturals is a natural.
LEMMA DivNat == \A a \in Nat, b \in Nat \ {0} : a \div b \in Nat
  BY SMT

\* heap_malloc asks for a natural number of blocks, and for at least one
\* unless the size is 0.
LEMMA NumBlocksNat ==
  ASSUME NEW s \in Sizes
  PROVE  num_blocks(s) \in Nat
<1>1. s \in Nat /\ BlockSize \in Nat \ {0}
  BY SizesAssumption, BlockSizeAssumption, SMT
<1>2. s \div BlockSize \in Nat
  BY <1>1, DivNat
<1> QED
  BY <1>2 DEF num_blocks

\* A kmalloc marks at least the block it returns.
LEMMA ExtentPos ==
  ASSUME NEW n \in Nat
  PROVE  extent(n) \in Nat \ {0}
BY DEF extent

\* What the two tests of a table byte say of the three bytes it can be.
LEMMA EntryTests ==
  /\ isfree(HEAP_FREE)
  /\ ~isfree(HEAP_TAKEN)
  /\ ~isfree(TAKEN_AND_NEXT)
  /\ ~has_next(HEAP_TAKEN)
  /\ has_next(TAKEN_AND_NEXT)
BY DEF isfree, has_next, HEAP_FREE, HEAP_TAKEN, TAKEN_AND_NEXT,
       HEAP_BLOCK_HAS_NEXT

\* Every block of a place that fits is free.
LEMMA FitsFree ==
  ASSUME NEW b \in Blocks, NEW n \in Nat, NEW c \in Int, Fits(b, n),
         b <= c, c < b + n
  PROVE  c \in Blocks /\ isfree(entries[c])
BY TotalAssumption DEF Fits, Blocks

\* A free run inside the table is a place that fits.
LEMMA RunFits ==
  ASSUME NEW b \in Nat, NEW n \in Nat, NEW last \in Nat,
         b + n = last + 1, last + 1 <= Total, b <= last,
         \A c \in Blocks : b <= c /\ c <= last => isfree(entries[c])
  PROVE  Fits(b, n)
<1>1. ASSUME NEW c \in b .. b + n - 1
      PROVE  c \in Blocks /\ b <= c /\ c <= last
  BY TotalAssumption DEF Blocks
<1> QED
  BY <1>1 DEF Fits

\* A step that leaves the table and the pointers alone, outside of a release,
\* keeps what relates the two.
LEMMA TableUntouched ==
  ASSUME IInv, UNCHANGED <<entries, live>>, pc # "set_blocks_free",
         pc' # "set_blocks_free"
  PROVE  NoOverlap' /\ ChainAgrees' /\ NoLostBlock'
BY DEF IInv, NoOverlap, ChainAgrees, NoLostBlock, Covers, Released

-----------------------------------------------------------------------------
(* Every action preserves IInv.                                            *)

\* The heap starts empty and idle.
LEMMA InitInv == Init => IInv
<1> SUFFICES ASSUME Init PROVE IInv
  OBVIOUS
<1> USE TotalAssumption DEF Init, Blocks
<1>1. TypeOK
  BY DEF TypeOK, PC
<1>2. NoOverlap /\ ChainAgrees
  BY DEF NoOverlap, ChainAgrees, Covers
<1>3. NoLostBlock
  BY EntryTests DEF NoLostBlock
<1>4. FirstFit /\ LoopInv
  BY DEF FirstFit, LoopInv, ScanInv, FoundInv, ReleaseInv
<1> QED
  BY <1>1, <1>2, <1>3, <1>4 DEF IInv

\* A kmalloc enters get_free_entry with nothing scanned.
LEMMA KmallocInv ==
  ASSUME IInv, NEW s \in Sizes, kmalloc(s)
  PROVE  IInv'
<1> USE TotalAssumption DEF IInv, kmalloc
<1>1. TypeOK'
  BY DEF TypeOK, PC, Blocks
<1>2. NoOverlap' /\ ChainAgrees' /\ NoLostBlock'
  BY TableUntouched
<1>3. FirstFit' /\ FoundInv' /\ ReleaseInv'
  BY DEF FirstFit, FoundInv, ReleaseInv
<1>4. ScanInv'
  BY DEF ScanInv, Blocks
<1> QED
  BY <1>1, <1>2, <1>3, <1>4 DEF LoopInv

\* After a taken entry, nothing that fits starts at or before it.
LEMMA SkipTakenInv ==
  ASSUME IInv, SkipTaken
  PROVE  IInv'
<1> USE TotalAssumption DEF IInv, SkipTaken
<1>1. TypeOK'
  BY DEF TypeOK, PC, Blocks
<1>2. NoOverlap' /\ ChainAgrees' /\ NoLostBlock'
  BY TableUntouched
<1>3. FirstFit' /\ FoundInv' /\ ReleaseInv'
  BY DEF FirstFit, FoundInv, ReleaseInv
<1>4. ScanInv'
  <2> USE DEF LoopInv, ScanInv
  <2>1. num_blocks(size) \in Nat
    BY NumBlocksNat
  <2>2. ASSUME NEW b \in Blocks, Fits(b, num_blocks(size)),
               num_blocks(size) > 0
        PROVE  i + 1 <= b
    <3>1. ~(b <= i /\ i < b + num_blocks(size))
      BY <2>1, <2>2, FitsFree DEF TypeOK
    <3>2. CASE bs = -1
      BY <3>1, <3>2, <2>1, <2>2 DEF TypeOK, Blocks
    <3>3. CASE bs # -1
      <4>1. bs <= b /\ i - bs < num_blocks(size)
        BY <3>3, <2>2, <2>1 DEF TypeOK
      <4> QED
        BY <4>1, <3>1, <2>1, <3>3 DEF TypeOK, Blocks
    <3> QED
      BY <3>2, <3>3
  <2>3. i' > 0 => ~isfree(entries'[i'-1])
    BY DEF TypeOK
  <2>4. \A b \in Blocks : Fits(b, num_blocks(size))' <=> Fits(b, num_blocks(size))
    BY DEF Fits
  <2> QED
    BY <2>2, <2>3, <2>4 DEF Fits
<1> QED
  BY <1>1, <1>2, <1>3, <1>4 DEF LoopInv

\* The run grows by a free entry; when it is long enough it is the lowest
\* place that fits.
LEMMA CountFreeInv ==
  ASSUME IInv, CountFree
  PROVE  IInv'
<1> DEFINE n == num_blocks(size)
<1>n. n \in Nat /\ size \in Sizes
  BY NumBlocksNat DEF IInv, LoopInv, ScanInv, CountFree
<1> HIDE DEF n
<1>f. /\ pc = "get_free_entry" /\ i < Total /\ isfree(entries[i])
      /\ bs' = IF bs = -1 THEN i ELSE bs
      /\ bc' = bc + 1
      /\ UNCHANGED <<entries, live, size, ptr>>
      /\ \/ bc' = n /\ pc' = "heap_malloc_blocks" /\ i' = i
         \/ bc' # n /\ pc' = "get_free_entry" /\ i' = i + 1
  BY DEF CountFree, n
<1>t. TypeOK
  BY DEF IInv
<1>s. /\ bs = -1 => bc = 0 /\ (i > 0 => ~isfree(entries[i-1]))
      /\ bs # -1 => /\ bs + bc = i
                    /\ bc >= 1
                    /\ \A c \in Blocks : bs <= c /\ c < i => isfree(entries[c])
                    /\ bs > 0 => ~isfree(entries[bs-1])
                    /\ n > 0 => bc < n
      /\ n > 0 => \A b \in Blocks : Fits(b, n) =>
                    IF bs = -1 THEN i <= b ELSE bs <= b
  BY <1>f DEF IInv, LoopInv, ScanInv, n
<1>r. /\ bs' \in Int /\ bs' # -1 /\ bs' >= 0 /\ bs' <= i
      /\ bs' + bc' = i + 1
      /\ bc' >= 1
      /\ \A c \in Blocks : bs' <= c /\ c <= i => isfree(entries[c])
      /\ bs' > 0 => ~isfree(entries[bs'-1])
      /\ n > 0 => \A b \in Blocks : Fits(b, n) => bs' <= b
  <2>1. CASE bs = -1
    BY <2>1, <1>f, <1>s, <1>t DEF TypeOK, Blocks
  <2>2. CASE bs # -1
    BY <2>2, <1>f, <1>s, <1>t DEF TypeOK, Blocks
  <2> QED
    BY <2>1, <2>2
<1>1. TypeOK'
  BY <1>f, <1>t, <1>r, TotalAssumption DEF TypeOK, PC, Blocks
<1>2. NoOverlap' /\ ChainAgrees' /\ NoLostBlock'
  BY <1>f, TableUntouched
<1>e. (\A b \in Blocks : Fits(b, n)' <=> Fits(b, n)) /\ n' = n
  BY <1>f DEF Fits, n
<1>3. CASE pc' = "heap_malloc_blocks"
  <2>1. bc' = n /\ n > 0 /\ i' = i
    BY <1>3, <1>f, <1>r, <1>n
  <2>2. Fits(bs', n)
    <3>1. /\ bs' \in Nat /\ i \in Nat /\ Total \in Nat
          /\ bs' + n = i + 1 /\ i + 1 <= Total /\ bs' <= i /\ n \in Nat
      BY <2>1, <1>r, <1>f, <1>t, <1>n, TotalAssumption DEF TypeOK
    <3> QED
      BY <3>1, <1>r, RunFits
  <2>3. FirstFit'
    BY <2>2, <1>r, <1>f, <2>1 DEF FirstFit, Fits, n
  <2>4. \A c \in Blocks : bs' <= c /\ c < bs' + n => isfree(entries[c])
    BY <2>1, <1>r, <1>f, <1>t DEF TypeOK, Blocks
  <2>5. extent(n) = n
    BY <2>1 DEF extent
  <2>6. FoundInv'
    BY <2>4, <2>5, <1>r, <1>f, <1>n DEF FoundInv, n
  <2>7. ScanInv' /\ ReleaseInv'
    BY <1>3 DEF ScanInv, ReleaseInv
  <2> QED
    BY <1>1, <1>2, <2>3, <2>6, <2>7 DEF IInv, LoopInv
<1>4. CASE pc' = "get_free_entry"
  <2>1. bc' # n /\ i' = i + 1
    BY <1>4, <1>f
  <2>2. n > 0 => bc' < n
    <3>1. CASE bs = -1
      BY <3>1, <2>1, <1>f, <1>s, <1>n
    <3>2. CASE bs # -1
      BY <3>2, <2>1, <1>f, <1>s, <1>n, <1>t DEF TypeOK
    <3> QED
      BY <3>1, <3>2
  <2>3. \A c \in Blocks : bs' <= c /\ c < i' => isfree(entries'[c])
    BY <2>1, <1>r, <1>f, <1>t DEF TypeOK, Blocks
  <2>4. n > 0 => \A b \in Blocks : Fits(b, n)' =>
                   IF bs' = -1 THEN i' <= b ELSE bs' <= b
    BY <1>r, <1>e
  <2>5. ScanInv'
    BY <2>1, <2>2, <2>3, <2>4, <1>r, <1>f, <1>n DEF ScanInv, n
  <2>6. FirstFit' /\ FoundInv' /\ ReleaseInv'
    BY <1>4 DEF FirstFit, FoundInv, ReleaseInv
  <2> QED
    BY <1>1, <1>2, <2>5, <2>6 DEF IInv, LoopInv
<1> QED
  BY <1>3, <1>4, <1>f

\* The table ends: the run, if there is one, reaches to its end, and since it
\* is too short nothing fits.
LEMMA EndOfTableInv ==
  ASSUME IInv, EndOfTable
  PROVE  IInv'
<1> DEFINE n == num_blocks(size)
<1>n. n \in Nat /\ size \in Sizes
  BY NumBlocksNat DEF IInv, LoopInv, ScanInv, EndOfTable
<1> HIDE DEF n
<1>f. /\ pc = "get_free_entry" /\ i = Total
      /\ pc' = "heap_malloc_blocks"
      /\ UNCHANGED <<entries, live, size, i, bc, bs, ptr>>
  BY DEF EndOfTable, locals
<1>t. TypeOK
  BY DEF IInv
<1>s. /\ bs # -1 => /\ bs + bc = i
                    /\ bc >= 1
                    /\ \A c \in Blocks : bs <= c /\ c < i => isfree(entries[c])
                    /\ bs > 0 => ~isfree(entries[bs-1])
                    /\ n > 0 => bc < n
      /\ n > 0 => \A b \in Blocks : Fits(b, n) =>
                    IF bs = -1 THEN i <= b ELSE bs <= b
  BY <1>f DEF IInv, LoopInv, ScanInv, n
<1>1. TypeOK'
  BY <1>f, <1>t DEF TypeOK, PC
<1>2. NoOverlap' /\ ChainAgrees' /\ NoLostBlock'
  BY <1>f, TableUntouched
<1>3. ASSUME NEW b \in Blocks, Fits(b, n), n > 0
      PROVE  FALSE
  <2>1. b + n <= Total
    BY <1>3 DEF Fits
  <2>2. CASE bs = -1
    BY <2>1, <2>2, <1>3, <1>s, <1>f, <1>n, TotalAssumption DEF Blocks
  <2>3. CASE bs # -1
    <3>1. bs + bc = Total /\ bc < n /\ bs <= b
      BY <2>3, <1>3, <1>s, <1>f
    <3> QED
      BY <3>1, <2>1, <1>n, <1>t, TotalAssumption DEF TypeOK, Blocks
  <2> QED
    BY <2>2, <2>3
<1>4. FirstFit'
  <2>1. \A b \in Blocks : Fits(b, n)' <=> Fits(b, n)
    BY <1>f DEF Fits, n
  <2>2. n' = n
    BY <1>f DEF n
  <2> QED
    BY <1>3, <2>1, <2>2, <1>f DEF FirstFit, n
<1>5. FoundInv'
  <2>1. bs # -1 => \A c \in Blocks : bs <= c /\ c < bs + extent(n) => isfree(entries[c])
    BY <1>s, <1>f, TotalAssumption DEF Blocks
  <2> QED
    BY <2>1, <1>s, <1>f, <1>n DEF FoundInv, n
<1>6. ScanInv' /\ ReleaseInv'
  BY <1>f DEF ScanInv, ReleaseInv
<1> QED
  BY <1>1, <1>2, <1>4, <1>5, <1>6 DEF IInv, LoopInv

\* A refused request leaves everything as it was.
LEMMA ReturnNullInv ==
  ASSUME IInv, ReturnNull
  PROVE  IInv'
<1> USE TotalAssumption DEF IInv, ReturnNull, Return
<1>1. TypeOK'
  BY DEF TypeOK, PC, Blocks
<1>2. NoOverlap' /\ ChainAgrees' /\ NoLostBlock'
  BY TableUntouched
<1>3. FirstFit' /\ LoopInv'
  BY DEF FirstFit, LoopInv, ScanInv, FoundInv, ReleaseInv
<1> QED
  BY <1>1, <1>2, <1>3

\* A block that some caller holds, and that is not being released, is taken.
LEMMA HeldIsTaken ==
  ASSUME IInv, NEW a \in Blocks, NEW c \in Blocks, Covers(a, c), ~Released(a, c)
  PROVE  ~isfree(entries[c])
BY EntryTests DEF IInv, ChainAgrees

\* The blocks set_blocks_taken marks were free and become a chain that ends
\* at its last block; no other block changes, unless the request was for no
\* block: then the last block of the allocation before is written, with the
\* byte it has.
LEMMA SetTakenInv ==
  ASSUME IInv, set_blocks_taken
  PROVE  IInv'
<1> DEFINE n == num_blocks(size)
<1>n. n \in Nat /\ extent(n) \in Nat \ {0} /\ size \in Sizes
  BY NumBlocksNat, ExtentPos DEF IInv, LoopInv, FoundInv, set_blocks_taken
<1>x. extent(n) = IF n = 0 THEN 1 ELSE n
  BY DEF extent
<1>m. entries' = taken(bs, n) /\ live' = [live EXCEPT ![bs] = extent(n)]
  BY DEF set_blocks_taken, n
<1> HIDE DEF n
<1>f. /\ pc = "heap_malloc_blocks" /\ bs # -1
      /\ pc' = "idle" /\ size' = 0 /\ i' = 0 /\ bc' = 0 /\ bs' = -1 /\ ptr' = 0
  BY DEF set_blocks_taken, Return
<1>t. TypeOK /\ bs \in Blocks
  BY <1>f, TotalAssumption DEF IInv, TypeOK, Blocks
<1>s. /\ \A c \in Blocks : bs <= c /\ c < bs + extent(n) => isfree(entries[c])
      /\ bs > 0 => ~isfree(entries[bs-1])
  BY <1>f DEF IInv, LoopInv, FoundInv, n
<1>r. \A a, c \in Blocks : ~Released(a, c) /\ ~Released(a, c)'
  BY <1>f DEF Released
<1>h. \A a, c \in Blocks : Covers(a, c) => ~(bs <= c /\ c < bs + extent(n))
  BY <1>r, <1>s, HeldIsTaken
<1>c. \A a, c \in Blocks :
        Covers(a, c)' <=> IF a = bs THEN bs <= c /\ c < bs + extent(n)
                                    ELSE Covers(a, c)
  BY <1>m, <1>t DEF Covers, TypeOK
<1>0. ~Covers(bs, bs)
  BY <1>h, <1>t, <1>n DEF Blocks
<1>b. \A c \in Blocks : Covers(bs, c) => FALSE
  BY <1>0, <1>t, <1>n DEF Covers, TypeOK, Blocks
<1>e. /\ entries' \in [Blocks -> {HEAP_FREE, HEAP_TAKEN, TAKEN_AND_NEXT}]
      /\ \A c \in Blocks : bs <= c /\ c < bs + extent(n) =>
           entries'[c] = IF c = bs + extent(n) - 1 THEN HEAP_TAKEN ELSE TAKEN_AND_NEXT
      /\ \A c \in Blocks : c < bs - 1 \/ c >= bs + extent(n) => entries'[c] = entries[c]
      /\ \A c \in Blocks : c = bs - 1 => entries'[c] = IF n = 0 THEN HEAP_TAKEN ELSE entries[c]
  <2>1. CASE n = 0
    BY <2>1, <1>m, <1>n, <1>x, <1>t DEF taken, marked, mark, TypeOK, Blocks
  <2>2. CASE n = 1
    BY <2>2, <1>m, <1>n, <1>x, <1>t DEF taken, marked, mark, TypeOK, Blocks
  <2>3. CASE n > 1
    BY <2>3, <1>m, <1>n, <1>x, <1>t DEF taken, marked, mark, TypeOK, Blocks
  <2> QED
    BY <2>1, <2>2, <2>3, <1>n
<1>1. TypeOK'
  BY <1>e, <1>f, <1>m, <1>n, <1>t, TotalAssumption DEF TypeOK, PC, Blocks
<1>2. NoOverlap'
  BY <1>c, <1>h DEF IInv, NoOverlap
<1>3. ChainAgrees'
  <2> SUFFICES ASSUME NEW b \in Blocks, NEW c \in Blocks, Covers(b, c)'
               PROVE  entries'[c] = IF c = b + live'[b] - 1 THEN HEAP_TAKEN
                                                          ELSE TAKEN_AND_NEXT
    BY DEF ChainAgrees
  <2>1. CASE b = bs
    <3>1. live'[b] = extent(n) /\ bs <= c /\ c < bs + extent(n)
      BY <2>1, <1>m, <1>t, <1>c DEF TypeOK
    <3> QED
      BY <3>1, <2>1, <1>e
  <2>2. CASE b # bs
    <3>1. Covers(b, c) /\ live'[b] = live[b]
      BY <2>2, <1>c, <1>m, <1>t DEF TypeOK
    <3>2. entries[c] = IF c = b + live[b] - 1 THEN HEAP_TAKEN ELSE TAKEN_AND_NEXT
      BY <3>1, <1>r DEF IInv, ChainAgrees
    <3>3. c < bs - 1 \/ c >= bs + extent(n) \/ c = bs - 1
      BY <3>1, <1>h, <1>n, <1>t DEF Blocks
    <3>4. ASSUME c = bs - 1
          PROVE  c = b + live[b] - 1
      <4>1. ~Covers(b, bs)
        BY <1>h, <1>t, <1>n DEF Blocks
      <4> QED
        BY <4>1, <3>1, <3>4, <1>t DEF Covers, TypeOK, Blocks
    <3>5. entries'[c] = entries[c]
      BY <3>2, <3>3, <3>4, <1>e
    <3> QED
      BY <3>5, <3>2, <3>1
  <2> QED
    BY <2>1, <2>2
<1>4. NoLostBlock'
  <2> SUFFICES ASSUME NEW c \in Blocks, ~isfree(entries'[c])
               PROVE  \E b \in Blocks : Covers(b, c)'
    BY <1>r DEF NoLostBlock
  <2>1. CASE bs <= c /\ c < bs + extent(n)
    BY <2>1, <1>c, <1>t
  <2>2. CASE ~(bs <= c /\ c < bs + extent(n))
    <3>1. c < bs - 1 \/ c >= bs + extent(n) \/ (c = bs - 1 /\ bs > 0)
      BY <2>2, <1>n, <1>t DEF Blocks
    <3>2. ~isfree(entries[c])
      BY <3>1, <1>e, <1>s
    <3>3. PICK b \in Blocks : Covers(b, c)
      BY <3>2 DEF IInv, NoLostBlock
    <3> QED
      BY <3>3, <1>b, <1>c
  <2> QED
    BY <2>1, <2>2
<1>5. FirstFit' /\ LoopInv'
  BY <1>f DEF FirstFit, LoopInv, ScanInv, FoundInv, ReleaseInv
<1> QED
  BY <1>1, <1>2, <1>3, <1>4, <1>5 DEF IInv

\* A kfree starts at the first block of the allocation, releasing nothing yet.
LEMMA KfreeInv ==
  ASSUME IInv, NEW b \in Blocks, kfree(b)
  PROVE  IInv'
<1> USE TotalAssumption DEF IInv, kfree
<1>1. TypeOK'
  BY DEF TypeOK, PC, Blocks
<1>r. \A a, c \in Blocks : Covers(a, c) /\ Released(a, c)' => FALSE
  BY DEF Covers, Released, TypeOK, Blocks
<1>c. \A a, c \in Blocks : /\ Covers(a, c)' <=> Covers(a, c)
                          /\ ~Released(a, c)
  BY DEF Covers, Released
<1>2. NoOverlap' /\ ChainAgrees' /\ NoLostBlock'
  BY <1>r, <1>c DEF NoOverlap, ChainAgrees, NoLostBlock
<1>3. FirstFit' /\ ScanInv' /\ FoundInv'
  BY DEF FirstFit, ScanInv, FoundInv
<1>4. ReleaseInv'
  BY DEF ReleaseInv, TypeOK, Blocks
<1> QED
  BY <1>1, <1>2, <1>3, <1>4 DEF LoopInv

\* A bad free stops the kernel and touches nothing.
LEMMA BadFreeInv ==
  ASSUME IInv, BadFree
  PROVE  IInv'
<1> USE DEF IInv, BadFree, locals
<1>1. TypeOK'
  BY DEF TypeOK, PC
<1>2. NoOverlap' /\ ChainAgrees' /\ NoLostBlock'
  BY TableUntouched
<1>3. FirstFit' /\ LoopInv'
  BY DEF FirstFit, LoopInv, ScanInv, FoundInv, ReleaseInv
<1> QED
  BY <1>1, <1>2, <1>3

\* The entry an iteration of set_blocks_free clears: the flag it tests tells
\* whether it is the last of the allocation.
LEMMA ReleasedEntry ==
  ASSUME IInv, ReleaseBlock
  PROVE  /\ i \in Blocks
         /\ Covers(ptr, i)
         /\ has_next(entries[i]) <=> i # ptr + live[ptr] - 1
<1>1. pc = "set_blocks_free" /\ i < Total
  BY DEF ReleaseBlock
<1>2. TypeOK /\ live[ptr] > 0 /\ ptr <= i /\ i < ptr + live[ptr]
  BY <1>1 DEF IInv, LoopInv, ReleaseInv
<1>3. i \in Blocks /\ ptr \in Blocks
  BY <1>1, <1>2, TotalAssumption DEF TypeOK, Blocks
<1>4. Covers(ptr, i) /\ ~Released(ptr, i)
  BY <1>2, <1>3 DEF Covers, Released, Blocks
<1>5. entries[i] = IF i = ptr + live[ptr] - 1 THEN HEAP_TAKEN ELSE TAKEN_AND_NEXT
  BY <1>3, <1>4 DEF IInv, ChainAgrees
<1> QED
  BY <1>3, <1>4, <1>5, EntryTests

\* Releasing an entry moves the boundary of the part released by one block, or
\* ends the allocation at its last block.
LEMMA ReleaseBlockInv ==
  ASSUME IInv, ReleaseBlock
  PROVE  IInv'
<1>t. TypeOK /\ ptr \in Blocks /\ i \in Blocks /\ i \in Nat /\ ptr \in Nat
  BY ReleasedEntry DEF IInv, TypeOK, Blocks
<1>o. Covers(ptr, i) /\ ptr <= i
  BY ReleasedEntry DEF Covers
<1>v. pc = "set_blocks_free" /\ entries' = [entries EXCEPT ![i] = HEAP_FREE]
  BY DEF ReleaseBlock
<1>e. /\ entries' \in [Blocks -> {HEAP_FREE, HEAP_TAKEN, TAKEN_AND_NEXT}]
      /\ entries'[i] = HEAP_FREE
      /\ \A c \in Blocks : c # i => entries'[c] = entries[c]
  BY <1>v, <1>t DEF TypeOK
<1>k. \A b \in Blocks : b # ptr => ~Covers(b, i)
  BY <1>o, <1>t DEF IInv, NoOverlap
<1>1. CASE has_next(entries[i])
  <2>f. /\ i' = i + 1
        /\ UNCHANGED <<live, pc, size, bc, bs, ptr>>
    BY <1>1 DEF ReleaseBlock
  <2>c. \A b, c \in Blocks :
          /\ Covers(b, c)' <=> Covers(b, c)
          /\ Released(b, c)' <=> Released(b, c) \/ (b = ptr /\ c = i)
    BY <2>f, <1>v, <1>t DEF Covers, Released, Blocks
  <2>1. TypeOK'
    BY <2>f, <1>e, <1>t, TotalAssumption DEF TypeOK, PC, Blocks
  <2>2. NoOverlap'
    BY <2>c DEF IInv, NoOverlap
  <2>3. ChainAgrees'
    <3> SUFFICES ASSUME NEW b \in Blocks, NEW c \in Blocks,
                        Covers(b, c), ~Released(b, c), ~(b = ptr /\ c = i)
                 PROVE  entries'[c] = IF c = b + live[b] - 1 THEN HEAP_TAKEN
                                                             ELSE TAKEN_AND_NEXT
      BY <2>c, <2>f DEF ChainAgrees
    <3>1. c # i
      BY <1>k
    <3> QED
      BY <3>1, <1>e DEF IInv, ChainAgrees
  <2>4. NoLostBlock'
    <3> SUFFICES ASSUME NEW c \in Blocks, ~isfree(entries'[c])
                 PROVE  \E b \in Blocks : Covers(b, c)' /\ ~Released(b, c)'
      BY DEF NoLostBlock
    <3>1. c # i /\ ~isfree(entries[c])
      BY <1>e, EntryTests
    <3> QED
      BY <3>1, <2>c DEF IInv, NoLostBlock
  <2>5. ReleaseInv'
    <3>1. i # ptr + live[ptr] - 1
      BY <1>1, ReleasedEntry
    <3>2. live[ptr] \in Nat /\ live[ptr] > 0 /\ i < ptr + live[ptr]
      BY <1>v, <1>t DEF IInv, LoopInv, ReleaseInv, TypeOK
    <3>3. i + 1 < ptr + live[ptr] /\ ptr <= i + 1
      BY <3>1, <3>2, <1>t, <1>o
    <3> QED
      BY <3>3, <3>2, <2>f DEF ReleaseInv
  <2>6. FirstFit' /\ ScanInv' /\ FoundInv'
    BY <1>v, <2>f DEF FirstFit, ScanInv, FoundInv
  <2> QED
    BY <2>1, <2>2, <2>3, <2>4, <2>5, <2>6 DEF IInv, LoopInv
<1>2. CASE ~has_next(entries[i])
  <2>f. /\ live' = [live EXCEPT ![ptr] = 0]
        /\ pc' = "idle" /\ size' = 0 /\ i' = 0 /\ bc' = 0 /\ bs' = -1 /\ ptr' = 0
    BY <1>2 DEF ReleaseBlock, Return
  <2>l. i = ptr + live[ptr] - 1
    BY <1>2, ReleasedEntry
  <2>c. \A b, c \in Blocks :
          /\ Covers(b, c)' <=> b # ptr /\ Covers(b, c)
          /\ ~Released(b, c)'
    BY <2>f, <1>t DEF Covers, Released, TypeOK, Blocks
  <2>1. TypeOK'
    BY <2>f, <1>e, <1>t, TotalAssumption DEF TypeOK, PC, Blocks
  <2>2. NoOverlap'
    BY <2>c DEF IInv, NoOverlap
  <2>3. ChainAgrees'
    <3> SUFFICES ASSUME NEW b \in Blocks, NEW c \in Blocks, b # ptr, Covers(b, c)
                 PROVE  entries'[c] = IF c = b + live'[b] - 1 THEN HEAP_TAKEN
                                                              ELSE TAKEN_AND_NEXT
      BY <2>c DEF ChainAgrees
    <3>1. c # i /\ live'[b] = live[b] /\ ~Released(b, c)
      BY <1>k, <2>f, <1>t DEF TypeOK, Released
    <3> QED
      BY <3>1, <1>e DEF IInv, ChainAgrees
  <2>4. NoLostBlock'
    <3> SUFFICES ASSUME NEW c \in Blocks, ~isfree(entries'[c])
                 PROVE  \E b \in Blocks : Covers(b, c)'
      BY <2>c DEF NoLostBlock
    <3>1. c # i /\ ~isfree(entries[c])
      BY <1>e, EntryTests
    <3>2. PICK b \in Blocks : Covers(b, c) /\ ~Released(b, c)
      BY <3>1 DEF IInv, NoLostBlock
    <3>3. b # ptr
      BY <3>1, <3>2, <2>l, <1>v, <1>t DEF Covers, Released, TypeOK, Blocks
    <3> QED
      BY <3>2, <3>3, <2>c
  <2>5. FirstFit' /\ LoopInv'
    BY <2>f DEF FirstFit, LoopInv, ScanInv, FoundInv, ReleaseInv
  <2> QED
    BY <2>1, <2>2, <2>3, <2>4, <2>5 DEF IInv
<1> QED
  BY <1>1, <1>2

\* An allocation that runs past the table is released at the table's end.
LEMMA ReleaseEndInv ==
  ASSUME IInv, ReleaseEnd
  PROVE  IInv'
<1>f. /\ pc = "set_blocks_free" /\ i = Total
      /\ live' = [live EXCEPT ![ptr] = 0]
      /\ entries' = entries
      /\ pc' = "idle" /\ size' = 0 /\ i' = 0 /\ bc' = 0 /\ bs' = -1 /\ ptr' = 0
  BY DEF ReleaseEnd, Return
<1>t. TypeOK /\ ptr \in Blocks
  BY DEF IInv, TypeOK
<1>c. \A b, c \in Blocks :
        /\ Covers(b, c)' <=> b # ptr /\ Covers(b, c)
        /\ ~Released(b, c)'
        /\ Released(b, c) <=> b = ptr
  BY <1>f, <1>t, TotalAssumption DEF Covers, Released, TypeOK, Blocks
<1>1. TypeOK'
  BY <1>f, <1>t, TotalAssumption DEF TypeOK, PC, Blocks
<1>2. NoOverlap'
  BY <1>c DEF IInv, NoOverlap
<1>3. ChainAgrees'
  BY <1>c, <1>f, <1>t DEF IInv, ChainAgrees, TypeOK
<1>4. NoLostBlock'
  BY <1>c, <1>f DEF IInv, NoLostBlock
<1>5. FirstFit' /\ LoopInv'
  BY <1>f DEF FirstFit, LoopInv, ScanInv, FoundInv, ReleaseInv
<1> QED
  BY <1>1, <1>2, <1>3, <1>4, <1>5 DEF IInv

\* IInv speaks of the variables alone.
LEMMA StutterInv ==
  ASSUME IInv, UNCHANGED vars
  PROVE  IInv'
<1> USE DEF vars, locals
<1>1. TypeOK' /\ NoOverlap' /\ ChainAgrees' /\ NoLostBlock'
  BY DEF IInv, TypeOK, NoOverlap, ChainAgrees, NoLostBlock, Covers, Released
<1>2. FirstFit'
  BY DEF IInv, FirstFit, Fits
<1>3. ScanInv'
  BY DEF IInv, LoopInv, ScanInv, Fits
<1>4. FoundInv' /\ ReleaseInv'
  BY DEF IInv, LoopInv, FoundInv, ReleaseInv
<1> QED
  BY <1>1, <1>2, <1>3, <1>4 DEF IInv, LoopInv

\* IInv is inductive.
LEMMA StepInv == IInv /\ [Next]_vars => IInv'
<1> SUFFICES ASSUME IInv, [Next]_vars PROVE IInv'
  OBVIOUS
<1>1. ASSUME NEW s \in Sizes, kmalloc(s) PROVE IInv'
  BY <1>1, KmallocInv
<1>2. ASSUME NEW b \in Blocks, kfree(b) PROVE IInv'
  BY <1>2, KfreeInv
<1>3. CASE BadFree
  BY <1>3, BadFreeInv
<1>4. CASE SkipTaken
  BY <1>4, SkipTakenInv
<1>5. CASE CountFree
  BY <1>5, CountFreeInv
<1>6. CASE EndOfTable
  BY <1>6, EndOfTableInv
<1>7. CASE ReturnNull
  BY <1>7, ReturnNullInv
<1>8. CASE set_blocks_taken
  BY <1>8, SetTakenInv
<1>9. CASE ReleaseBlock
  BY <1>9, ReleaseBlockInv
<1>10. CASE ReleaseEnd
  BY <1>10, ReleaseEndInv
<1>11. CASE Hang \/ UNCHANGED vars
  BY <1>11, StutterInv DEF Hang
<1> QED
  BY <1>1, <1>2, <1>3, <1>4, <1>5, <1>6, <1>7, <1>8, <1>9, <1>10, <1>11
     DEF Next, HeapStep

-----------------------------------------------------------------------------
(* The results.                                                            *)

\* The inductive invariant holds throughout every behaviour of the heap.
THEOREM Invariance == Spec => []IInv
BY InitInv, StepInv, PTL DEF Spec

\* mm/heap.c only ever writes the three table bytes, and its loop indices
\* stay in the table, whatever the sizes and the order of the calls.
THEOREM TypeCorrect == Spec => []TypeOK
<1>1. IInv => TypeOK
  BY DEF IInv
<1> QED
  BY <1>1, Invariance, PTL

\* kmalloc never gives a block of the heap to two callers.
THEOREM Exclusion == Spec => []NoOverlap
<1>1. IInv => NoOverlap
  BY DEF IInv
<1> QED
  BY <1>1, Invariance, PTL

\* The flags kfree follows describe exactly the blocks of each held pointer.
THEOREM ChainsAgree == Spec => []ChainAgrees
<1>1. IInv => ChainAgrees
  BY DEF IInv
<1> QED
  BY <1>1, Invariance, PTL

\* kfree leaves no taken entry behind that no pointer can release.
THEOREM NoneLost == Spec => []NoLostBlock
<1>1. IInv => NoLostBlock
  BY DEF IInv
<1> QED
  BY <1>1, Invariance, PTL

\* get_free_entry returns the lowest place that fits whenever there is one.
THEOREM FirstFitHolds == Spec => []FirstFit
<1>1. IInv => FirstFit
  BY DEF IInv
<1> QED
  BY <1>1, Invariance, PTL

\* Marking a run is the abstract allocation of that run.
LEMMA SetTakenAllocates ==
  ASSUME IInv, set_blocks_taken
  PROVE  \E b \in Allocator!Blocks, n \in Lengths : Allocator!Allocate(b, n)
<1> DEFINE n == extent(num_blocks(size))
<1>1. /\ pc = "heap_malloc_blocks" /\ bs # -1
      /\ live' = [live EXCEPT ![bs] = n]
  BY DEF set_blocks_taken
<1>2. /\ size \in Sizes
      /\ \A c \in Blocks : bs <= c /\ c < bs + n => isfree(entries[c])
  BY <1>1 DEF IInv, LoopInv, FoundInv
<1>3. n \in Lengths
  BY <1>2 DEF Lengths
<1>4. bs \in Blocks
  BY <1>1, TotalAssumption DEF IInv, TypeOK, Blocks
<1> HIDE DEF n
<1>5. \A a, c \in Blocks : Covers(a, c) => ~isfree(entries[c])
  BY <1>1, HeldIsTaken DEF Released
<1>6. Allocator!Allocate(bs, n)
  BY <1>1, <1>2, <1>4, <1>5
     DEF Allocator!Allocate, Allocator!Blocks, Allocator!Covers, Covers, Blocks
<1> QED
  BY <1>3, <1>4, <1>6 DEF Allocator!Blocks, Blocks

\* The last iteration of a kfree is the abstract release of its pointer.
LEMMA ReleaseReleases ==
  ASSUME IInv, pc = "set_blocks_free", live' = [live EXCEPT ![ptr] = 0]
  PROVE  \E b \in Allocator!Blocks : Allocator!Release(b)
<1>1. ptr \in Blocks /\ live[ptr] > 0
  BY DEF IInv, TypeOK, LoopInv, ReleaseInv
<1> QED
  BY <1>1 DEF Allocator!Release, Allocator!Blocks, Blocks

\* Every step of the heap is a step of the abstract allocator or leaves the
\* callers' pointers alone.
LEMMA StepRefines == IInv /\ [Next]_vars => [Allocator!Next]_live
<1> SUFFICES ASSUME IInv, [Next]_vars PROVE [Allocator!Next]_live
  OBVIOUS
<1>1. CASE set_blocks_taken
  BY <1>1, SetTakenAllocates DEF Allocator!Next
<1>2. CASE ReleaseBlock
  <2>1. pc = "set_blocks_free" /\ (live' = live \/ live' = [live EXCEPT ![ptr] = 0])
    BY <1>2 DEF ReleaseBlock
  <2> QED
    BY <2>1, ReleaseReleases DEF Allocator!Next
<1>3. CASE ReleaseEnd
  BY <1>3, ReleaseReleases DEF ReleaseEnd, Allocator!Next
<1>4. CASE \/ \E s \in Sizes : kmalloc(s)
           \/ \E b \in Blocks : kfree(b)
           \/ BadFree \/ Hang
           \/ SkipTaken \/ CountFree \/ EndOfTable \/ ReturnNull
           \/ UNCHANGED vars
  <2>1. live' = live
    BY <1>4 DEF kmalloc, kfree, BadFree, Hang, SkipTaken, CountFree, EndOfTable,
                ReturnNull, vars
  <2> QED
    BY <2>1
<1> QED
  BY <1>1, <1>2, <1>3, <1>4 DEF Next, HeapStep

\* The heap implements the abstract allocator: a caller is only given blocks
\* nobody holds, and a kfree gives back one whole allocation.
THEOREM Refinement == Spec => ImplementsAllocator
<1>1. Init => Allocator!Init
  BY DEF Init, Allocator!Init, Allocator!Blocks, Blocks
<1> QED
  BY <1>1, StepRefines, Invariance, PTL DEF Spec, ImplementsAllocator, Allocator!Spec

-----------------------------------------------------------------------------
(* Requests of one block.                                                  *)

\* The start of set_blocks_taken: a run found is a place of the heap, and for
\* one block there is one if any block is free.
LEMMA FoundOne ==
  ASSUME IInv, pc = "heap_malloc_blocks", num_blocks(size) = 1
  PROVE  IF bs = -1 THEN FreeBlocks = {} ELSE bs \in FreeBlocks
<1>1. extent(1) = 1 /\ num_blocks(size) > 0
  BY DEF extent
<1>2. CASE bs = -1
  <2>1. ASSUME NEW b \in Blocks, isfree(entries[b]) PROVE FALSE
    <3>1. Fits(b, 1)
      BY <2>1, TotalAssumption DEF Fits, Blocks
    <3> QED
      BY <3>1, <1>1, <1>2 DEF IInv, FirstFit
  <2> QED
    BY <2>1, <1>2 DEF FreeBlocks
<1>3. CASE bs # -1
  <2>1. bs \in Blocks /\ bs <= bs /\ bs < bs + 1
    BY <1>3, TotalAssumption DEF IInv, TypeOK, Blocks
  <2>2. isfree(entries[bs])
    BY <2>1, <1>1, <1>3 DEF IInv, LoopInv, FoundInv
  <2> QED
    BY <2>1, <2>2, <1>3 DEF FreeBlocks
<1> QED
  BY <1>2, <1>3

\* Marking a run of one block changes the entry of that block only.
LEMMA TakenOne ==
  ASSUME TypeOK, bs \in Blocks, num_blocks(size) = 1, set_blocks_taken
  PROVE  /\ live' = [live EXCEPT ![bs] = 1]
         /\ FreeBlocks' = FreeBlocks \ {bs}
<1>1. extent(1) = 1
  BY DEF extent
<1>2. live' = [live EXCEPT ![bs] = 1] /\ entries' = taken(bs, 1)
  BY <1>1 DEF set_blocks_taken
<1>3. bs + 1 - 1 = bs
  BY DEF Blocks
<1>4. \A b \in Blocks : entries'[b] = IF b = bs THEN HEAP_TAKEN ELSE entries[b]
  BY <1>2, <1>3 DEF taken, marked, Blocks
<1> QED
  BY <1>2, <1>4, EntryTests DEF FreeBlocks

\* An allocation of one block is released by one iteration, which puts its
\* block back.
LEMMA ReleaseOne ==
  ASSUME IInv, ReleaseBlock, live[ptr] = 1
  PROVE  /\ live' = [live EXCEPT ![ptr] = 0]
         /\ ptr \notin FreeBlocks /\ FreeBlocks' = FreeBlocks \cup {ptr}
<1>1. i \in Blocks /\ Covers(ptr, i) /\ (has_next(entries[i]) <=> i # ptr + 1 - 1)
  BY ReleasedEntry
<1>2. pc = "set_blocks_free" /\ ptr \in Blocks /\ TypeOK
  BY DEF IInv, TypeOK, ReleaseBlock
<1>3. i = ptr
  BY <1>1, <1>2 DEF Covers, Blocks
<1>4. ~has_next(entries[i])
  BY <1>1, <1>2, <1>3 DEF Blocks
<1>5. live' = [live EXCEPT ![ptr] = 0] /\ entries' = [entries EXCEPT ![ptr] = HEAP_FREE]
  BY <1>3, <1>4 DEF ReleaseBlock
<1>6. ~isfree(entries[ptr])
  <2>1. ~Released(ptr, ptr)
    BY <1>2, <1>3 DEF Released, Blocks
  <2> QED
    BY <2>1, <1>1, <1>2, <1>3, HeldIsTaken
<1>7. \A b \in Blocks : entries'[b] = IF b = ptr THEN HEAP_FREE ELSE entries[b]
  BY <1>2, <1>5 DEF TypeOK
<1> QED
  BY <1>2, <1>5, <1>6, <1>7, EntryTests DEF FreeBlocks

\* What each step does to the free blocks, between the heap's functions and in
\* the two that write the table.
LEMMA OneBlockStep ==
  ASSUME IInv, Next
  PROVE  /\ pc = "heap_malloc_blocks" /\ num_blocks(size) = 1 =>
              IF FreeBlocks = {} THEN live' = live /\ FreeBlocks' = {}
              ELSE \E b \in FreeBlocks :
                     live' = [live EXCEPT ![b] = 1] /\ FreeBlocks' = FreeBlocks \ {b}
         /\ pc = "set_blocks_free" /\ live[ptr] = 1 =>
              /\ live' = [live EXCEPT ![ptr] = 0]
              /\ ptr \notin FreeBlocks /\ FreeBlocks' = FreeBlocks \cup {ptr}
         /\ pc \notin {"heap_malloc_blocks", "set_blocks_free"} => FreeBlocks' = FreeBlocks
<1>1. CASE set_blocks_taken
  <2>1. pc = "heap_malloc_blocks" /\ bs # -1
    BY <1>1 DEF set_blocks_taken
  <2>2. bs \in Blocks /\ TypeOK
    BY <2>1, TotalAssumption DEF IInv, TypeOK, Blocks
  <2>3. ASSUME num_blocks(size) = 1
        PROVE  \E b \in FreeBlocks :
                 live' = [live EXCEPT ![b] = 1] /\ FreeBlocks' = FreeBlocks \ {b}
    BY <2>1, <2>2, <2>3, <1>1, FoundOne, TakenOne
  <2>4. num_blocks(size) = 1 => FreeBlocks # {}
    BY <2>3
  <2> QED
    BY <2>1, <2>3, <2>4
<1>2. CASE ReturnNull
  <2>1. pc = "heap_malloc_blocks" /\ bs = -1 /\ live' = live /\ entries' = entries
    BY <1>2 DEF ReturnNull
  <2>2. FreeBlocks' = FreeBlocks
    BY <2>1 DEF FreeBlocks
  <2> QED
    BY <2>1, <2>2, FoundOne
<1>3. CASE ReleaseBlock
  <2>1. pc = "set_blocks_free"
    BY <1>3 DEF ReleaseBlock
  <2> QED
    BY <2>1, <1>3, ReleaseOne
<1>4. CASE ReleaseEnd
  <2>1. pc = "set_blocks_free" /\ i = Total
    BY <1>4 DEF ReleaseEnd
  <2>2. ptr \in Blocks /\ ptr <= i /\ i < ptr + live[ptr]
    BY <2>1 DEF IInv, TypeOK, LoopInv, ReleaseInv
  <2>3. live[ptr] # 1
    BY <2>1, <2>2, TotalAssumption DEF Blocks
  <2> QED
    BY <2>1, <2>3
<1>5. CASE \/ \E s \in Sizes : kmalloc(s)
           \/ \E b \in Blocks : kfree(b)
           \/ BadFree \/ Hang
           \/ SkipTaken \/ CountFree \/ EndOfTable
  <2>1. entries' = entries /\ pc \notin {"heap_malloc_blocks", "set_blocks_free"}
    BY <1>5 DEF kmalloc, kfree, BadFree, Hang, SkipTaken, CountFree, EndOfTable, vars
  <2> QED
    BY <2>1 DEF FreeBlocks
<1> QED
  BY <1>1, <1>2, <1>3, <1>4, <1>5 DEF Next, HeapStep

\* For requests of one block the heap is a set of free blocks.
THEOREM OneBlocks == Spec => OneBlockRequests
<1>1. ASSUME IInv, [Next]_vars
      PROVE  [/\ pc = "heap_malloc_blocks" /\ num_blocks(size) = 1 =>
                   IF FreeBlocks = {} THEN live' = live /\ FreeBlocks' = {}
                   ELSE \E b \in FreeBlocks :
                          live' = [live EXCEPT ![b] = 1] /\ FreeBlocks' = FreeBlocks \ {b}
              /\ pc = "set_blocks_free" /\ live[ptr] = 1 =>
                   /\ live' = [live EXCEPT ![ptr] = 0]
                   /\ ptr \notin FreeBlocks /\ FreeBlocks' = FreeBlocks \cup {ptr}
              /\ pc \notin {"heap_malloc_blocks", "set_blocks_free"} =>
                   FreeBlocks' = FreeBlocks]_vars
  BY <1>1, OneBlockStep
<1> QED
  BY <1>1, Invariance, PTL DEF Spec, OneBlockRequests
=============================================================================
