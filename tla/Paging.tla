-------------------------------- MODULE Paging --------------------------------
(***************************************************************************)
(* Paging: mm/page.c, and the processor that translates addresses by the   *)
(* tables it builds, and remembers translations until the directory is     *)
(* loaded again.  Nothing else makes it forget one.                        *)
(*                                                                         *)
(* Addresses are counted in pages (set_paging refuses one that is not of a *)
(* page's start, and changes nothing).  Memory holds page table entries,   *)
(* of which the frame and the present bit matter: the kernel runs in ring  *)
(* 0 and does not set CR0.WP.  A kmalloc that fails is not noticed by      *)
(* anyone, and what is then written goes to frame 0.                       *)
(***************************************************************************)
EXTENDS Integers

CONSTANTS
  ENTRIES,   \* PAGE_ENTRIES_PER_TABLE
  HeapFrames,\* the frames kmalloc may give
  Remapped,  \* the pages set_paging is called for,
  Targets,   \*   and the frames
  Accessed,  \* the pages that are accessed
  NONE

NULL == 0
Indices == 0 .. ENTRIES - 1
Pages == 0 .. ENTRIES * ENTRIES - 1
Frames == Pages

ASSUME EntriesAssumption == ENTRIES \in Nat \ {0}
ASSUME HeapAssumption == HeapFrames \subseteq Frames \ {NULL}
ASSUME CallersAssumption == Remapped \subseteq Pages /\ Targets \subseteq Frames /\ Accessed \subseteq Pages
ASSUME NoneAssumption == NONE \notin Frames

VARIABLES
  mem,        \* memory, as page tables
  heap,       \* the frames kmalloc has left
  pc,         \* create_page_directory's progress, then "ready", or "fault"
  directory,  \* the directory, NULL if there was no memory for it
  i, offset,  \* create_page_directory: the table being made, its first page
  cr3, PG,    \* the processor's registers
  tlb,        \* the translations it remembers
  short,      \* some kmalloc has failed
  asked,      \* what the callers have asked each page to be
  past,       \* what it was since the directory was loaded
  last        \* the last access: a page and its frame

create == <<pc, directory, i, offset, short>>
processor == <<cr3, PG, tlb, last>>
vars == <<mem, heap, create, processor, asked, past>>

-----------------------------------------------------------------------------
(* Tables.                                                                 *)

Entry(f, p) == [frame |-> f, present |-> p]

dir_index(v) == v \div ENTRIES
table_index(v) == v % ENTRIES

table_of(d, v) == mem[d][dir_index(v)].frame

\* What the processor finds for a page, starting from directory d.
Walk(d, v) ==
  LET e == mem[d][dir_index(v)]
      f == mem[e.frame][table_index(v)]
  IN  IF e.present /\ f.present THEN f.frame ELSE NONE

-----------------------------------------------------------------------------
Init ==
  /\ mem = [f \in Frames |-> [j \in Indices |-> Entry(0, FALSE)]]
  /\ heap \in SUBSET HeapFrames
  /\ pc = "create_page_directory"
  /\ directory = NULL
  /\ i = 0 /\ offset = 0
  /\ cr3 = NULL /\ PG = FALSE
  /\ tlb = [v \in Pages |-> NONE]
  /\ short = FALSE
  /\ asked = [v \in Pages |-> v]
  /\ past = [v \in Pages |-> {}]
  /\ last = <<NONE, NONE>>

\* kmalloc of a page; the heap is first-fit.
kmalloc(f) ==
  IF heap = {} THEN f = NULL /\ short' = TRUE /\ UNCHANGED heap
  ELSE /\ f \in heap /\ \A g \in heap : f <= g
       /\ heap' = heap \ {f}
       /\ UNCHANGED short

Results == HeapFrames \cup {NULL}

create_page_directory ==
  /\ pc = "create_page_directory"
  /\ \E f \in Results : kmalloc(f) /\ directory' = f
  /\ pc' = "tables"
  /\ UNCHANGED <<mem, i, offset, processor, asked, past>>

filled_from_zero == [j \in Indices |-> Entry(j, TRUE)]  \* mutant: the entries of every table start at 0

\* The entries of one table map the pages from offset on to themselves.
filled == [j \in Indices |-> Entry(offset + j, TRUE)]

\* The table is filled, then entered in the directory, which may be the same
\* memory if there was none for either.
create_table ==
  /\ pc = "tables" /\ i < ENTRIES
  /\ \E f \in Results :
       /\ kmalloc(f)
       /\ mem' = [[mem EXCEPT ![f] = filled] EXCEPT ![directory][i] = Entry(f, TRUE)]
  /\ i' = i + 1
  /\ offset' = (offset + ENTRIES) % (ENTRIES * ENTRIES)
  /\ UNCHANGED <<pc, directory, processor, asked, past>>

\* struct page_directory; without memory for it, its only member is written to,
\* and later read from, address 0.
create_struct ==
  /\ pc = "tables" /\ i = ENTRIES
  /\ \E f \in Results :
       /\ kmalloc(f)
       /\ mem' = IF f = NULL THEN [mem EXCEPT ![NULL][0] = Entry(directory, FALSE)] ELSE mem
  /\ pc' = "ready"
  /\ UNCHANGED <<directory, i, offset, processor, asked, past>>

-----------------------------------------------------------------------------
(* The processor.                                                          *)

forget ==
  /\ tlb' = [v \in Pages |-> NONE]
  /\ past' = [v \in Pages |-> {}]

\* switch_page, and get_page_directory.
switch_page ==
  /\ pc = "ready"
  /\ cr3' = directory
  /\ forget
  /\ UNCHANGED <<mem, heap, create, PG, last, asked>>

\* "We do not call enable_paging() until we have created a paging directory
\* and switch to that directory" (include/page.h).
enable_paging ==
  /\ pc = "ready" /\ cr3 = directory /\ ~PG
  /\ PG' = TRUE
  /\ forget
  /\ UNCHANGED <<mem, heap, create, cr3, last, asked>>

\* The processor may look a page up before it is accessed, and forget it.
tlb_fill(v) ==
  /\ pc = "ready" /\ PG
  /\ tlb[v] = NONE
  /\ tlb' = [tlb EXCEPT ![v] = Walk(cr3, v)]
  /\ UNCHANGED <<mem, heap, create, cr3, PG, last, asked, past>>

tlb_evict(v) ==
  /\ pc = "ready"
  /\ tlb[v] # NONE
  /\ tlb' = [tlb EXCEPT ![v] = NONE]
  /\ UNCHANGED <<mem, heap, create, cr3, PG, last, asked, past>>

access(v) ==
  /\ pc = "ready" /\ PG
  /\ tlb[v] # NONE
  /\ last' = <<v, tlb[v]>>
  /\ UNCHANGED <<mem, heap, create, cr3, PG, tlb, asked, past>>

\* The handler of a page fault does not return to where it occurred.
page_fault(v) ==
  /\ pc = "ready" /\ PG
  /\ tlb[v] = NONE /\ Walk(cr3, v) = NONE
  /\ pc' = "fault"
  /\ UNCHANGED <<mem, heap, directory, i, offset, short, processor, asked, past>>

Stopped ==
  /\ pc = "fault"
  /\ UNCHANGED vars

-----------------------------------------------------------------------------
(* set_paging.                                                             *)

\* A frame the kernel reaches at its own address, whatever the processor
\* remembers of it.  A table that it does not so reach is not followed here.
InReach(f) == PG => Walk(cr3, f) = f /\ tlb[f] \in {NONE, f}

\* A page the directory or a table is kept in.  Callers do not remap them.
IsTable(v) == v = directory \/ \E j \in Indices : v = mem[directory][j].frame

set_paging_in_directory(v, f, present) ==  \* mutant: the entry is written to the directory
  /\ pc = "ready"
  /\ ~IsTable(v)
  /\ InReach(directory) /\ InReach(table_of(directory, v))
  /\ mem' = [mem EXCEPT ![directory][dir_index(v)] = Entry(f, present)]
  /\ asked' = [asked EXCEPT ![v] = IF present THEN f ELSE NONE]
  /\ past' = IF PG THEN [past EXCEPT ![v] = @ \cup {Walk(cr3, v)}] ELSE past
  /\ UNCHANGED <<heap, create, processor>>

\* Its physical_addr comes with flags: the page may be made absent.
set_paging(v, f, present) ==
  /\ pc = "ready"
  /\ ~IsTable(v)
  /\ InReach(directory) /\ InReach(table_of(directory, v))
  /\ mem' = [mem EXCEPT ![table_of(directory, v)][table_index(v)] = Entry(f, present)]
  /\ asked' = [asked EXCEPT ![v] = IF present THEN f ELSE NONE]
  /\ past' = IF PG THEN [past EXCEPT ![v] = @ \cup {Walk(cr3, v)}] ELSE past
  /\ UNCHANGED <<heap, create, processor>>

Next ==
  \/ create_page_directory
  \/ create_table
  \/ create_struct
  \/ switch_page
  \/ enable_paging
  \/ \E v \in Accessed : tlb_fill(v) \/ tlb_evict(v) \/ access(v) \/ page_fault(v)
  \/ \E v \in Remapped, f \in Targets, present \in BOOLEAN : set_paging(v, f, present)
  \/ Stopped

Spec == Init /\ [][Next]_vars

-----------------------------------------------------------------------------
(* The address space a directory is for, if there was memory for it.       *)

Serves == PG /\ ~short

Space == INSTANCE AddressSpace WITH
  map <- IF Serves THEN [v \in Pages |-> Walk(cr3, v)] ELSE [v \in Pages |-> NONE],
  past <- IF Serves THEN past ELSE [v \in Pages |-> {}],
  last <- IF Serves THEN last ELSE <<NONE, NONE>>

-----------------------------------------------------------------------------
(* Properties.                                                             *)

\* The type invariant.
TypeOK ==
  /\ mem \in [Frames -> [Indices -> [frame : Frames, present : BOOLEAN]]]
  /\ heap \subseteq HeapFrames
  /\ pc \in {"create_page_directory", "tables", "ready", "fault"}
  /\ directory \in Results /\ cr3 \in Results
  /\ i \in 0 .. ENTRIES /\ offset \in Pages
  /\ PG \in BOOLEAN /\ short \in BOOLEAN
  /\ tlb \in [Pages -> Frames \cup {NONE}]
  /\ asked \in [Pages -> Frames \cup {NONE}]
  /\ past \in [Pages -> SUBSET (Frames \cup {NONE})]
  /\ last \in {<<NONE, NONE>>} \cup (Accessed \X Frames)

\* Once built, the tables say of each page what the callers have asked last,
\* and of the others that they are themselves: of all pages whose table there
\* was memory for, even when others share frame 0.
TablesAreAsAsked ==
  pc = "ready" /\ directory # NULL =>
    \A v \in Pages :
      table_of(directory, v) # NULL => Walk(directory, v) = asked[v]

\* The tables and the processor implement the address space: set_paging
\* changes one page, and an access goes where its page is mapped or was mapped
\* since the directory was loaded.
ImplementsAddressSpace == Space!Spec
=============================================================================
