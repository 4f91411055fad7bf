--------------------------- MODULE TranslationProofs ---------------------------
(***************************************************************************)
(* Proofs about the tables the processor translates addresses by.          *)
(*                                                                         *)
(* Page tables, of every size, for every heap and every set of pages that  *)
(* callers remap and access: the tables say of each page what was asked of *)
(* it, and with the processor's memory of translations they implement an   *)
(* address space.                                                          *)
(*                                                                         *)
(* Segment descriptors, in bytes of every base and for every list of       *)
(* segments: the processor finds in them what was asked for.               *)
(***************************************************************************)
EXTENDS Paging, Gdt, TLAPS

-----------------------------------------------------------------------------
(* A page is its table's number and its place in the table.                *)

LEMMA Product ==
  ASSUME NEW E \in Nat \ {0}, NEW a \in 0 .. E - 1, NEW b \in 0 .. E - 1
  PROVE  /\ a * E \in Nat /\ E * E \in Nat \ {0}
         /\ a * E + b \in 0 .. E * E - 1
         /\ a * E + E <= E * E
<1>1. (E - 1 - a) * E >= 0
  BY SMT
<1>2. (E - 1 - a) * E = E * E - E - a * E
  BY SMT
<1>3. a * E \in Nat /\ E * E \in Nat \ {0}
  BY SMT
<1> QED
  BY <1>1, <1>2, <1>3, SMT

LEMMA Division ==
  ASSUME NEW E \in Nat \ {0}, NEW v \in 0 .. E * E - 1
  PROVE  /\ v \div E \in 0 .. E - 1
         /\ v % E \in 0 .. E - 1
         /\ v = (v \div E) * E + (v % E)
<1>1. v \in Nat /\ v \div E \in Nat /\ v % E \in 0 .. E - 1
  BY SMT
<1>2. v = (v \div E) * E + (v % E)
  BY <1>1, SMT
<1>3. v \div E < E
  BY <1>1, <1>2, SMT
<1> QED
  BY <1>1, <1>2, <1>3, SMT

LEMMA Modulo ==
  ASSUME NEW b \in Nat \ {0}, NEW a \in 0 .. b
  PROVE  a % b = IF a = b THEN 0 ELSE a
BY SMT

LEMMA PageParts ==
  ASSUME NEW v \in Pages
  PROVE  /\ dir_index(v) \in Indices /\ table_index(v) \in Indices
         /\ v = dir_index(v) * ENTRIES + table_index(v)
BY EntriesAssumption, Division DEF Pages, Indices, dir_index, table_index

LEMMA PageOfParts ==
  ASSUME NEW a \in Indices, NEW b \in Indices
  PROVE  a * ENTRIES + b \in Pages
BY EntriesAssumption, Product DEF Pages, Indices

LEMMA SamePage ==
  ASSUME NEW v \in Pages, NEW w \in Pages,
         dir_index(v) = dir_index(w), table_index(v) = table_index(w)
  PROVE  v = w
BY PageParts

-----------------------------------------------------------------------------
(* The inductive invariant.                                                *)

Entered == 0 .. i - 1       \* the tables entered in the directory so far
Table(j) == mem[directory][j].frame

\* Before paging is used.
StartInv ==
  /\ pc = "create_page_directory" => directory = NULL /\ i = 0 /\ ~short
  /\ pc \in {"ready", "fault"} => i = ENTRIES
  /\ offset = IF i < ENTRIES THEN i * ENTRIES ELSE 0
  /\ pc \in {"create_page_directory", "tables"} => asked = [v \in Pages |-> v]
  /\ PG => cr3 = directory /\ pc \in {"ready", "fault"}
  /\ ~PG => last = <<NONE, NONE>>

\* The directory and its tables are in memory of their own, but for the tables
\* there was none for.
FramesInv ==
  /\ directory \notin heap
  /\ directory # NULL =>
       \A j \in Entered :
         /\ mem[directory][j].present
         /\ Table(j) \notin heap /\ Table(j) # directory
         /\ \A k \in Entered : Table(k) = Table(j) /\ Table(j) # NULL => k = j
  /\ ~short /\ pc # "create_page_directory" =>
       directory # NULL /\ \A j \in Entered : Table(j) # NULL

\* The tables there was memory for say what was asked.
AskedInv ==
  directory # NULL =>
    \A v \in Pages :
      dir_index(v) \in Entered /\ table_of(directory, v) # NULL => Walk(directory, v) = asked[v]

\* The processor remembers what the tables say or have said.
TlbInv ==
  Serves => \A v \in Pages : tlb[v] \in {NONE, Walk(cr3, v)} \cup past[v]

IInv == TypeOK /\ StartInv /\ FramesInv /\ AskedInv /\ TlbInv

-----------------------------------------------------------------------------
(* Type correctness.                                                       *)

LEMMA InitTypeOK == Init => TypeOK
<1> SUFFICES ASSUME Init PROVE TypeOK
  OBVIOUS
<1>1. 0 \in 0 .. ENTRIES /\ 0 \in Pages
  BY EntriesAssumption, Product DEF Pages
<1> QED
  BY <1>1 DEF Init, TypeOK, Frames, Results, NULL, Entry

\* What kmalloc gives was in the heap and is not any more; or it is NULL.
LEMMA Given ==
  ASSUME TypeOK, NEW f \in Results, kmalloc(f)
  PROVE  /\ f \in Frames /\ short' \in BOOLEAN
         /\ heap' \subseteq heap /\ heap' \subseteq HeapFrames /\ f \notin heap'
         /\ f = NULL \/ f \in heap
         /\ ~short' => ~short /\ f # NULL
<1>1. NULL \in Frames
  BY EntriesAssumption, Product DEF Frames, Pages, NULL
<1>2. CASE heap = {}
  BY <1>1, <1>2, HeapAssumption DEF kmalloc, TypeOK, Results
<1>3. CASE heap # {}
  BY <1>1, <1>3, HeapAssumption DEF kmalloc, TypeOK, Results
<1> QED
  BY <1>2, <1>3

\* The entries that create_page_directory gives to a table.
LEMMA Filled ==
  ASSUME TypeOK, StartInv, i < ENTRIES
  PROVE  /\ i \in Indices /\ offset = i * ENTRIES
         /\ \A j \in Indices : offset + j \in Frames
         /\ (offset + ENTRIES) % (ENTRIES * ENTRIES)
              = IF i + 1 < ENTRIES THEN (i + 1) * ENTRIES ELSE 0
         /\ (offset + ENTRIES) % (ENTRIES * ENTRIES) \in Pages
<1>1. i \in Indices /\ offset = i * ENTRIES /\ i \in 0 .. ENTRIES - 1 /\ i \in Nat
  BY EntriesAssumption DEF TypeOK, StartInv, Indices
<1>2. \A j \in Indices : offset + j \in Frames
  BY <1>1, PageOfParts DEF Frames
<1>3. offset + ENTRIES = (i + 1) * ENTRIES
  BY <1>1, EntriesAssumption, SMT
<1>4. CASE i + 1 < ENTRIES
  <2>1. i + 1 \in 0 .. ENTRIES - 1 /\ 0 \in 0 .. ENTRIES - 1
    BY <1>1, <1>4, EntriesAssumption
  <2>2. /\ (i + 1) * ENTRIES + 0 \in 0 .. ENTRIES * ENTRIES - 1
        /\ (i + 1) * ENTRIES \in Nat /\ ENTRIES * ENTRIES \in Nat \ {0}
    BY <2>1, EntriesAssumption, Product
  <2> HIDE <1>1
  <2> DEFINE a == (i + 1) * ENTRIES
             b == ENTRIES * ENTRIES
  <2>3. a \in 0 .. b /\ a # b /\ b \in Nat \ {0} /\ a \in Pages
    BY <2>2 DEF Pages
  <2>4. a % b = a
    <3> HIDE DEF a, b
    <3> QED
      BY <2>3, Modulo
  <2> QED
    BY <1>1, <1>2, <1>3, <1>4, <2>3, <2>4
<1>5. CASE ~(i + 1 < ENTRIES)
  <2>1. i + 1 = ENTRIES
    BY <1>1, <1>5, EntriesAssumption DEF Indices
  <2>2. 0 \in 0 .. ENTRIES - 1
    BY EntriesAssumption
  <2>3. 0 * ENTRIES + 0 \in Pages /\ ENTRIES * ENTRIES \in Nat \ {0}
    BY <2>2, EntriesAssumption, Product DEF Pages
  <2> DEFINE b == ENTRIES * ENTRIES
  <2>4. b % b = 0
    <3> HIDE DEF b
    <3>1. b \in Nat \ {0}
      BY <2>3 DEF b
    <3> QED
      BY <3>1, Modulo
  <2>5. offset + ENTRIES = b
    BY <1>3, <2>1
  <2>6. 0 \in Pages
    BY <2>3, EntriesAssumption
  <2> QED
    BY <1>1, <1>2, <1>5, <2>4, <2>5, <2>6
<1> QED
  BY <1>4, <1>5

LEMMA WalkType ==
  ASSUME TypeOK, NEW d \in Frames, NEW v \in Pages
  PROVE  Walk(d, v) \in Frames \cup {NONE}
<1>1. dir_index(v) \in Indices /\ table_index(v) \in Indices
  BY PageParts
<1>2. mem[d][dir_index(v)].frame \in Frames
  BY <1>1 DEF TypeOK
<1>3. mem[mem[d][dir_index(v)].frame][table_index(v)].frame \in Frames
  BY <1>1, <1>2 DEF TypeOK
<1> QED
  BY <1>3 DEF Walk

LEMMA ResultIsFrame == Results \subseteq Frames
BY EntriesAssumption, Product, HeapAssumption DEF Results, Frames, Pages, NULL

LEMMA TypeStep ==
  ASSUME TypeOK, StartInv, [Next]_vars
  PROVE  TypeOK'
<1> USE DEF create, processor
<1>1. CASE create_page_directory
  <2>1. PICK f \in Results : kmalloc(f) /\ directory' = f
    BY <1>1 DEF create_page_directory
  <2>2. short' \in BOOLEAN /\ heap' \subseteq HeapFrames
    BY <2>1, Given
  <2> QED
    BY <1>1, <2>1, <2>2 DEF create_page_directory, TypeOK
<1>2. CASE create_table
  <2>1. PICK f \in Results :
          /\ kmalloc(f)
          /\ mem' = [[mem EXCEPT ![f] = filled] EXCEPT ![directory][i] = Entry(f, TRUE)]
    BY <1>2 DEF create_table
  <2>2. f \in Frames /\ short' \in BOOLEAN /\ heap' \subseteq HeapFrames
    BY <2>1, Given
  <2>3. i < ENTRIES
    BY <1>2 DEF create_table
  <2>4. filled \in [Indices -> [frame : Frames, present : BOOLEAN]]
    BY <2>3, Filled DEF filled, Entry
  <2>5. mem' \in [Frames -> [Indices -> [frame : Frames, present : BOOLEAN]]]
    <3>1. [mem EXCEPT ![f] = filled] \in [Frames -> [Indices -> [frame : Frames, present : BOOLEAN]]]
      BY <2>2, <2>4 DEF TypeOK
    <3>2. Entry(f, TRUE) \in [frame : Frames, present : BOOLEAN]
      BY <2>2 DEF Entry
    <3> QED
      BY <2>1, <2>3, <3>1, <3>2, Filled
  <2>6. i' \in 0 .. ENTRIES
    BY <1>2, <2>3, EntriesAssumption DEF create_table, TypeOK
  <2>7. offset' \in Pages
    BY <1>2, <2>3, Filled DEF create_table
  <2> QED
    BY <1>2, <2>2, <2>5, <2>6, <2>7 DEF create_table, TypeOK
<1>3. CASE create_struct
  <2>1. PICK f \in Results :
          /\ kmalloc(f)
          /\ mem' = IF f = NULL THEN [mem EXCEPT ![NULL][0] = Entry(directory, FALSE)] ELSE mem
    BY <1>3 DEF create_struct
  <2>2. short' \in BOOLEAN /\ heap' \subseteq HeapFrames
    BY <2>1, Given
  <2>3. 0 \in Indices /\ directory \in Frames
    BY EntriesAssumption, ResultIsFrame DEF Indices, TypeOK
  <2>4. mem' \in [Frames -> [Indices -> [frame : Frames, present : BOOLEAN]]]
    BY <2>1, <2>3 DEF TypeOK, Entry
  <2> QED
    BY <1>3, <2>2, <2>4 DEF create_struct, TypeOK
<1>4. CASE switch_page
  BY <1>4 DEF switch_page, forget, TypeOK
<1>5. CASE enable_paging
  BY <1>5 DEF enable_paging, forget, TypeOK
<1>6. ASSUME NEW v \in Accessed, tlb_fill(v) \/ tlb_evict(v) \/ access(v) \/ page_fault(v)
      PROVE  TypeOK'
  <2>1. v \in Pages
    BY CallersAssumption
  <2>2. CASE tlb_fill(v)
    <3>1. Walk(cr3, v) \in Frames \cup {NONE}
      BY <2>1, WalkType, ResultIsFrame DEF TypeOK
    <3> QED
      BY <2>1, <2>2, <3>1 DEF tlb_fill, TypeOK
  <2>3. CASE tlb_evict(v)
    BY <2>1, <2>3 DEF tlb_evict, TypeOK
  <2>4. CASE access(v)
    BY <2>1, <2>4 DEF access, TypeOK
  <2>5. CASE page_fault(v)
    BY <2>5 DEF page_fault, TypeOK
  <2> QED
    BY <1>6, <2>2, <2>3, <2>4, <2>5
<1>7. ASSUME NEW v \in Remapped, NEW f \in Targets, NEW present \in BOOLEAN,
             set_paging(v, f, present)
      PROVE  TypeOK'
  <2>1. v \in Pages /\ f \in Frames /\ directory \in Frames /\ cr3 \in Frames
    BY CallersAssumption, ResultIsFrame DEF TypeOK
  <2>2. dir_index(v) \in Indices /\ table_index(v) \in Indices
    BY <2>1, PageParts
  <2>3. table_of(directory, v) \in Frames
    BY <2>1, <2>2 DEF table_of, TypeOK
  <2>4. Walk(cr3, v) \in Frames \cup {NONE}
    BY <2>1, WalkType
  <2>5. mem' \in [Frames -> [Indices -> [frame : Frames, present : BOOLEAN]]]
    BY <1>7, <2>1, <2>2, <2>3 DEF set_paging, TypeOK, Entry
  <2>6. asked' \in [Pages -> Frames \cup {NONE}]
    BY <1>7, <2>1 DEF set_paging, TypeOK
  <2>7. past' \in [Pages -> SUBSET (Frames \cup {NONE})]
    BY <1>7, <2>1, <2>4 DEF set_paging, TypeOK
  <2> QED
    BY <1>7, <2>5, <2>6, <2>7 DEF set_paging, TypeOK
<1>8. CASE UNCHANGED vars \/ Stopped
  BY <1>8 DEF vars, Stopped, TypeOK
<1> QED
  BY <1>1, <1>2, <1>3, <1>4, <1>5, <1>6, <1>7, <1>8 DEF Next

-----------------------------------------------------------------------------
(* The tables.                                                             *)

LEMMA InitIInv == Init => IInv
<1> SUFFICES ASSUME Init PROVE IInv
  OBVIOUS
<1>1. StartInv
  <2>1. 0 * ENTRIES = 0
    BY EntriesAssumption
  <2> QED
    BY <2>1 DEF Init, StartInv
<1>2. FramesInv /\ AskedInv
  BY HeapAssumption DEF Init, FramesInv, AskedInv
<1>3. TlbInv
  BY DEF Init, TlbInv, Serves
<1> QED
  BY <1>1, <1>2, <1>3, InitTypeOK DEF IInv

\* What is reached from the directory, if it is not NULL, when one more table
\* is made.
LEMMA CreateTable ==
  ASSUME IInv, create_table, TypeOK'
  PROVE  StartInv' /\ FramesInv' /\ AskedInv'
<1> USE DEF IInv
<1>1. PICK f \in Results :
        /\ kmalloc(f)
        /\ mem' = [[mem EXCEPT ![f] = filled] EXCEPT ![directory][i] = Entry(f, TRUE)]
  BY DEF create_table
<1>2. /\ pc = "tables" /\ i < ENTRIES /\ i' = i + 1
      /\ offset' = (offset + ENTRIES) % (ENTRIES * ENTRIES)
      /\ UNCHANGED <<pc, directory, cr3, PG, tlb, last, asked, past>>
  BY DEF create_table, processor
<1>3. /\ f \in Frames /\ heap' \subseteq heap /\ f \notin heap'
      /\ f = NULL \/ f \in heap
      /\ ~short' => ~short /\ f # NULL
  BY <1>1, Given
<1>4. i \in Indices /\ i \in Nat /\ i' \in Nat /\ offset = i * ENTRIES
  BY <1>2, Filled DEF TypeOK
<1>5. Entered \subseteq Indices /\ Entered' = Entered \cup {i} /\ i \notin Entered
  BY <1>2, <1>4, EntriesAssumption DEF Entered, Indices
<1>6. directory \in Frames /\ directory \notin heap
  BY ResultIsFrame DEF TypeOK, FramesInv
<1>7. StartInv'
  <2>1. offset' = IF i' < ENTRIES THEN i' * ENTRIES ELSE 0
    BY <1>2, Filled
  <2> QED
    BY <1>2, <2>1 DEF StartInv
<1>8. ASSUME directory # NULL
      PROVE  /\ f # directory
             /\ mem'[directory] = [mem[directory] EXCEPT ![i] = Entry(f, TRUE)]
             /\ mem'[f] = filled
             /\ \A g \in Frames \ {directory, f} : mem'[g] = mem[g]
             /\ \A j \in Entered : mem'[directory][j] = mem[directory][j]
             /\ mem'[directory][i] = Entry(f, TRUE)
  <2>1. f # directory
    BY <1>3, <1>6, <1>8
  <2>2. mem \in [Frames -> [Indices -> [frame : Frames, present : BOOLEAN]]]
    BY DEF TypeOK
  <2>3. /\ mem'[directory] = [mem[directory] EXCEPT ![i] = Entry(f, TRUE)]
        /\ mem'[f] = filled
        /\ \A g \in Frames \ {directory, f} : mem'[g] = mem[g]
    BY <1>1, <1>3, <1>6, <2>1, <2>2
  <2>4. mem[directory] \in [Indices -> [frame : Frames, present : BOOLEAN]]
    BY <1>6, <2>2
  <2> QED
    BY <1>4, <1>5, <2>1, <2>3, <2>4
<1>9. FramesInv'
  <2>1. directory' \notin heap'
    BY <1>2, <1>3, <1>6
  <2>2. ASSUME directory' # NULL, NEW j \in Entered'
        PROVE  /\ mem'[directory'][j].present
               /\ mem'[directory'][j].frame \notin heap'
               /\ mem'[directory'][j].frame # directory'
               /\ \A k \in Entered' :
                    mem'[directory'][k].frame = mem'[directory'][j].frame
                      /\ mem'[directory'][j].frame # NULL => k = j
    <3>1. /\ directory # NULL /\ directory' = directory
          /\ \A k \in Entered : mem'[directory][k] = mem[directory][k]
          /\ mem'[directory][i].frame = f /\ mem'[directory][i].present
          /\ f # directory
      BY <1>2, <1>8, <2>2 DEF Entry
    <3>2. \A l \in Entered :
            /\ mem[directory][l].present
            /\ mem[directory][l].frame \notin heap
            /\ mem[directory][l].frame # directory
            /\ \A k \in Entered : mem[directory][k].frame = mem[directory][l].frame
                                    /\ mem[directory][l].frame # NULL => k = l
      BY <3>1 DEF FramesInv, Table
    <3>3. \A l \in Entered : mem[directory][l].frame = f => f = NULL
      BY <1>3, <3>2
    <3>4. CASE j \in Entered
      BY <1>3, <1>5, <3>1, <3>2, <3>3, <3>4
    <3>5. CASE j = i
      BY <1>3, <1>5, <3>1, <3>2, <3>3, <3>5
    <3> QED
      BY <1>5, <3>4, <3>5
  <2>3. ASSUME ~short'
        PROVE  directory' # NULL /\ \A j \in Entered' : mem'[directory'][j].frame # NULL
    <3>1. /\ directory # NULL /\ f # NULL
          /\ \A j \in Entered : mem[directory][j].frame # NULL
      BY <1>2, <1>3, <2>3 DEF FramesInv, Table
    <3> QED
      BY <1>2, <1>5, <1>8, <3>1 DEF Entry
  <2> QED
    BY <2>1, <2>2, <2>3 DEF FramesInv, Table
<1>10. AskedInv'
  <2> SUFFICES ASSUME directory # NULL, NEW v \in Pages, dir_index(v) \in Entered',
                      mem'[directory][dir_index(v)].frame # NULL
               PROVE  Walk(directory, v)' = asked[v]
    BY <1>2 DEF AskedInv, table_of, dir_index
  <2>1. dir_index(v) \in Indices /\ table_index(v) \in Indices
        /\ v = dir_index(v) * ENTRIES + table_index(v)
    BY PageParts
  <2>2. CASE dir_index(v) = i
    <3>1. mem'[directory][i] = Entry(f, TRUE) /\ mem'[f] = filled
      BY <1>8
    <3>2. mem'[f][table_index(v)] = Entry(v, TRUE)
      BY <1>4, <2>1, <2>2, <3>1 DEF filled
    <3>3. asked[v] = v
      BY <1>2 DEF StartInv
    <3> QED
      BY <1>2, <2>2, <3>1, <3>2, <3>3 DEF Walk, Entry, dir_index, table_index
  <2>3. CASE dir_index(v) \in Entered
    <3> DEFINE t == mem[directory][dir_index(v)].frame
    <3>1. mem'[directory][dir_index(v)] = mem[directory][dir_index(v)]
      BY <1>8, <2>3
    <3>2. t # NULL /\ t \notin heap /\ t # directory /\ t \in Frames
      BY <1>6, <2>1, <2>3, <3>1 DEF FramesInv, Table, TypeOK
    <3>3. t # f
      BY <1>3, <3>2
    <3>4. mem'[t] = mem[t]
      BY <1>8, <3>2, <3>3
    <3>5. Walk(directory, v) = asked[v]
      BY <2>3, <3>2 DEF AskedInv, table_of
    <3> QED
      BY <1>2, <3>1, <3>4, <3>5 DEF Walk, dir_index, table_index
  <2> QED
    BY <1>5, <2>2, <2>3
<1> QED
  BY <1>7, <1>9, <1>10

LEMMA CreatePageDirectory ==
  ASSUME IInv, create_page_directory
  PROVE  StartInv' /\ FramesInv' /\ AskedInv'
<1> USE DEF IInv
<1>1. PICK f \in Results : kmalloc(f) /\ directory' = f
  BY DEF create_page_directory
<1>2. /\ pc = "create_page_directory" /\ pc' = "tables" /\ i = 0
      /\ UNCHANGED <<mem, i, offset, cr3, PG, tlb, last, asked, past>>
  BY DEF create_page_directory, processor, StartInv
<1>3. /\ f \notin heap'
      /\ ~short' => ~short /\ f # NULL
  BY <1>1, Given
<1>4. Entered' = {}
  BY <1>2 DEF Entered
<1>5. StartInv'
  BY <1>2 DEF StartInv
<1>6. FramesInv'
  BY <1>1, <1>2, <1>3, <1>4 DEF FramesInv
<1>7. AskedInv'
  BY <1>4 DEF AskedInv
<1> QED
  BY <1>5, <1>6, <1>7

\* With a directory, nothing that its last write can hit belongs to it.
LEMMA CreateStruct ==
  ASSUME IInv, create_struct
  PROVE  StartInv' /\ FramesInv' /\ AskedInv'
<1> USE DEF IInv
<1>1. PICK f \in Results :
        /\ kmalloc(f)
        /\ mem' = IF f = NULL THEN [mem EXCEPT ![NULL][0] = Entry(directory, FALSE)] ELSE mem
  BY DEF create_struct
<1>2. /\ pc = "tables" /\ i = ENTRIES /\ pc' = "ready"
      /\ UNCHANGED <<directory, i, offset, cr3, PG, tlb, last, asked, past>>
  BY DEF create_struct, processor
<1>3. heap' \subseteq heap /\ (~short' => ~short)
  BY <1>1, Given
<1>4. Entered' = Entered /\ Entered \subseteq Indices
  BY <1>2, EntriesAssumption DEF Entered, Indices
<1>5. \A g \in Frames \ {NULL} : mem'[g] = mem[g]
  BY <1>1 DEF TypeOK
<1>6. directory \in Frames
  BY ResultIsFrame DEF TypeOK
<1>7. directory # NULL => mem'[directory] = mem[directory]
  BY <1>5, <1>6
<1>8. StartInv'
  BY <1>2 DEF StartInv
<1>9. FramesInv'
  BY <1>2, <1>3, <1>4, <1>7 DEF FramesInv, Table
<1>10. AskedInv'
  <2> SUFFICES ASSUME directory # NULL, NEW v \in Pages, dir_index(v) \in Entered,
                      mem[directory][dir_index(v)].frame # NULL
               PROVE  Walk(directory, v)' = asked[v]
    BY <1>2, <1>4, <1>7 DEF AskedInv, table_of, dir_index
  <2>1. Walk(directory, v) = asked[v]
    BY DEF AskedInv, table_of
  <2>2. mem[directory][dir_index(v)].frame \in Frames
    BY <1>4, <1>6 DEF TypeOK
  <2> QED
    BY <1>2, <1>5, <1>7, <2>1, <2>2 DEF Walk, dir_index, table_index
<1> QED
  BY <1>8, <1>9, <1>10

\* set_paging changes what the tables say of one page.
LEMMA SetPaging ==
  ASSUME IInv, NEW v \in Remapped, NEW f \in Targets, NEW present \in BOOLEAN,
         set_paging(v, f, present)
  PROVE  StartInv' /\ FramesInv' /\ AskedInv'
<1> USE DEF IInv
<1> DEFINE t == table_of(directory, v)
<1>1. /\ pc = "ready"
      /\ mem' = [mem EXCEPT ![t][table_index(v)] = Entry(f, present)]
      /\ asked' = [asked EXCEPT ![v] = IF present THEN f ELSE NONE]
      /\ UNCHANGED <<heap, pc, directory, i, offset, short, cr3, PG, tlb, last>>
  BY DEF set_paging, create, processor
<1>2. v \in Pages /\ dir_index(v) \in Indices /\ table_index(v) \in Indices
  BY CallersAssumption, PageParts
<1>3. i = ENTRIES /\ Entered = Indices /\ Entered' = Entered
  BY <1>1 DEF StartInv, Entered, Indices
<1>4. directory \in Frames /\ t \in Frames
  BY <1>2, ResultIsFrame DEF TypeOK, table_of
<1>5. /\ \A g \in Frames \ {t} : mem'[g] = mem[g]
      /\ \A j \in Indices \ {table_index(v)} : mem'[t][j] = mem[t][j]
      /\ mem'[t][table_index(v)] = Entry(f, present)
  <2>1. mem \in [Frames -> [Indices -> [frame : Frames, present : BOOLEAN]]]
    BY DEF TypeOK
  <2>2. mem[t] \in [Indices -> [frame : Frames, present : BOOLEAN]]
    BY <1>4, <2>1
  <2> HIDE DEF t
  <2> QED
    BY <1>1, <1>2, <1>4, <2>1, <2>2
<1>6. directory # NULL => mem'[directory] = mem[directory]
  <2>1. ASSUME directory # NULL PROVE t # directory
    BY <1>2, <1>3, <2>1 DEF FramesInv, Table, table_of
  <2> QED
    BY <1>4, <1>5, <2>1
<1>7. StartInv'
  BY <1>1 DEF StartInv
<1>8. FramesInv'
  BY <1>1, <1>3, <1>6 DEF FramesInv, Table
<1>9. AskedInv'
  <2> SUFFICES ASSUME directory # NULL, NEW w \in Pages,
                      mem[directory][dir_index(w)].frame # NULL
               PROVE  Walk(directory, w)' = asked'[w]
    BY <1>1, <1>6 DEF AskedInv, table_of, dir_index
  <2> DEFINE u == mem[directory][dir_index(w)].frame
  <2>1. dir_index(w) \in Indices /\ table_index(w) \in Indices
    BY PageParts
  <2>2. /\ mem[directory][dir_index(w)].present
        /\ Walk(directory, w) = asked[w]
        /\ u \in Frames
    BY <1>3, <1>4, <2>1 DEF FramesInv, AskedInv, table_of, TypeOK
  <2>3. CASE w = v
    <3>1. u = t
      BY <2>3 DEF table_of
    <3>2. mem'[u][table_index(w)] = Entry(f, present)
      BY <1>5, <2>3, <3>1
    <3>3. asked'[w] = IF present THEN f ELSE NONE
      BY <1>1, <1>2, <2>3 DEF TypeOK
    <3>4. /\ mem'[u][table_index(w)].frame = f
          /\ mem'[u][table_index(w)].present <=> present
      BY <3>2 DEF Entry
    <3>5. mem'[directory][dir_index(w)] = mem[directory][dir_index(w)] /\ directory' = directory
      BY <1>1, <1>6
    <3> QED
      BY <2>2, <3>3, <3>4, <3>5 DEF Walk, dir_index, table_index
  <2>4. CASE w # v
    <3>1. asked'[w] = asked[w]
      BY <1>1, <1>2, <2>4 DEF TypeOK
    <3>2. mem'[u][table_index(w)] = mem[u][table_index(w)]
      <4>1. CASE u = t
        <5>1. dir_index(w) = dir_index(v)
          BY <1>2, <1>3, <2>1, <4>1 DEF FramesInv, Table, table_of
        <5>2. table_index(w) # table_index(v)
          BY <1>2, <2>4, <5>1, SamePage
        <5> QED
          BY <1>5, <2>1, <4>1, <5>2
      <4>2. CASE u # t
        BY <1>5, <2>2, <4>2
      <4> QED
        BY <4>1, <4>2
    <3> QED
      BY <1>1, <1>6, <2>2, <3>1, <3>2 DEF Walk, dir_index, table_index
  <2> QED
    BY <2>3, <2>4
<1> QED
  BY <1>7, <1>8, <1>9

\* The other steps leave memory alone.
LEMMA TablesLeftAlone ==
  ASSUME IInv,
         \/ switch_page \/ enable_paging \/ Stopped \/ UNCHANGED vars
         \/ \E v \in Accessed : tlb_fill(v) \/ tlb_evict(v) \/ access(v) \/ page_fault(v)
  PROVE  /\ StartInv' /\ FramesInv' /\ AskedInv'
         /\ UNCHANGED <<mem, directory, short, asked>>
<1> USE DEF IInv
<1>1. /\ UNCHANGED <<mem, heap, directory, i, offset, short, asked>>
      /\ pc' = pc \/ (pc = "ready" /\ pc' = "fault")
      /\ \/ PG' = PG /\ last' = last /\ cr3' = cr3
         \/ pc = "ready" /\ (PG => PG') /\ (PG' => cr3' = directory) /\ (PG' \/ last' = last)
  BY DEF StartInv, switch_page, enable_paging, tlb_fill, tlb_evict, access, page_fault, Stopped, vars, create, processor
<1>2. StartInv'
  BY <1>1 DEF StartInv
<1>3. FramesInv'
  BY <1>1 DEF FramesInv, Entered, Table
<1>4. AskedInv'
  BY <1>1 DEF AskedInv, Entered, Walk, table_of, dir_index, table_index
<1> QED
  BY <1>1, <1>2, <1>3, <1>4

-----------------------------------------------------------------------------
(* The processor.                                                          *)

\* With memory for all of it, the tables in use say what was asked.
LEMMA Served ==
  ASSUME IInv, Serves
  PROVE  /\ cr3 = directory /\ directory # NULL /\ pc \in {"ready", "fault"}
         /\ \A v \in Pages : Walk(cr3, v) = asked[v]
<1> USE DEF IInv, Serves
<1>1. cr3 = directory /\ pc \in {"ready", "fault"} /\ i = ENTRIES
  BY DEF StartInv
<1>2. directory # NULL /\ \A j \in Indices : Table(j) # NULL
  BY <1>1 DEF FramesInv, Entered, Indices
<1>3. \A v \in Pages : dir_index(v) \in Entered /\ table_of(directory, v) # NULL
  BY <1>1, <1>2, PageParts DEF Table, table_of, Entered, Indices
<1>4. \A v \in Pages : Walk(directory, v) = asked[v]
  BY <1>2, <1>3 DEF AskedInv
<1> QED
  BY <1>1, <1>2, <1>4

\* So set_paging changes one translation.
LEMMA SetServed ==
  ASSUME IInv, Serves, NEW v \in Remapped, NEW f \in Targets, NEW present \in BOOLEAN,
         set_paging(v, f, present)
  PROVE  /\ Serves' /\ v \in Pages /\ f \in Frames
         /\ UNCHANGED <<cr3, tlb, last>>
         /\ past' = [past EXCEPT ![v] = @ \cup {Walk(cr3, v)}]
         /\ \A w \in Pages :
              Walk(cr3, w)' = IF w = v THEN IF present THEN f ELSE NONE ELSE Walk(cr3, w)
<1> USE DEF IInv
<1>1. /\ UNCHANGED <<pc, directory, i, short, cr3, PG, tlb, last>>
      /\ asked' = [asked EXCEPT ![v] = IF present THEN f ELSE NONE]
      /\ past' = [past EXCEPT ![v] = @ \cup {Walk(cr3, v)}]
  BY DEF set_paging, create, processor, Serves
<1>2. v \in Pages /\ f \in Frames
  BY CallersAssumption
<1>3. /\ cr3 = directory /\ directory # NULL /\ pc \in {"ready", "fault"}
      /\ \A w \in Pages : Walk(cr3, w) = asked[w]
  BY Served
<1>4. FramesInv' /\ AskedInv'
  BY SetPaging
<1>5. i' = ENTRIES
  BY <1>1, <1>3 DEF StartInv
<1>6. \A j \in Indices : mem'[directory'][j].frame # NULL
  BY <1>1, <1>3, <1>4, <1>5 DEF FramesInv, Entered, Indices, Table, Serves
<1>7. \A w \in Pages : dir_index(w) \in Indices
  BY PageParts
<1>8. ASSUME NEW w \in Pages
      PROVE  Walk(cr3, w)' = asked'[w]
  <2>1. dir_index(w) \in Entered' /\ mem'[directory'][dir_index(w)].frame # NULL
    BY <1>5, <1>6, <1>7 DEF Entered, Indices
  <2>2. Walk(directory, w)' = asked'[w]
    BY <1>1, <1>3, <1>4, <2>1 DEF AskedInv, table_of, dir_index
  <2> QED
    BY <1>1, <1>3, <2>2 DEF Walk
<1>9. \A w \in Pages : asked'[w] = IF w = v THEN IF present THEN f ELSE NONE ELSE asked[w]
  BY <1>1, <1>2 DEF TypeOK
<1>10. Serves'
  BY <1>1 DEF Serves
<1> QED
  BY <1>1, <1>2, <1>3, <1>8, <1>9, <1>10

LEMMA TlbStep ==
  ASSUME IInv, [Next]_vars
  PROVE  TlbInv'
<1> USE DEF IInv
<1> SUFFICES ASSUME Serves', NEW w \in Pages
             PROVE  tlb'[w] \in {NONE, Walk(cr3, w)'} \cup past'[w]
  BY DEF TlbInv
<1>1. CASE create_page_directory \/ create_table \/ create_struct
  BY <1>1 DEF create_page_directory, create_table, create_struct, processor, StartInv, Serves
<1>2. CASE switch_page \/ enable_paging
  BY <1>2 DEF switch_page, enable_paging, forget
<1>3. ASSUME NEW v \in Accessed, tlb_fill(v) \/ tlb_evict(v) \/ access(v) \/ page_fault(v)
      PROVE  tlb'[w] \in {NONE, Walk(cr3, w)'} \cup past'[w]
  <2>1. UNCHANGED <<mem, cr3, past, PG, short>>
    BY <1>3 DEF tlb_fill, tlb_evict, access, page_fault, create, processor
  <2>2. Walk(cr3, w)' = Walk(cr3, w) /\ tlb[w] \in {NONE, Walk(cr3, w)} \cup past[w]
    BY <2>1 DEF Walk, TlbInv, Serves, dir_index, table_index
  <2>3. tlb'[w] \in {tlb[w], NONE, Walk(cr3, w)}
    BY <1>3 DEF tlb_fill, tlb_evict, access, page_fault, processor, TypeOK
  <2> QED
    BY <2>1, <2>2, <2>3
<1>4. ASSUME NEW v \in Remapped, NEW f \in Targets, NEW present \in BOOLEAN,
             set_paging(v, f, present)
      PROVE  tlb'[w] \in {NONE, Walk(cr3, w)'} \cup past'[w]
  <2>1. Serves
    BY <1>4 DEF set_paging, create, processor, Serves
  <2>2. /\ tlb' = tlb
        /\ past' = [past EXCEPT ![v] = @ \cup {Walk(cr3, v)}]
        /\ w # v => Walk(cr3, w)' = Walk(cr3, w)
    BY <1>4, <2>1, SetServed
  <2>3. tlb[w] \in {NONE, Walk(cr3, w)} \cup past[w]
    BY <2>1 DEF TlbInv
  <2>4. past'[w] = IF w = v THEN past[w] \cup {Walk(cr3, w)} ELSE past[w]
    BY <2>2 DEF TypeOK
  <2> QED
    BY <2>2, <2>3, <2>4
<1>5. CASE UNCHANGED vars \/ Stopped
  BY <1>5 DEF vars, create, processor, Stopped, TlbInv, Serves, Walk, dir_index, table_index
<1> QED
  BY <1>1, <1>2, <1>3, <1>4, <1>5 DEF Next

LEMMA StepIInv == IInv /\ [Next]_vars => IInv'
<1> SUFFICES ASSUME IInv, [Next]_vars PROVE IInv'
  OBVIOUS
<1>1. TypeOK'
  BY TypeStep DEF IInv
<1>2. TlbInv'
  BY TlbStep
<1>3. StartInv' /\ FramesInv' /\ AskedInv'
  BY <1>1, CreatePageDirectory, CreateTable, CreateStruct, SetPaging, TablesLeftAlone DEF Next
<1> QED
  BY <1>1, <1>2, <1>3 DEF IInv

-----------------------------------------------------------------------------
(* The theorems.                                                           *)

\* IInv is an invariant.
THEOREM Invariance == Spec => []IInv
BY InitIInv, StepIInv, PTL DEF Spec

\* TypeOK: the variables have their types.
THEOREM TypeCorrect == Spec => []TypeOK
<1>1. IInv => TypeOK
  BY DEF IInv
<1> QED
  BY <1>1, Invariance, PTL

\* TablesAreAsAsked: create_page_directory and set_paging leave tables that say
\* of each page what was asked, as far as there was memory for its table.
THEOREM AsAsked == Spec => []TablesAreAsAsked
<1>1. ASSUME IInv PROVE TablesAreAsAsked
  <2> SUFFICES ASSUME pc = "ready", directory # NULL, NEW v \in Pages,
                      table_of(directory, v) # NULL
               PROVE  Walk(directory, v) = asked[v]
    BY DEF TablesAreAsAsked
  <2>1. dir_index(v) \in Entered
    BY <1>1, PageParts DEF IInv, StartInv, Entered, Indices
  <2> QED
    BY <1>1, <2>1 DEF IInv, AskedInv
<1> QED
  BY <1>1, Invariance, PTL

-----------------------------------------------------------------------------
(* The refinement.                                                         *)

LEMMA SpaceInit == Init => Space!Init
BY DEF Init, Serves, Space!Init, Space!NoAccess

LEMMA SpaceStep == IInv /\ IInv' /\ [Next]_vars => [Space!Next]_(Space!vars)
<1> SUFFICES ASSUME IInv, IInv', [Next]_vars PROVE [Space!Next]_(Space!vars)
  OBVIOUS
<1> DEFINE Map == IF Serves THEN [v \in Pages |-> Walk(cr3, v)] ELSE [v \in Pages |-> NONE]
           Past == IF Serves THEN past ELSE [v \in Pages |-> {}]
           Last == IF Serves THEN last ELSE <<NONE, NONE>>
<1>1. ASSUME UNCHANGED <<Map, Past, Last>>
      PROVE  [Space!Next]_(Space!vars)
  BY <1>1 DEF Space!vars
<1>2. CASE create_page_directory \/ create_table \/ create_struct
  <2>1. PG' = PG /\ pc \notin {"ready", "fault"}
    BY <1>2 DEF create_page_directory, create_table, create_struct, processor
  <2>2. ~PG
    BY <2>1 DEF IInv, StartInv
  <2>3. ~Serves /\ ~Serves'
    BY <2>1, <2>2 DEF Serves
  <2> QED
    BY <1>1, <2>3
<1>3. CASE switch_page \/ enable_paging
  <2>1. /\ UNCHANGED <<short, last>> /\ (PG => PG')
        /\ past' = [v \in Pages |-> {}] /\ (~PG => last = <<NONE, NONE>>)
    BY <1>3 DEF switch_page, enable_paging, forget, create, IInv, StartInv
  <2>2. CASE Serves'
    <3>1. \A v \in Pages : Walk(cr3, v)' \in Frames \cup {NONE}
      <4>1. cr3' \in Frames /\ TypeOK'
        BY ResultIsFrame DEF IInv, TypeOK
      <4>2. ASSUME NEW v \in Pages
            PROVE  Walk(cr3, v)' \in Frames \cup {NONE}
        <5>1. dir_index(v) \in Indices /\ table_index(v) \in Indices
          BY PageParts
        <5>2. mem'[cr3'][dir_index(v)].frame \in Frames
          BY <4>1, <5>1 DEF TypeOK
        <5>3. mem'[mem'[cr3'][dir_index(v)].frame][table_index(v)].frame \in Frames
          BY <4>1, <5>1, <5>2 DEF TypeOK
        <5> QED
          BY <5>3 DEF Walk, dir_index, table_index
      <4> QED
        BY <4>2
    <3>2. Map' \in [Pages -> Frames \cup {NONE}]
      BY <2>2, <3>1
    <3>3. Past' = [v \in Pages |-> {}]
      BY <2>1
    <3>4. Last' = Last
      BY <2>1, <2>2 DEF Serves
    <3>5. Space!Load
      BY <3>2, <3>3, <3>4 DEF Space!Load
    <3> QED
      BY <3>5 DEF Space!Next
  <2>3. CASE ~Serves'
    <3>1. ~Serves
      BY <2>1, <2>3 DEF Serves
    <3> QED
      BY <1>1, <2>3, <3>1
  <2> QED
    BY <2>2, <2>3
<1>4. ASSUME NEW v \in Accessed, tlb_fill(v) \/ tlb_evict(v) \/ page_fault(v)
      PROVE  [Space!Next]_(Space!vars)
  <2>1. UNCHANGED <<mem, cr3, PG, short, past, last>>
    BY <1>4 DEF tlb_fill, tlb_evict, page_fault, create, processor
  <2>2. Serves' = Serves /\ \A w \in Pages : Walk(cr3, w)' = Walk(cr3, w)
    BY <2>1 DEF Serves, Walk, dir_index, table_index
  <2>3. UNCHANGED <<Map, Past, Last>>
    BY <2>1, <2>2
  <2> QED
    BY <1>1, <2>3
<1>5. ASSUME NEW v \in Accessed, access(v)
      PROVE  [Space!Next]_(Space!vars)
  <2>1. UNCHANGED <<mem, cr3, PG, short, past>> /\ last' = <<v, tlb[v]>>
    BY <1>5 DEF access, create
  <2>2. Serves' = Serves /\ \A w \in Pages : Walk(cr3, w)' = Walk(cr3, w)
    BY <2>1 DEF Serves, Walk, dir_index, table_index
  <2>3. UNCHANGED <<Map, Past>>
    BY <2>1, <2>2
  <2>4. CASE Serves
    <3>1. v \in Pages /\ tlb[v] # NONE
      BY <1>5, CallersAssumption DEF access
    <3>2. tlb[v] \in Frames \cap ({Map[v]} \cup Past[v])
      BY <2>4, <3>1 DEF IInv, TlbInv, TypeOK
    <3>3. Last' = <<v, tlb[v]>>
      BY <2>1, <2>2, <2>4
    <3>4. Space!Access(v)
      BY <2>3, <3>2, <3>3 DEF Space!Access
    <3> QED
      BY <3>1, <3>4 DEF Space!Next
  <2>5. CASE ~Serves
    BY <1>1, <2>2, <2>5
  <2> QED
    BY <2>4, <2>5
<1>6. ASSUME NEW v \in Remapped, NEW f \in Targets, NEW present \in BOOLEAN,
             set_paging(v, f, present)
      PROVE  [Space!Next]_(Space!vars)
  <2>1. CASE Serves
    <3>1. /\ Serves' /\ v \in Pages /\ f \in Frames /\ last' = last
          /\ past' = [past EXCEPT ![v] = @ \cup {Walk(cr3, v)}]
          /\ \A w \in Pages :
               Walk(cr3, w)' = IF w = v THEN IF present THEN f ELSE NONE ELSE Walk(cr3, w)
      BY <1>6, <2>1, SetServed
    <3> DEFINE g == IF present THEN f ELSE NONE
    <3>2. Map' = [Map EXCEPT ![v] = g] /\ g \in Frames \cup {NONE}
      BY <2>1, <3>1
    <3>3. Past' = [Past EXCEPT ![v] = @ \cup {Map[v]}]
      BY <2>1, <3>1
    <3>4. Last' = Last
      BY <2>1, <3>1
    <3>5. Space!Remap(v)
      BY <3>2, <3>3, <3>4 DEF Space!Remap
    <3> QED
      BY <3>1, <3>5 DEF Space!Next
  <2>2. CASE ~Serves
    <3>1. ~Serves'
      BY <1>6, <2>2 DEF set_paging, create, processor, Serves
    <3> QED
      BY <1>1, <2>2, <3>1
  <2> QED
    BY <2>1, <2>2
<1>7. CASE UNCHANGED vars \/ Stopped
  <2>1. UNCHANGED <<mem, cr3, PG, short, past, last>>
    BY <1>7 DEF vars, create, processor, Stopped
  <2>2. Serves' = Serves /\ \A w \in Pages : Walk(cr3, w)' = Walk(cr3, w)
    BY <2>1 DEF Serves, Walk, dir_index, table_index
  <2>3. UNCHANGED <<Map, Past, Last>>
    BY <2>1, <2>2
  <2> QED
    BY <1>1, <2>3
<1> QED
  BY <1>2, <1>3, <1>4, <1>5, <1>6, <1>7 DEF Next

\* ImplementsAddressSpace: paging implements the address space, with set_paging
\* as Remap, and switch_page and enable_paging as Load.
THEOREM Refinement == Spec => ImplementsAddressSpace
BY SpaceInit, SpaceStep, Invariance, PTL DEF Spec, ImplementsAddressSpace, Space!Spec

-----------------------------------------------------------------------------
(* Segments.  A descriptor's number is the sum of its bytes, in whatever   *)
(* base; the limit loses its low digits only where the processor puts them *)
(* back.                                                                   *)

\* Division with remainder has one result.
LEMMA Remainder ==
  ASSUME NEW a \in Nat, NEW m \in Nat \ {0}
  PROVE  /\ a \div m \in Nat /\ a % m \in 0 .. m - 1
         /\ a = (a \div m) * m + (a % m)
BY SMT

LEMMA OneResult ==
  ASSUME NEW m \in Nat \ {0}, NEW q \in Nat, NEW r \in 0 .. m - 1
  PROVE  (q * m + r) \div m = q /\ (q * m + r) % m = r
<1> DEFINE a == q * m + r
           p == a \div m
           s == a % m
<1>1. a \in Nat
  BY SMT
<1>2. p \in Nat /\ s \in 0 .. m - 1 /\ a = p * m + s
  <2> HIDE DEF a
  <2> QED
    BY <1>1, Remainder
<1> HIDE DEF p, s
<1>3. q * m + r = p * m + s
  BY <1>2
<1>4. (q - p) * m = s - r
  BY <1>2, <1>3, SMT
<1>5. q - p = 0
  <2>1. CASE q - p >= 1
    <3>1. (q - p) * m >= m
      BY <2>1, <1>2, SMT
    <3> QED
      BY <3>1, <1>2, <1>4, SMT
  <2>2. CASE q - p <= -1
    <3>1. (p - q) * m >= m
      BY <2>2, <1>2, SMT
    <3>2. (p - q) * m = r - s
      BY <1>2, <1>3, SMT
    <3> QED
      BY <3>1, <3>2, <1>2, SMT
  <2> QED
    BY <2>1, <2>2, <1>2, SMT
<1>6. q = p
  BY <1>2, <1>5, SMT
<1>7. r = s
  BY <1>2, <1>3, <1>6, SMT
<1> QED
  BY <1>6, <1>7 DEF p, s

\* Division by a product is division by its factors.
LEMMA TwoDivisions ==
  ASSUME NEW n \in Nat, NEW u \in Nat \ {0}, NEW b \in Nat \ {0}
  PROVE  n \div (u * b) = (n \div u) \div b
<1> DEFINE q == n \div u
           r == n % u
           p == q \div b
           s == q % b
           t == s * u + r
<1>1. q \in Nat /\ r \in 0 .. u - 1 /\ n = q * u + r
  BY Remainder
<1>2. p \in Nat /\ s \in 0 .. b - 1 /\ q = p * b + s
  BY <1>1, Remainder
<1> HIDE DEF q, r, p, s
<1>3. u * b \in Nat \ {0}
  BY SMT
<1>4. n = p * (u * b) + t
  <2>1. q * u = (p * b + s) * u
    BY <1>2
  <2>2. (p * b + s) * u = p * (u * b) + s * u
    BY <1>1, <1>2, SMT
  <2> QED
    BY <1>1, <1>2, <2>1, <2>2, SMT
<1>5. t \in 0 .. u * b - 1
  <2>1. (b - 1 - s) * u >= 0 /\ s * u >= 0
    BY <1>2, SMT
  <2>2. (b - 1 - s) * u = u * b - u - s * u
    BY <1>2, SMT
  <2> QED
    BY <1>1, <1>2, <1>3, <2>1, <2>2, SMT
<1> HIDE DEF t
<1> QED
  BY <1>2, <1>3, <1>4, <1>5, OneResult DEF p, q

\* A number below a product, divided by a factor, is below the other.
LEMMA Below ==
  ASSUME NEW u \in Nat \ {0}, NEW b \in Nat \ {0}, NEW n \in 0 .. u * b - 1
  PROVE  n \div u \in 0 .. b - 1
<1> DEFINE q == n \div u
           r == n % u
<1>1. u * b \in Nat \ {0} /\ n \in Nat
  BY SMT
<1>2. q \in Nat /\ r \in 0 .. u - 1 /\ n = q * u + r
  BY <1>1, Remainder
<1> HIDE DEF q, r
<1>3. q < b
  <2> SUFFICES ASSUME q >= b PROVE FALSE
    BY <1>2, SMT
  <2>1. (q - b) * u >= 0
    BY <1>2, SMT
  <2>2. (q - b) * u = q * u - u * b
    BY <1>2, SMT
  <2> QED
    BY <1>1, <1>2, <2>1, <2>2, SMT
<1> QED
  BY <1>2, <1>3 DEF q

\* A number is the sum of its low bytes and of what is above them.
LEMMA LowBytes ==
  ASSUME NEW B \in Nat \ {0}, NEW n \in Nat
  PROVE  /\ n = (n % B) + ((n \div B) % B) * B + (n \div (B * B)) * (B * B)
         /\ {n \div B, n \div (B * B), (n \div B) % B, n % B} \subseteq Nat
<1>1. n \div B \in Nat /\ n % B \in Nat /\ n = (n \div B) * B + (n % B)
  BY Remainder
<1>2. n \div (B * B) = (n \div B) \div B
  BY TwoDivisions
<1>3. /\ (n \div B) \div B \in Nat /\ (n \div B) % B \in Nat
      /\ n \div B = ((n \div B) \div B) * B + ((n \div B) % B)
  BY <1>1, Remainder
<1> DEFINE q == n \div B
           p == n \div (B * B)
           r == n % B
           s == (n \div B) % B
<1>4. /\ q \in Nat /\ p \in Nat /\ r \in Nat /\ s \in Nat
      /\ n = q * B + r /\ q = p * B + s
  BY <1>1, <1>2, <1>3
<1> HIDE DEF q, p, r, s
<1>5. q * B = p * (B * B) + s * B
  <2>1. q * B = (p * B + s) * B
    BY <1>4
  <2>2. (p * B + s) * B = p * (B * B) + s * B
    BY <1>4, SMT
  <2> QED
    BY <2>1, <2>2
<1>6. p * (B * B) \in Nat /\ s * B \in Nat
  BY <1>4, SMT
<1>7. n = r + s * B + p * (B * B)
  BY <1>4, <1>5, <1>6, SMT
<1> QED
  BY <1>4, <1>7 DEF q, p, r, s

\* A number of four bytes is the sum of them.
LEMMA FourBytes ==
  ASSUME NEW B \in Nat \ {0}, NEW n \in 0 .. ((B * B) * B) * B - 1
  PROVE  n = (n % B) + ((n \div B) % B) * B
               + ((n \div (B * B)) % B) * (B * B)
               + ((n \div ((B * B) * B)) % B) * ((B * B) * B)
<1> DEFINE p == n \div (B * B)
           t == n \div ((B * B) * B)
           r == n % B
           s == (n \div B) % B
<1>1. B * B \in Nat \ {0} /\ (B * B) * B \in Nat \ {0} /\ n \in Nat
  BY SMT
<1>2. n = r + s * B + p * (B * B) /\ {p, r, s} \subseteq Nat
  <2>1. n \in Nat
    BY <1>1
  <2>2. n = r + s * B + p * (B * B) /\ {n \div B, p, s, r} \subseteq Nat
    BY <2>1, LowBytes, Zenon
  <2> HIDE DEF p, r, s
  <2> QED
    BY <2>2
<1>3. t = p \div B
  BY <1>1, TwoDivisions
<1>4. t \in 0 .. B - 1
  BY <1>1, Below
<1>5. p % B \in Nat /\ p = t * B + (p % B)
  <2> HIDE DEF p, t
  <2> QED
    BY <1>2, <1>3, Remainder, p \in Nat
<1>6. t % B = t
  <2> HIDE DEF t
  <2>1. (0 * B + t) % B = t
    BY <1>4, OneResult
  <2>2. 0 * B + t = t
    BY <1>4, SMT
  <2> QED
    BY <2>1, <2>2
<1> DEFINE u == p % B
<1>7. p = t * B + u /\ u \in Nat
  BY <1>5
<1> HIDE DEF p, t, r, s, u
<1>8. p * (B * B) = t * ((B * B) * B) + u * (B * B)
  <2>1. p * (B * B) = (t * B + u) * (B * B)
    BY <1>7
  <2>2. (t * B + u) * (B * B) = t * ((B * B) * B) + u * (B * B)
    BY <1>4, <1>7, SMT
  <2> QED
    BY <2>1, <2>2
<1>9. {s * B, u * (B * B), t * ((B * B) * B)} \subseteq Nat
  BY <1>1, <1>2, <1>4, <1>7, SMT
<1>10. n = r + s * B + u * (B * B) + t * ((B * B) * B)
  BY <1>2, <1>8, <1>9, SMT
<1> QED
  BY <1>6, <1>10 DEF p, t, r, s, u

LEMMA Units ==
  ASSUME N \in Nat \ {0, 1}
  PROVE  /\ {BYTE, BYTE2, BYTE3, PAGE} \subseteq Nat \ {0}
         /\ N <= BYTE
         /\ MORE < BYTE2 * N
         /\ BITS = PAGE * (BYTE2 * N)
<1> DEFINE B == N * N
<1>1. B \in Nat \ {0} /\ N <= B
  <2>1. N * (N - 1) >= 0 /\ N * (N - 1) = N * N - N
    BY SMT
  <2> QED
    BY <2>1, SMT
<1>2. (B * B) * B * B = (B * N) * ((B * B) * N)
  BY SMT
<1> HIDE DEF B
<1>3. B * B \in Nat \ {0} /\ B * N \in Nat \ {0}
  BY <1>1, SMT
<1>4. (B * B) * B \in Nat \ {0}
  BY <1>1, <1>3, SMT
<1>5. B * B < (B * B) * N
  <2>1. (B * B) * (N - 2) >= 0 /\ (B * B) * (N - 2) = (B * B) * N - (B * B) * 2
    BY <1>3, SMT
  <2> QED
    BY <1>3, <2>1, SMT
<1>6. /\ BYTE = B /\ BYTE2 = B * B /\ BYTE3 = (B * B) * B
      /\ PAGE = B * N /\ MORE = B * B /\ BITS = (B * B) * B * B
  BY DEF B, BYTE, BYTE2, BYTE3, PAGE, MORE, BITS
<1> QED
  BY <1>1, <1>2, <1>3, <1>4, <1>5, <1>6

\* The processor finds the limit that was asked for.
LEMMA LimitDecoded ==
  ASSUME N \in Nat \ {0, 1}, NEW src, src.limit \in 0 .. BITS - 1,
         ~refused(src)
  PROVE  Limit(encode_gdt_entry(src)) = src.limit
<1> DEFINE B == BYTE
           BB == BYTE2
           P == PAGE
           L == encoded_limit(src)
           d == L \div BB
           e == encode_gdt_entry(src)
<1>1. /\ B \in Nat \ {0} /\ BB \in Nat \ {0} /\ P \in Nat \ {0} /\ N <= B /\ BB = B * B
      /\ MORE < BB * N /\ BITS = P * (BB * N) /\ BB * N \in Nat \ {0}
  <2>1. BB * N \in Nat \ {0}
    BY Units, SMT
  <2> QED
    BY <2>1, Units DEF BYTE2
<1>2. L \in 0 .. BB * N - 1
  <2>1. CASE in_pages(src)
    <3>1. src.limit \div P \in 0 .. BB * N - 1
      <4> HIDE DEF P, BB
      <4> QED
        BY <1>1, Below
    <3> QED
      BY <2>1, <3>1 DEF encoded_limit
  <2>2. CASE ~in_pages(src)
    <3>1. L = src.limit /\ ~(src.limit > MORE)
      BY <2>2 DEF encoded_limit, in_pages
    <3>2. MORE \in Nat /\ src.limit \in Nat
      BY <1>1 DEF MORE
    <3> QED
      BY <3>1, <3>2, <1>1
  <2> QED
    BY <2>1, <2>2
<1>3. L = (L % B) + ((L \div B) % B) * B + d * BB
  <2> HIDE DEF L, B
  <2>1. L \in Nat
    BY <1>1, <1>2
  <2> QED
    BY <1>1, <2>1, LowBytes
<1>4. d \in 0 .. N - 1
  <2> HIDE DEF L, BB
  <2> QED
    BY <1>1, <1>2, Below
<1>5. (d % B) % N = d
  <2> HIDE DEF d, B
  <2>1. d % B = d
    <3>1. d \in 0 .. B - 1
      BY <1>1, <1>4
    <3> QED
      BY <1>1, <3>1, SMT
  <2> QED
    BY <1>4, <2>1, SMT
<1>6. L \div 1 = L
  <2> HIDE DEF L
  <2> QED
    BY <1>1, <1>2, SMT
<1>7. /\ e.b0 = L % B /\ e.b1 = (L \div B) % B
      /\ e.b6.digit = d /\ e.b6.pages = in_pages(src)
  BY <1>5, <1>6 DEF encode_gdt_entry, Byte
<1>8. Limit(e) = IF in_pages(src) THEN L * P + P - 1 ELSE L
  <2> HIDE DEF e, L
  <2>1. e.b0 + e.b1 * B + e.b6.digit * BB = L
    BY <1>3, <1>7
  <2> QED
    BY <2>1, <1>7 DEF Limit
<1>9. CASE in_pages(src)
  <2>1. L = src.limit \div P /\ src.limit % P = P - 1
    BY <1>9 DEF encoded_limit, in_pages, refused
  <2>2. src.limit \in Nat
    BY <1>1
  <2>3. src.limit = (src.limit \div P) * P + (src.limit % P)
    <3> HIDE DEF P
    <3> QED
      BY <1>1, <2>2, Remainder
  <2>4. L * P \in Nat
    <3> HIDE DEF L, P
    <3> QED
      BY <1>1, <1>2, SMT
  <2>5. src.limit = L * P + (P - 1)
    BY <2>1, <2>3
  <2>6. Limit(e) = L * P + P - 1
    BY <1>8, <1>9
  <2>7. Limit(e) = src.limit
    <3> HIDE DEF L, P, e
    <3> QED
      BY <1>1, <2>4, <2>5, <2>6
  <2> QED
    BY <2>7
<1>10. CASE ~in_pages(src)
  BY <1>8, <1>10 DEF encoded_limit
<1> QED
  BY <1>9, <1>10

\* The processor finds the base that was asked for.
LEMMA BaseDecoded ==
  ASSUME N \in Nat \ {0, 1}, NEW src, src.base \in 0 .. BITS - 1
  PROVE  Base(encode_gdt_entry(src)) = src.base
<1> DEFINE B == BYTE
           n == src.base
           e == encode_gdt_entry(src)
<1>1. /\ B \in Nat \ {0} /\ BYTE2 = B * B /\ BYTE3 = (B * B) * B
      /\ BITS = ((B * B) * B) * B
  BY Units DEF BYTE2, BYTE3, BITS
<1>2. n \in 0 .. ((B * B) * B) * B - 1
  BY <1>1
<1>3. n \div 1 = n
  <2>1. n \in Int
    BY <1>2
  <2> QED
    BY <2>1, SMT
<1>4. /\ e.b2 = n % B /\ e.b3 = (n \div B) % B
      /\ e.b4 = (n \div (B * B)) % B /\ e.b7 = (n \div ((B * B) * B)) % B
  BY <1>1, <1>3 DEF encode_gdt_entry, Byte
<1>5. Base(e) = e.b2 + e.b3 * B + e.b4 * (B * B) + e.b7 * ((B * B) * B)
  BY <1>1 DEF Base
<1>6. n = (n % B) + ((n \div B) % B) * B
            + ((n \div (B * B)) % B) * (B * B)
            + ((n \div ((B * B) * B)) % B) * ((B * B) * B)
  <2> HIDE DEF n, B
  <2> QED
    BY <1>1, <1>2, FourBytes
<1>7. Base(e) = src.base
  <2> HIDE DEF B, e
  <2> QED
    BY <1>4, <1>5, <1>6
<1> QED
  BY <1>7

\* A limit of n whole pages is not refused.
LEMMA WholePages ==
  ASSUME N \in Nat \ {0, 1}, NEW src, NEW n \in Nat \ {0}, src.limit = n * PAGE - 1
  PROVE  ~refused(src)
<1> DEFINE P == PAGE
<1>1. P \in Nat \ {0}
  BY Units
<1>2. ((n - 1) * P + (P - 1)) % P = P - 1
  <2> HIDE DEF P
  <2>1. n - 1 \in Nat /\ P - 1 \in 0 .. P - 1
    BY <1>1
  <2> QED
    BY <1>1, <2>1, OneResult
<1>3. (n - 1) * P + (P - 1) = n * P - 1
  <2> HIDE DEF P
  <2> QED
    BY <1>1, SMT
<1> QED
  BY <1>2, <1>3 DEF refused

\* A descriptor the loop has encoded, and the one it stopped at.
SegmentsInv ==
  /\ gdt \in [1 .. TOTAL -> Structures]
  /\ \E S : entry \in Seq(S)
  /\ Len(entry) <= TOTAL
  /\ progress = "panic" => Len(entry) < TOTAL
  /\ DecodesAsAsked

LEMMA SegmentsInit == GdtInit => SegmentsInv
<1> SUFFICES ASSUME GdtInit PROVE SegmentsInv
  OBVIOUS
<1>1. entry = <<>> /\ progress = "encoding" /\ TOTAL \in Nat
  BY TotalAssumption DEF GdtInit
<1>2. entry \in Seq({}) /\ Len(entry) = 0
  BY <1>1
<1> QED
  BY <1>1, <1>2 DEF SegmentsInv, GdtInit, DecodesAsAsked

LEMMA SegmentsStep == SegmentsInv /\ [GdtNext]_gdt_vars => SegmentsInv'
<1> SUFFICES ASSUME SegmentsInv, [GdtNext]_gdt_vars
             PROVE  SegmentsInv'
  OBVIOUS
<1>1. N \in Nat \ {0, 1} /\ TOTAL \in Nat
  BY BaseAssumption, TotalAssumption
<1>2. PICK S : entry \in Seq(S)
  BY DEF SegmentsInv
<1>3. Len(entry) \in 0 .. TOTAL
  BY <1>1, <1>2 DEF SegmentsInv
<1>4. CASE encode
  <2> DEFINE k == Len(entry) + 1
             src == gdt[k]
  <2>1. k \in 1 .. TOTAL /\ progress = "encoding" /\ gdt' = gdt
    BY <1>1, <1>3, <1>4 DEF encode
  <2>2. /\ src.limit \in 0 .. BITS - 1 /\ src.base \in 0 .. BITS - 1
        /\ src = [limit |-> src.limit, base |-> src.base, type |-> src.type]
    BY <2>1, SegmentsAssumption DEF SegmentsInv, Structures
  <2>3. CASE refused(src)
    <3>1. progress' = "panic" /\ entry' = entry
      BY <1>4, <2>3 DEF encode
    <3>2. \A n \in 1 .. BITS \div PAGE : src.limit # n * PAGE - 1
      <4> HIDE DEF src
      <4>1. \A n \in Nat \ {0} : src.limit # n * PAGE - 1
        BY <1>1, <2>3, WholePages
      <4>2. BITS \div PAGE \in Int
        <5>1. BITS \in Int /\ PAGE \in Nat \ {0}
          BY <1>1, Units DEF BITS
        <5> QED
          BY <5>1, SMT
      <4> QED
        BY <4>1, <4>2
    <3>3. DecodesAsAsked'
      BY <2>1, <3>1, <3>2 DEF SegmentsInv, DecodesAsAsked
    <3> QED
      BY <2>1, <3>1, <3>3, <1>1, <1>3 DEF SegmentsInv
  <2>4. CASE ~refused(src)
    <3> DEFINE e == encode_gdt_entry(src)
    <3>1. progress' = progress /\ entry' = Append(entry, e)
      BY <1>4, <2>4 DEF encode
    <3>2. Decoded(e) = src
      <4>1. Limit(e) = src.limit /\ Base(e) = src.base
        <5> HIDE DEF src
        <5> QED
          BY <1>1, <2>2, <2>4, LimitDecoded, BaseDecoded
      <4>2. e.b5 = src.type
        BY DEF encode_gdt_entry
      <4> HIDE DEF e, src
      <4> QED
        BY <2>2, <4>1, <4>2 DEF Decoded
    <3> HIDE DEF e
    <3>3. entry \in Seq(S \cup {e})
      BY <1>2
    <3>4. /\ entry' \in Seq(S \cup {e}) /\ Len(entry') = k
          /\ entry'[k] = e /\ \A j \in 1 .. k - 1 : entry'[j] = entry[j]
      BY <3>1, <3>3
    <3>5. \A j \in 1 .. Len(entry') : Decoded(entry'[j]) = gdt'[j]
      BY <1>3, <2>1, <3>2, <3>4 DEF SegmentsInv, DecodesAsAsked
    <3> QED
      BY <1>1, <2>1, <3>1, <3>4, <3>5 DEF SegmentsInv, DecodesAsAsked
  <2> QED
    BY <2>3, <2>4
<1>5. CASE load_gdt
  BY <1>5 DEF load_gdt, SegmentsInv, DecodesAsAsked
<1>6. CASE GdtStopped \/ UNCHANGED gdt_vars
  BY <1>6 DEF GdtStopped, gdt_vars, SegmentsInv, DecodesAsAsked
<1> QED
  BY <1>4, <1>5, <1>6 DEF GdtNext

\* The processor finds in every descriptor the limit, the base and the type
\* main has asked for, in digits of any base and for any segments; only a
\* limit above 65536 that is not whole pages stops the kernel.
THEOREM Decoding == GdtSpec => []DecodesAsAsked
<1>1. SegmentsInv => DecodesAsAsked
  BY DEF SegmentsInv
<1>2. GdtInit => SegmentsInv
  BY SegmentsInit
<1>3. SegmentsInv /\ [GdtNext]_gdt_vars => SegmentsInv'
  BY SegmentsStep
<1> QED
  BY <1>1, <1>2, <1>3, PTL DEF GdtSpec
=============================================================================
