------------------------------- MODULE VfsProofs -------------------------------
(***************************************************************************)
(* Proofs about the file layer, for tables of every size, every amount of  *)
(* memory, every tree of files and every set of paths: descriptors and the *)
(* memory behind them are accounted for, whatever calls are made in        *)
(* whatever order, and wherever memory runs out.                           *)
(***************************************************************************)
EXTENDS Vfs, FiniteSetTheorems, SequenceTheorems, TLAPS

-----------------------------------------------------------------------------
(* The inductive invariant.                                                *)

TableType ==
  /\ file_descriptors \in [Slots -> Descriptors \cup {NULL}]
  /\ filesystem \in BOOLEAN
  /\ oom \in BOOLEAN
  /\ handles \subseteq Slots

LocalType ==
  /\ pc \in Functions \cup {"idle", "halted", "waiting", "wild"}
  /\ path \in Paths \cup {NoPath}
  /\ mode \in Modes
  /\ parts \o rest = path.parts
  /\ k \in 1 .. Len(parts) + 1
  /\ item \in Items \cup {NULL}
  /\ data \in FatDescriptors \cup {NULL}
  /\ ret \in Slots \cup {-1, 0, 1}

\* The path is parsed once, from its first part.
ParseInv ==
  /\ parts \in Seq(Names) /\ rest \in Seq(Names)
  /\ \A i \in 1 .. Len(parts) : parts[i] # EMPTY
  /\ pc \in Functions => path \in Paths
  /\ pc \in {"idle", "create_root"} => parts = <<>>

\* The walk is at a part of the path, and nothing is opened before its end.
WalkInv ==
  /\ pc \in {"idle", "create_root", "parse_path", "fopen"} => k = 1 /\ item = NULL
  /\ pc \in Functions \cup {"idle"} /\ pc # "get_new_file_descriptor" => data = NULL
  /\ pc \in {"find_item", "fat16_open_file"} => k \in 1 .. Len(parts)
  /\ pc = "fat16_open_file" =>
       /\ k = Len(parts) /\ item # NULL
       /\ Prefix \in IF item.type = "file" THEN Files ELSE Dirs

\* What was opened is the file at the end of what was parsed.
OpenedInv ==
  pc = "get_new_file_descriptor" /\ data # NULL => data.file = parts /\ parts \in Files

\* While memory lasts everything up to an empty part is parsed, only damaged
\* directories are incomplete, and a file that is there is opened.
WholeInv ==
  ~oom =>
    /\ item # NULL /\ ~item.complete => item.type = "directory" /\ ThroughDamage(path.parts)
    /\ pc \in {"fopen", "find_item", "fat16_open_file", "get_new_file_descriptor"} => AtEmptyPart
    /\ pc = "get_new_file_descriptor" =>
         data = IF parts \in Files THEN FatDescriptor(parts, TRUE) ELSE NULL

LocalInv == LocalType /\ ParseInv /\ WalkInv /\ OpenedInv /\ WholeInv

MemoryInv == free \in Nat /\ Recoverable <= HeapBlocks

IInv == TableType /\ LocalInv /\ MemoryInv /\ HandlesOwnSlots /\ OpenReflectsDisk

-----------------------------------------------------------------------------
(* What is parsed and looked up.                                           *)

\* Nothing lies below a file.
LEMMA NotBelowFile ==
  ASSUME NEW s \in Seq(Names), NEW j \in 1 .. Len(s) - 1, SubSeq(s, 1, j) \notin Dirs
  PROVE  s \notin Files \cup Dirs
BY TreeAssumption

\* create_path_part and parse_path move one part.
LEMMA PartMoved ==
  ASSUME NEW s \in Seq(Names), NEW t \in Seq(Names), t # <<>>, Head(t) # EMPTY,
         \A i \in 1 .. Len(s) : s[i] # EMPTY
  PROVE  /\ Append(s, Head(t)) \in Seq(Names) /\ Tail(t) \in Seq(Names)
         /\ Len(Append(s, Head(t))) = Len(s) + 1
         /\ Append(s, Head(t)) \o Tail(t) = s \o t
         /\ \A i \in 1 .. Len(Append(s, Head(t))) : Append(s, Head(t))[i] # EMPTY
<1>1. Head(t) \in Names /\ Tail(t) \in Seq(Names)
  BY HeadTailProperties
<1>2. Append(s, Head(t)) \in Seq(Names) /\ Len(Append(s, Head(t))) = Len(s) + 1
  BY <1>1, AppendProperties
<1>3. t = <<Head(t)>> \o Tail(t)
  BY <1>1, SMT
<1>4. Append(s, Head(t)) = s \o <<Head(t)>> /\ <<Head(t)>> \in Seq(Names)
  BY <1>1, AppendIsConcat
<1>5. (s \o <<Head(t)>>) \o Tail(t) = s \o (<<Head(t)>> \o Tail(t))
  BY <1>1, <1>4, ConcatAssociative
<1>6. \A i \in 1 .. Len(s) + 1 :
        Append(s, Head(t))[i] = IF i <= Len(s) THEN s[i] ELSE Head(t)
  BY <1>1, AppendProperties
<1>7. \A i \in 1 .. Len(s) + 1 : Append(s, Head(t))[i] # EMPTY
  BY <1>6, LenProperties
<1> QED
  BY <1>1, <1>2, <1>3, <1>4, <1>5, <1>7

LEMMA OnePiece ==
  ASSUME NEW s \in Seq(Names), NEW j \in 0 .. Len(s)
  PROVE  /\ SubSeq(s, 1, j) \in Seq(Names) /\ Len(SubSeq(s, 1, j)) = j
         /\ \A i \in 1 .. j : SubSeq(s, 1, j)[i] = s[i]
<1>1. Len(s) \in Nat /\ \A i \in 1 .. j : s[i] \in Names
  BY LenProperties, ElementOfSeq
<1>2. /\ SubSeq(s, 1, j) \in Seq(Names)
      /\ Len(SubSeq(s, 1, j)) = IF 1 <= j THEN j - 1 + 1 ELSE 0
      /\ \A i \in 1 .. j - 1 + 1 : SubSeq(s, 1, j)[i] = s[1 + i - 1]
  BY <1>1, SubSeqProperties
<1> QED
  BY <1>1, <1>2

\* What has been parsed is a piece of the path, and the whole of it up to an
\* empty part once that has been met.
LEMMA ParsedOnPath ==
  ASSUME LocalType, ParseInv
  PROVE  /\ Len(parts) \in Cuts(path.parts) /\ Cut(path.parts, Len(parts)) = parts
         /\ AtEmptyPart => Len(parts) \in Ends(path.parts)
         /\ \A j \in 1 .. Len(parts) : SubSeq(parts, 1, j) \in Damaged => ThroughDamage(path.parts)
<1> DEFINE s == path.parts
<1>1. /\ parts \in Seq(Names) /\ rest \in Seq(Names) /\ s = parts \o rest
      /\ Len(parts) \in Nat /\ Len(rest) \in Nat
  BY LenProperties DEF LocalType, ParseInv
<1>2. /\ s \in Seq(Names) /\ Len(s) = Len(parts) + Len(rest)
      /\ \A i \in 1 .. Len(s) :
           s[i] = IF i <= Len(parts) THEN parts[i] ELSE rest[i - Len(parts)]
  BY <1>1, ConcatProperties
<1> HIDE DEF s
<1>3. Len(parts) \in Cuts(s)
  BY <1>1, <1>2 DEF Cuts, ParseInv
<1>4. \A j \in 0 .. Len(parts) : SubSeq(s, 1, j) = SubSeq(parts, 1, j)
  <2> SUFFICES ASSUME NEW j \in 0 .. Len(parts) PROVE SubSeq(s, 1, j) = SubSeq(parts, 1, j)
    OBVIOUS
  <2>1. /\ SubSeq(parts, 1, j) \in Seq(Names) /\ Len(SubSeq(parts, 1, j)) = j
        /\ \A i \in 1 .. j : SubSeq(parts, 1, j)[i] = parts[i]
    BY <1>1, OnePiece
  <2>2. /\ SubSeq(s, 1, j) \in Seq(Names) /\ Len(SubSeq(s, 1, j)) = j
        /\ \A i \in 1 .. j : SubSeq(s, 1, j)[i] = s[i]
    <3>1. j \in 0 .. Len(s)
      BY <1>1, <1>2
    <3> QED
      BY <1>2, <3>1, OnePiece
  <2>3. \A i \in 1 .. j : s[i] = parts[i]
    BY <1>1, <1>2
  <2> QED
    BY <2>1, <2>2, <2>3, SeqEqual
<1>5. Cut(s, Len(parts)) = parts
  <2>1. Len(parts) \in 0 .. Len(parts)
    BY <1>1
  <2>2. Cut(s, Len(parts)) = SubSeq(parts, 1, Len(parts))
    BY <1>4, <2>1 DEF Cut
  <2> QED
    BY <1>1, <2>2, SubSeqFull
<1>6. ASSUME AtEmptyPart PROVE Len(parts) \in Ends(s)
  <2>1. ASSUME Len(parts) < Len(s) PROVE s[Len(parts) + 1] = EMPTY
    <3>1. Len(rest) > 0 /\ s[Len(parts) + 1] = rest[(Len(parts) + 1) - Len(parts)]
      BY <1>1, <1>2, <2>1
    <3>2. rest # <<>> /\ rest[1] = Head(rest)
      BY <1>1, <3>1, EmptySeq, HeadTailProperties
    <3> QED
      BY <1>1, <1>6, <3>1, <3>2 DEF AtEmptyPart
  <2> QED
    BY <1>3, <2>1 DEF Ends
<1>7. ASSUME NEW j \in 1 .. Len(parts), SubSeq(parts, 1, j) \in Damaged
      PROVE  ThroughDamage(s)
  <2>1. j \in 1 .. Len(s) /\ j \in 0 .. Len(parts)
    BY <1>1, <1>2
  <2> QED
    BY <1>4, <1>7, <2>1 DEF ThroughDamage
<1> QED
  BY <1>3, <1>5, <1>6, <1>7 DEF s

LEMMA NullIsNot ==
  /\ \A type \in {"file", "directory"}, complete \in BOOLEAN :
       Item(type, complete) # NULL /\ Item(type, complete) \in Items
  /\ \A f \in Files, entry \in BOOLEAN :
       FatDescriptor(f, entry) # NULL /\ FatDescriptor(f, entry) \in FatDescriptors
  /\ \A d \in FatDescriptors \cup {NULL}, p \in Paths :
       Descriptor(d, p) # NULL /\ Descriptor(d, p) \in Descriptors
BY NullAssumption DEF Items, FatDescriptors, Descriptors

-----------------------------------------------------------------------------
(* The variables of the functions.                                         *)

LEMMA LocalReturn ==
  ASSUME NEW r \in Slots \cup {-1, 0, 1}, Return(r)
  PROVE  LocalInv'
<1>1. /\ pc' = "idle" /\ path' = NoPath /\ mode' = "r" /\ rest' = <<>> /\ parts' = <<>>
      /\ k' = 1 /\ item' = NULL /\ data' = NULL /\ ret' = r
  BY DEF Return
<1>2. <<>> \in Seq(Names) /\ Len(<<>>) = 0 /\ <<>> \o <<>> = <<>>
  BY EmptySeq, ConcatEmptySeq
<1>3. LocalType'
  BY <1>1, <1>2 DEF LocalType, NoPath, Modes
<1>4. ParseInv' /\ WalkInv' /\ OpenedInv' /\ WholeInv'
  BY <1>1, <1>2 DEF ParseInv, WalkInv, OpenedInv, WholeInv, Functions
<1> QED
  BY <1>3, <1>4 DEF LocalInv

\* The kernel stops where it is.
LEMMA LocalStops ==
  ASSUME LocalInv, pc' \in {"halted", "waiting", "wild"}, UNCHANGED <<locals, ret>>, ~oom' => ~oom
  PROVE  LocalInv'
BY DEF LocalInv, LocalType, ParseInv, WalkInv, OpenedInv, WholeInv, locals, Functions

LEMMA LocalParse ==
  ASSUME LocalInv, TableType,
         \/ \E p \in Paths, m \in Modes : fopen(p, m)
         \/ create_root \/ parse_path \/ parse_path_end \/ open_file
  PROVE  LocalInv'
<1> USE DEF LocalInv, Functions
<1>1. ASSUME NEW p \in Paths, NEW m \in Modes, fopen(p, m)
      PROVE  LocalInv'
  <2>1. p.parts \in Seq(Names) /\ <<>> \o p.parts = p.parts
    BY PathsAssumption, ConcatEmptySeq
  <2>2. LocalType'
    BY <1>1, <2>1 DEF fopen, LocalType, ParseInv
  <2>3. ParseInv' /\ WalkInv' /\ OpenedInv' /\ WholeInv'
    BY <1>1, <2>1 DEF fopen, ParseInv, WalkInv, OpenedInv, WholeInv
  <2> QED
    BY <2>2, <2>3
<1>2. CASE create_root
  <2>1. CASE Return(-1)
    BY <2>1, LocalReturn
  <2>2. CASE pc' = "parse_path" /\ UNCHANGED <<locals, ret>> /\ UNCHANGED oom
    BY <1>2, <2>2 DEF create_root, locals, LocalType, ParseInv, WalkInv, OpenedInv, WholeInv
  <2> QED
    BY <1>2, <2>1, <2>2 DEF create_root, kmalloc
<1>3. CASE parse_path
  <2>1. /\ pc = "parse_path" /\ rest # <<>> /\ Head(rest) # EMPTY
        /\ UNCHANGED <<path, mode, k, item, data, ret>>
    BY <1>3 DEF parse_path, AtEmptyPart
  <2>2. CASE UNCHANGED pc /\ parts' = Append(parts, Head(rest)) /\ rest' = Tail(rest) /\ UNCHANGED oom
    <3>1. parts \in Seq(Names) /\ rest \in Seq(Names) /\ Len(parts) \in Nat
      BY LenProperties DEF ParseInv
    <3>2. /\ parts' \in Seq(Names) /\ rest' \in Seq(Names) /\ parts' \o rest' = parts \o rest
          /\ Len(parts') = Len(parts) + 1
          /\ \A i \in 1 .. Len(parts') : parts'[i] # EMPTY
      BY <2>1, <2>2, <3>1, PartMoved DEF ParseInv
    <3>3. k' \in 1 .. Len(parts') + 1
      BY <2>1, <3>1, <3>2 DEF LocalType
    <3> QED
      BY <2>1, <2>2, <3>2, <3>3 DEF LocalType, ParseInv, WalkInv, OpenedInv, WholeInv
  <2>3. CASE pc' = "fopen" /\ UNCHANGED <<parts, rest>> /\ oom'
    BY <2>1, <2>3 DEF LocalType, ParseInv, WalkInv, OpenedInv, WholeInv
  <2> QED
    BY <1>3, <2>2, <2>3 DEF parse_path
<1>4. CASE parse_path_end
  <2>1. CASE pc' = "halted"
    BY <1>4, <2>1, LocalStops DEF parse_path_end, kmalloc_fails, heap
  <2>2. CASE pc' = "fopen" /\ UNCHANGED oom
    <3>1. pc = "parse_path" /\ AtEmptyPart /\ UNCHANGED <<locals, ret>>
      BY <1>4 DEF parse_path_end
    <3> QED
      BY <2>2, <3>1 DEF locals, LocalType, ParseInv, WalkInv, OpenedInv, WholeInv, AtEmptyPart
  <2> QED
    BY <1>4, <2>1, <2>2 DEF parse_path_end, heap
<1>5. CASE open_file
  <2>1. pc = "fopen" /\ pc' = "find_item" /\ parts # <<>> /\ UNCHANGED <<locals, ret, oom>>
    BY <1>5 DEF open_file, Refused, heap
  <2>2. 1 \in 1 .. Len(parts)
    BY <2>1, EmptySeq DEF ParseInv
  <2> QED
    BY <2>1, <2>2 DEF locals, LocalType, ParseInv, WalkInv, OpenedInv, WholeInv, AtEmptyPart
<1> QED
  BY <1>1, <1>2, <1>3, <1>4, <1>5

LEMMA LocalWalk ==
  ASSUME LocalInv, TableType, free \in Nat,
         \/ find_nothing \/ (\E type \in {"file", "directory"} : find_item(type))
         \/ directory_waits \/ use_null_directory \/ open_directory \/ open_fat16_file
  PROVE  LocalInv'
<1> USE DEF LocalInv, Functions
<1>1. parts \in Seq(Names) /\ Len(parts) \in Nat /\ k \in 1 .. Len(parts) + 1
  BY LenProperties DEF ParseInv, LocalType
<1>2. CASE find_nothing
  <2>1. /\ pc = "find_item" /\ pc' = "get_new_file_descriptor" /\ UNCHANGED <<locals, ret>>
        /\ ~oom' => ~oom /\ Prefix \notin Files \cup Dirs
    BY <1>2 DEF find_nothing, TableType
  <2>2. k \in 1 .. Len(parts) /\ data = NULL
    BY <2>1 DEF WalkInv
  <2>3. ~oom' => parts \notin Files
    <3>1. CASE k = Len(parts)
      BY <1>1, <2>1, <3>1, SubSeqFull DEF Prefix
    <3>2. CASE k # Len(parts)
      BY <1>1, <2>1, <2>2, <3>2, NotBelowFile DEF Prefix
    <3> QED
      BY <3>1, <3>2
  <2> QED
    BY <2>1, <2>2, <2>3 DEF locals, LocalType, ParseInv, WalkInv, OpenedInv, WholeInv, AtEmptyPart
<1>3. ASSUME NEW type \in {"file", "directory"}, find_item(type)
      PROVE  LocalInv'
  <2>1. PICK complete \in BOOLEAN :
          /\ IF complete THEN free >= Wanted(type) ELSE free < Wanted(type) \/ Prefix \in Damaged
          /\ item' = Item(type, complete)
    BY <1>3 DEF find_item
  <2>2. /\ pc = "find_item" /\ oom' = (oom \/ free < Wanted(type))
        /\ UNCHANGED <<path, mode, rest, parts, data, ret>>
        /\ Prefix \in IF type = "file" THEN Files ELSE Dirs
    BY <1>3 DEF find_item
  <2>3. k \in 1 .. Len(parts) /\ data = NULL
    BY <2>2 DEF WalkInv
  <2>4. item' # NULL /\ item' \in Items /\ item'.type = type /\ item'.complete = complete
    BY <2>1, NullIsNot DEF Item
  <2>5. ~oom' => ~oom /\ (~item'.complete => item'.type = "directory" /\ ThroughDamage(path'.parts))
    <3> SUFFICES ASSUME ~oom', ~complete
                 PROVE  type = "directory" /\ ThroughDamage(path.parts)
      BY <2>2, <2>4
    <3>1. Prefix \in Damaged
      BY <2>1, <2>2
    <3>2. type = "directory"
      BY <2>2, <3>1, DamagedAssumption, DisjointAssumption
    <3>3. ThroughDamage(path.parts)
      BY <2>3, <3>1, ParsedOnPath DEF Prefix
    <3> QED
      BY <3>2, <3>3
  <2>6. AtEmptyPart' <=> AtEmptyPart
    BY <2>2 DEF AtEmptyPart
  <2>7. CASE k = Len(parts)
    <3>1. pc' = "fat16_open_file" /\ k' = k
      BY <1>3, <2>7 DEF find_item
    <3>2. Prefix' = Prefix
      BY <2>2, <3>1 DEF Prefix
    <3> QED
      BY <2>2, <2>3, <2>4, <2>5, <2>6, <2>7, <3>1, <3>2
         DEF LocalType, ParseInv, WalkInv, OpenedInv, WholeInv
  <2>8. CASE k # Len(parts) /\ type = "file"
    <3>1. pc' = "get_new_file_descriptor" /\ k' = k
      BY <1>3, <2>8 DEF find_item
    <3>2. parts \notin Files
      <4>1. Prefix \notin Dirs
        BY <2>2, <2>8, DisjointAssumption
      <4> QED
        BY <1>1, <2>3, <2>8, <4>1, NotBelowFile DEF Prefix
    <3> QED
      BY <2>2, <2>3, <2>4, <2>5, <2>6, <3>1, <3>2
         DEF LocalType, ParseInv, WalkInv, OpenedInv, WholeInv
  <2>9. CASE k # Len(parts) /\ type = "directory"
    <3>1. pc' = pc /\ k' = k + 1
      BY <1>3, <2>9 DEF find_item
    <3>2. k' \in 1 .. Len(parts)
      BY <1>1, <2>3, <2>9, <3>1
    <3> QED
      BY <1>1, <2>2, <2>3, <2>4, <2>5, <2>6, <3>1, <3>2
         DEF LocalType, ParseInv, WalkInv, OpenedInv, WholeInv
  <2> QED
    BY <2>7, <2>8, <2>9
<1>4. CASE directory_waits \/ use_null_directory
  BY <1>4, LocalStops DEF directory_waits, use_null_directory, heap
<1>5. CASE open_directory \/ open_fat16_file
  <2>1. /\ pc = "fat16_open_file" /\ pc' = "get_new_file_descriptor" /\ (~oom' => ~oom)
        /\ UNCHANGED <<path, mode, rest, parts, k, item, ret>>
    <3>1. oom' = oom \/ oom' = TRUE
      BY <1>5 DEF open_directory, open_fat16_file, kmalloc, kmalloc_fails
    <3>2. /\ pc = "fat16_open_file" /\ pc' = "get_new_file_descriptor"
          /\ UNCHANGED <<path, mode, rest, parts, k, item, ret>>
      BY <1>5 DEF open_directory, open_fat16_file, locals
    <3> QED
      BY <3>1, <3>2
  <2>2. /\ k = Len(parts) /\ item # NULL /\ data = NULL
        /\ Prefix = parts /\ parts \in IF item.type = "file" THEN Files ELSE Dirs
    <3>1. /\ k = Len(parts) /\ item # NULL /\ data = NULL
          /\ Prefix \in IF item.type = "file" THEN Files ELSE Dirs
      BY <2>1 DEF WalkInv
    <3>2. Prefix = parts
      BY <1>1, <3>1, SubSeqFull DEF Prefix
    <3> QED
      BY <3>1, <3>2
  <2>3. item.complete \in BOOLEAN
    BY <2>2 DEF LocalType, Items, Item
  <2>4. /\ data' \in FatDescriptors \cup {NULL}
        /\ data' # NULL => data'.file = parts /\ parts \in Files
        /\ ~oom' => data' = IF parts \in Files THEN FatDescriptor(parts, TRUE) ELSE NULL
    <3>1. CASE open_directory
      <4>1. item.type = "directory" /\ data' = data
        BY <3>1 DEF open_directory, locals
      <4> QED
        BY <2>2, <4>1, DisjointAssumption
    <3>2. CASE open_fat16_file
      <4>1. /\ item.type = "file"
            /\ \/ data' = FatDescriptor(parts, item.complete) /\ oom' = oom
               \/ data' = NULL /\ oom'
        BY <2>2, <3>2 DEF open_fat16_file, kmalloc, kmalloc_fails
      <4>2. parts \in Files /\ FatDescriptor(parts, item.complete) \in FatDescriptors
        BY <2>2, <2>3, <4>1, NullIsNot
      <4>3. ~oom => item.complete = TRUE
        BY <2>2, <2>3, <4>1 DEF WholeInv
      <4>4. CASE data' = FatDescriptor(parts, item.complete) /\ oom' = oom
        BY <4>2, <4>3, <4>4 DEF FatDescriptor
      <4>5. CASE data' = NULL /\ oom'
        BY <4>5
      <4> QED
        BY <4>1, <4>4, <4>5
    <3> QED
      BY <1>5, <3>1, <3>2
  <2> QED
    BY <2>1, <2>4 DEF LocalType, ParseInv, WalkInv, OpenedInv, WholeInv, AtEmptyPart
<1> QED
  BY <1>2, <1>3, <1>4, <1>5

\* The other calls return, or stop.
LEMMA LocalCalls ==
  ASSUME LocalInv,
         \/ \E p \in Paths : fopen_long(p)
         \/ fopen_refused \/ no_file_descriptor \/ get_new_file_descriptor
         \/ \E fd \in -1 .. MAX_FILE_DESCRIPTORS + 1 :
              \/ \E count \in 0 .. 1 : fread(fd, count) \/ fread_waits(fd, count)
              \/ fstat(fd) \/ fclose_unknown(fd) \/ fclose(fd) \/ fclose_null(fd)
         \/ Stopped \/ UNCHANGED vars
  PROVE  LocalInv'
<1>1. CASE \/ \E p \in Paths : fopen_long(p)
           \/ fopen_refused \/ no_file_descriptor
  BY <1>1, LocalReturn DEF fopen_long, fopen_refused, no_file_descriptor
<1>2. CASE get_new_file_descriptor
  BY <1>2, LocalReturn DEF get_new_file_descriptor, FreeSlots
<1>3. ASSUME NEW fd \in -1 .. MAX_FILE_DESCRIPTORS + 1,
             NEW count \in 0 .. 1, fread(fd, count) \/ fread_waits(fd, count)
      PROVE  LocalInv'
  <2>1. CASE \E r \in {-1, 0, count} : Return(r)
    <3>1. \A r \in {-1, 0, count} : r \in Slots \cup {-1, 0, 1}
      OBVIOUS
    <3> QED
      BY <2>1, <3>1, LocalReturn
  <2>2. CASE pc' = "waiting" /\ UNCHANGED <<locals, ret, oom>>
    BY <2>2, LocalStops
  <2> QED
    BY <1>3, <2>1, <2>2 DEF fread, fread_waits, heap
<1>4. ASSUME NEW fd \in -1 .. MAX_FILE_DESCRIPTORS + 1,
             fstat(fd) \/ fclose_unknown(fd) \/ fclose(fd) \/ fclose_null(fd)
      PROVE  LocalInv'
  <2>1. CASE Return(-EIO) \/ Return(0)
    <3>1. -EIO = -1
      BY DEF EIO
    <3> QED
      BY <2>1, <3>1, LocalReturn
  <2>2. CASE pc' \in {"halted", "wild"} /\ UNCHANGED <<locals, ret, oom>>
    BY <2>2, LocalStops
  <2> QED
    BY <1>4, <2>1, <2>2 DEF fstat, fclose_unknown, fclose, fclose_null, heap
<1>5. CASE Stopped \/ UNCHANGED vars
  BY <1>5 DEF Stopped, vars, heap, locals, LocalInv, LocalType, ParseInv, WalkInv, OpenedInv, WholeInv, Prefix,
            AtEmptyPart
<1> QED
  BY <1>1, <1>2, <1>3, <1>4, <1>5

LEMMA LocalStep ==
  ASSUME LocalInv, TableType, free \in Nat, [Next]_vars
  PROVE  LocalInv'
BY LocalParse, LocalWalk, LocalCalls DEF Next, FopenStep

-----------------------------------------------------------------------------
(* Memory.                                                                 *)

Opened == IF data # NULL THEN 1 ELSE 0
Searched ==
  IF pc \in {"find_item", "fat16_open_file"} /\ item # NULL /\ item.complete THEN Freed(item) ELSE 0
Kept == Cardinality(Open) + Cardinality(WithData)

LEMMA SlotsFinite ==
  ASSUME NEW S \in SUBSET Slots
  PROVE  IsFiniteSet(S) /\ Cardinality(S) \in Nat
<1>1. IsFiniteSet(Slots)
  BY FS_Interval, DescriptorsAssumption DEF Slots
<1> QED
  BY <1>1, FS_Subset, FS_CardinalityType

LEMMA Terms ==
  /\ free \in Nat => Recoverable = free + Kept + Opened + Searched
  /\ free' \in Nat => Recoverable' = free' + Kept' + Opened' + Searched'
  /\ {Kept, Opened, Searched, Kept', Opened', Searched'} \subseteq Nat
<1>1. Open \in SUBSET Slots /\ WithData \in SUBSET Slots
  BY DEF Open, WithData
<1>2. Open' \in SUBSET Slots /\ WithData' \in SUBSET Slots
  BY DEF Open, WithData
<1>3. {Cardinality(Open), Cardinality(WithData), Cardinality(Open'), Cardinality(WithData')} \subseteq Nat
  BY <1>1, <1>2, SlotsFinite
<1>4. {Opened, Opened', Searched, Searched'} \subseteq Nat
  BY DEF Opened, Searched, Freed
<1>5. /\ Recoverable = free + Cardinality(Open) + Cardinality(WithData) + Opened + Searched
      /\ Recoverable' =
           free' + Cardinality(Open)' + Cardinality(WithData)' + Opened' + Searched'
  BY Zenon DEF Recoverable, Opened, Searched
<1> QED
  BY <1>3, <1>4, <1>5 DEF Kept

\* Which of the descriptors are open, and have data, when one changes.
LEMMA SlotChanges ==
  ASSUME TableType, NEW i \in Slots, NEW d \in Descriptors \cup {NULL},
         file_descriptors' = [file_descriptors EXCEPT ![i] = d]
  PROVE  /\ Open' = IF d # NULL THEN Open \cup {i} ELSE Open \ {i}
         /\ WithData' = IF d # NULL /\ d.data # NULL THEN WithData \cup {i} ELSE WithData \ {i}
         /\ file_descriptors'[i] = d
         /\ \A j \in Slots \ {i} : file_descriptors'[j] = file_descriptors[j]
<1>1. file_descriptors'[i] = d /\ \A j \in Slots \ {i} : file_descriptors'[j] = file_descriptors[j]
  BY DEF TableType
<1> QED
  BY <1>1 DEF Open, WithData

LEMMA KeptStays ==
  ASSUME UNCHANGED file_descriptors
  PROVE  UNCHANGED <<Open, WithData, Kept>>
BY DEF Open, WithData, Kept

\* Return ends the walk.
LEMMA ReturnEnds ==
  ASSUME NEW r, Return(r)
  PROVE  Opened' = 0 /\ Searched' = 0 /\ pc' = "idle"
BY DEF Return, Opened, Searched

\* The walk along the path: the blocks of a directory are given back when the
\* next part has been looked up in it, or it has turned out to be the last.
LEMMA MemoryWalk ==
  ASSUME LocalInv, free \in Nat,
         \/ find_nothing \/ (\E type \in {"file", "directory"} : find_item(type))
         \/ directory_waits \/ use_null_directory \/ open_directory \/ open_fat16_file
  PROVE  free' \in Nat /\ Recoverable' <= Recoverable
<1> USE DEF LocalInv, Functions
<1>1. /\ Recoverable = free + Kept + Opened + Searched
      /\ free' \in Nat => Recoverable' = free' + Kept' + Opened' + Searched'
      /\ {Kept, Opened, Searched, Kept', Opened', Searched'} \subseteq Nat
  BY Terms
<1>2. UNCHANGED file_descriptors
  BY DEF find_nothing, find_item, directory_waits, use_null_directory, open_directory,
         open_fat16_file
<1>3. Kept' = Kept
  BY <1>2, KeptStays
<1>4. CASE find_nothing
  <2>1. /\ pc = "find_item" /\ pc' = "get_new_file_descriptor" /\ data' = data
        /\ item # NULL => item.complete
        /\ free' = free + Freed(item)
    BY <1>4 DEF find_nothing, locals
  <2>2. Searched = Freed(item) /\ Searched' = 0 /\ Opened' = Opened
    BY <2>1 DEF Searched, Opened, Freed
  <2> QED
    BY <1>1, <1>3, <2>1, <2>2
<1>5. ASSUME NEW type \in {"file", "directory"}, find_item(type)
      PROVE  free' \in Nat /\ Recoverable' <= Recoverable
  <2> PICK complete \in BOOLEAN :
         /\ IF complete THEN free >= Wanted(type) ELSE free < Wanted(type) \/ Prefix \in Damaged
         /\ item' = Item(type, complete)
         /\ free' = free - (IF complete THEN Wanted(type) ELSE 1) + Freed(item)
    BY <1>5 DEF find_item
  <2>1. /\ pc = "find_item" /\ data' = data /\ free > 0
        /\ item # NULL => item.complete
    BY <1>5 DEF find_item
  <2>2. Searched = Freed(item) /\ Opened' = Opened
    BY <2>1 DEF Searched, Opened, Freed
  <2>3. Searched' <= IF complete THEN 1 ELSE 0
    <3>1. item' # NULL /\ item'.complete = complete
      BY NullIsNot DEF Item
    <3> QED
      BY <3>1 DEF Searched, Freed
  <2>4. free' \in Nat /\ free' + Searched' <= free + Freed(item)
    <3>1. Wanted(type) \in {2, 3} /\ Freed(item) \in {0, 1} /\ Searched' \in Nat
      BY <1>1 DEF Wanted, Freed
    <3> QED
      BY <2>1, <2>3, <3>1
  <2>5. Freed(item) \in Nat
    BY DEF Freed
  <2> QED
    BY <1>1, <1>3, <2>2, <2>4, <2>5
<1>6. CASE directory_waits \/ use_null_directory
  <2>1. pc' \in {"waiting", "wild"} /\ UNCHANGED <<free, data, item>>
    BY <1>6 DEF directory_waits, use_null_directory, heap, locals
  <2>2. Searched' = 0 /\ Opened' = Opened
    BY <2>1 DEF Searched, Opened
  <2> QED
    BY <1>1, <1>3, <2>1, <2>2
<1>7. CASE open_directory
  <2>1. /\ pc = "fat16_open_file" /\ pc' = "get_new_file_descriptor" /\ data' = data
        /\ item.complete /\ free' = free + Freed(item)
    BY <1>7 DEF open_directory, locals
  <2>2. item # NULL
    BY <2>1 DEF WalkInv
  <2>3. Searched = Freed(item) /\ Searched' = 0 /\ Opened' = Opened
    BY <2>1, <2>2 DEF Searched, Opened
  <2> QED
    BY <1>1, <1>3, <2>1, <2>3
<1>8. CASE open_fat16_file
  <2>1. /\ pc = "fat16_open_file" /\ pc' = "get_new_file_descriptor"
        /\ \/ free > 0 /\ free' = free - 1
           \/ free' = free /\ data' = data
    BY <1>8 DEF open_fat16_file, kmalloc, kmalloc_fails
  <2>2. data = NULL
    BY <2>1 DEF WalkInv
  <2>3. Searched' = 0 /\ Opened = 0 /\ Opened' \in {0, 1} /\ (data' = data => Opened' = 0)
    BY <2>1, <2>2 DEF Searched, Opened
  <2> QED
    BY <1>1, <1>3, <2>1, <2>3
<1> QED
  BY <1>4, <1>5, <1>6, <1>7, <1>8

\* A descriptor's own block, and its data's, are given back by its fclose.
LEMMA MemoryTable ==
  ASSUME TableType, LocalInv, free \in Nat,
         \/ get_new_file_descriptor
         \/ \E fd \in -1 .. MAX_FILE_DESCRIPTORS + 1 : fclose(fd)
  PROVE  free' \in Nat /\ Recoverable' <= Recoverable
<1>1. /\ Recoverable = free + Kept + Opened + Searched
      /\ free' \in Nat => Recoverable' = free' + Kept' + Opened' + Searched'
      /\ {Kept, Opened, Searched, Kept', Opened', Searched'} \subseteq Nat
  BY Terms
<1>2. /\ IsFiniteSet(Open) /\ Cardinality(Open) \in Nat
      /\ IsFiniteSet(WithData) /\ Cardinality(WithData) \in Nat
  <2>1. Open \in SUBSET Slots /\ WithData \in SUBSET Slots
    BY DEF Open, WithData
  <2> QED
    BY <2>1, SlotsFinite
<1>3. CASE get_new_file_descriptor
  <2>1. PICK i \in FreeSlots :
          /\ \/ /\ kmalloc
                /\ file_descriptors' = [file_descriptors EXCEPT ![i] = Descriptor(data, path)]
             \/ kmalloc_fails /\ UNCHANGED file_descriptors
          /\ Return(i)
    BY <1>3 DEF get_new_file_descriptor
  <2>2. i \in Slots /\ i \notin Open /\ i \notin WithData
    BY <2>1 DEF FreeSlots, Open, WithData
  <2>3. Opened' = 0 /\ Searched' = 0
    BY <2>1, ReturnEnds
  <2>4. CASE /\ kmalloc
             /\ file_descriptors' = [file_descriptors EXCEPT ![i] = Descriptor(data, path)]
    <3>1. /\ Descriptor(data, path) \in Descriptors /\ Descriptor(data, path) # NULL
          /\ Descriptor(data, path).data = data
      <4>1. data \in FatDescriptors \cup {NULL} /\ path \in Paths
        BY <1>3 DEF get_new_file_descriptor, LocalInv, LocalType, ParseInv, Functions
      <4> QED
        BY <4>1, NullIsNot DEF Descriptor
    <3>2. /\ Open' = Open \cup {i}
          /\ WithData' = IF data # NULL THEN WithData \cup {i} ELSE WithData \ {i}
      <4> DEFINE d == Descriptor(data, path)
      <4>1. d \in Descriptors \cup {NULL} /\ d # NULL /\ d.data = data
        BY <3>1
      <4>2. file_descriptors' = [file_descriptors EXCEPT ![i] = d]
        BY <2>4
      <4> HIDE DEF d
      <4> QED
        BY <2>2, <4>1, <4>2, SlotChanges
    <3>3. Cardinality(Open') = Cardinality(Open) + 1
      BY <1>2, <2>2, <3>2, FS_AddElement
    <3>4. Cardinality(WithData') = Cardinality(WithData) + Opened
      <4>1. CASE data # NULL
        BY <1>2, <2>2, <3>2, <4>1, FS_AddElement DEF Opened
      <4>2. CASE data = NULL
        BY <1>2, <2>2, <3>2, <4>2 DEF Opened
      <4> QED
        BY <4>1, <4>2
    <3>5. free > 0 /\ free' = free - 1
      BY <2>4 DEF kmalloc
    <3>6. Kept' = Kept + 1 + Opened
      BY <1>1, <1>2, <3>3, <3>4 DEF Kept
    <3> QED
      BY <1>1, <2>3, <3>5, <3>6
  <2>5. CASE kmalloc_fails /\ UNCHANGED file_descriptors
    <3>1. Kept' = Kept /\ free' = free
      BY <2>5, KeptStays DEF kmalloc_fails
    <3> QED
      BY <1>1, <2>3, <3>1
  <2> QED
    BY <2>1, <2>4, <2>5
<1>4. ASSUME NEW fd \in -1 .. MAX_FILE_DESCRIPTORS + 1, fclose(fd)
      PROVE  free' \in Nat /\ Recoverable' <= Recoverable
  <2>1. /\ fd \in Slots /\ file_descriptors[fd] # NULL /\ file_descriptors[fd].data # NULL
        /\ free' = free + 2 /\ Return(0)
        /\ file_descriptors' = [file_descriptors EXCEPT ![fd] = NULL]
    BY <1>4, DescriptorsAssumption DEF fclose, get_file_descriptor, Slots, Closed
  <2>2. fd \in Open /\ fd \in WithData
    BY <2>1 DEF Open, WithData
  <2>3. Open' = Open \ {fd} /\ WithData' = WithData \ {fd}
    BY <2>1, SlotChanges
  <2>4. Cardinality(Open') = Cardinality(Open) - 1 /\ Cardinality(WithData') = Cardinality(WithData) - 1
    BY <1>2, <2>2, <2>3, FS_RemoveElement
  <2>5. Kept' = Kept - 2 /\ Opened' = 0 /\ Searched' = 0
    BY <1>2, <2>1, <2>4, ReturnEnds DEF Kept
  <2> QED
    BY <1>1, <2>1, <2>5
<1> QED
  BY <1>3, <1>4

LEMMA MemoryStep ==
  ASSUME TableType, LocalInv, free \in Nat, [Next]_vars
  PROVE  free' \in Nat /\ Recoverable' <= Recoverable
<1>1. /\ Recoverable = free + Kept + Opened + Searched
      /\ free' \in Nat => Recoverable' = free' + Kept' + Opened' + Searched'
      /\ {Kept, Opened, Searched, Kept', Opened', Searched'} \subseteq Nat
  BY Terms
\* Steps that return without having changed the table, or stop, take nothing.
<1>2. ASSUME UNCHANGED file_descriptors, free' \in Nat, free' <= free,
             \/ pc' = "idle" /\ data' = NULL
             \/ pc' \notin {"find_item", "fat16_open_file"} /\ UNCHANGED data
             \/ item' = NULL /\ UNCHANGED data
      PROVE  free' \in Nat /\ Recoverable' <= Recoverable
  <2>1. Kept' = Kept
    BY <1>2, KeptStays
  <2>2. Searched' = 0 /\ Opened' <= Opened
    BY <1>1, <1>2 DEF Searched, Opened
  <2> QED
    BY <1>1, <1>2, <2>1, <2>2
<1>3. CASE (\E p \in Paths : fopen_long(p)) \/ \E p \in Paths, m \in Modes : fopen(p, m)
  BY <1>2, <1>3 DEF fopen_long, fopen, heap, Return
<1>4. CASE create_root \/ fopen_refused \/ no_file_descriptor
  BY <1>2, <1>4 DEF create_root, fopen_refused, no_file_descriptor, kmalloc, kmalloc_fails, heap, locals, Return
<1>5. CASE parse_path \/ parse_path_end
  <2>1. /\ UNCHANGED <<file_descriptors, data>> /\ free' \in Nat /\ free' <= free
        /\ pc' \in {"parse_path", "fopen", "halted"}
    BY <1>5 DEF parse_path, parse_path_end, kmalloc_fails, heap, locals
  <2> QED
    BY <1>2, <2>1
<1>6. CASE open_file
  <2>1. UNCHANGED <<file_descriptors, data, item, free>> /\ pc = "fopen"
    BY <1>6 DEF open_file, heap, locals
  <2>2. item = NULL
    BY <2>1 DEF LocalInv, WalkInv
  <2> QED
    BY <1>2, <2>1, <2>2
<1>7. CASE \E fd \in -1 .. MAX_FILE_DESCRIPTORS + 1 :
             \/ \E count \in 0 .. 1 : fread(fd, count) \/ fread_waits(fd, count)
             \/ fstat(fd) \/ fclose_unknown(fd) \/ fclose_null(fd)
  <2>1. UNCHANGED file_descriptors /\ free' = free
    BY <1>7 DEF fread, fread_waits, fstat, fclose_unknown, fclose_null, heap
  <2>2. (pc' = "idle" /\ data' = NULL) \/ (pc' \in {"halted", "waiting", "wild"} /\ UNCHANGED data)
    <3>1. ASSUME NEW fd \in -1 .. MAX_FILE_DESCRIPTORS + 1, NEW count \in 0 .. 1,
                 fread(fd, count) \/ fread_waits(fd, count)
          PROVE  (pc' = "idle" /\ data' = NULL) \/ (pc' \in {"halted", "waiting", "wild"} /\ UNCHANGED data)
      <4>1. (\E r \in {-1, 0, count} : Return(r)) \/ (pc' = "waiting" /\ UNCHANGED <<locals, ret>>)
        BY <3>1 DEF fread, fread_waits
      <4> QED
        BY <4>1 DEF Return, locals
    <3>2. ASSUME NEW fd \in -1 .. MAX_FILE_DESCRIPTORS + 1,
                 fstat(fd) \/ fclose_unknown(fd) \/ fclose_null(fd)
          PROVE  (pc' = "idle" /\ data' = NULL) \/ (pc' \in {"halted", "waiting", "wild"} /\ UNCHANGED data)
      <4>1. Return(-EIO) \/ (pc' \in {"halted", "waiting", "wild"} /\ UNCHANGED <<locals, ret>>)
        BY <3>2 DEF fstat, fclose_unknown, fclose_null
      <4> QED
        BY <4>1 DEF Return, locals
    <3> QED
      BY <1>7, <3>1, <3>2
  <2> QED
    BY <1>2, <2>1, <2>2
<1>8. CASE Stopped \/ UNCHANGED vars
  <2>1. UNCHANGED <<file_descriptors, free, data, item, pc>>
    BY <1>8 DEF Stopped, vars, heap, locals
  <2>2. Kept' = Kept /\ Searched' = Searched /\ Opened' = Opened
    BY <2>1, KeptStays DEF Searched, Opened, Freed
  <2> QED
    BY <1>1, <2>1, <2>2
<1> QED
  BY <1>3, <1>4, <1>5, <1>6, <1>7, <1>8, MemoryWalk, MemoryTable DEF Next, FopenStep

-----------------------------------------------------------------------------
(* The table.                                                              *)

\* What changes the table: fopen's last step, and fclose.
LEMMA TableStays ==
  ASSUME [Next]_vars,
         ~get_new_file_descriptor, \A fd \in -1 .. MAX_FILE_DESCRIPTORS + 1 : ~fclose(fd)
  PROVE  UNCHANGED <<file_descriptors, filesystem, handles>>
BY DEF Next, FopenStep, fopen_long, fopen, create_root, parse_path, parse_path_end,
       fopen_refused, open_file, find_nothing, find_item, directory_waits, use_null_directory,
       open_directory,
       open_fat16_file, no_file_descriptor, fread, fread_waits, fstat, fclose_unknown, fclose_null,
       Stopped, vars

\* Memory that has run out has run out for good.
LEMMA OomStays ==
  ASSUME oom, [Next]_vars
  PROVE  oom'
BY DEF Next, FopenStep, fopen_long, fopen, create_root, parse_path, parse_path_end,
       fopen_refused, open_file, find_nothing, find_item, directory_waits, use_null_directory,
       open_directory,
       open_fat16_file, no_file_descriptor, get_new_file_descriptor, fread, fread_waits, fstat,
       fclose_unknown, fclose, fclose_null, Stopped, vars, heap, kmalloc, kmalloc_fails

\* fopen's last step fills an empty slot with what was opened, or runs out of
\* memory.
LEMMA Filling ==
  ASSUME TableType, LocalInv, get_new_file_descriptor
  PROVE  \E i \in Slots :
           /\ file_descriptors[i] = NULL
           /\ handles' = handles \cup {i}
           /\ filesystem' = filesystem
           /\ \/ /\ oom' = oom
                 /\ file_descriptors' = [file_descriptors EXCEPT ![i] = Descriptor(data, path)]
              \/ oom' = TRUE /\ UNCHANGED file_descriptors
           /\ Descriptor(data, path) \in Descriptors /\ Descriptor(data, path) # NULL
           /\ Descriptor(data, path).data = data /\ Descriptor(data, path).asked = path.parts
<1>1. data \in FatDescriptors \cup {NULL} /\ path \in Paths
  BY DEF get_new_file_descriptor, LocalInv, LocalType, ParseInv, Functions
<1>2. /\ Descriptor(data, path) \in Descriptors /\ Descriptor(data, path) # NULL
      /\ Descriptor(data, path).data = data /\ Descriptor(data, path).asked = path.parts
  BY <1>1, NullIsNot DEF Descriptor
<1> QED
  BY <1>2 DEF get_new_file_descriptor, FreeSlots, kmalloc, kmalloc_fails

\* fclose empties the slot of an open file.
LEMMA Emptying ==
  ASSUME NEW fd \in -1 .. MAX_FILE_DESCRIPTORS + 1, fclose(fd)
  PROVE  /\ fd \in Slots /\ file_descriptors[fd] # NULL
         /\ file_descriptors' = [file_descriptors EXCEPT ![fd] = NULL]
         /\ handles' = handles \ {fd} /\ ret' = 0 /\ free' = free + 2
         /\ UNCHANGED <<filesystem, oom>>
BY DescriptorsAssumption DEF fclose, get_file_descriptor, Slots, Closed, Return

LEMMA TableStep ==
  ASSUME IInv, [Next]_vars
  PROVE  TableType' /\ HandlesOwnSlots' /\ OpenReflectsDisk'
<1> USE DEF IInv
<1>1. oom' \in BOOLEAN
  BY DEF Next, FopenStep, fopen_long, fopen, create_root, parse_path, parse_path_end,
         fopen_refused, open_file, find_nothing, find_item, directory_waits, use_null_directory,
       open_directory,
         open_fat16_file, no_file_descriptor, get_new_file_descriptor, fread, fread_waits, fstat,
         fclose_unknown, fclose, fclose_null, Stopped, vars, heap, kmalloc, kmalloc_fails,
         TableType
<1>2. ~oom' => ~oom
  BY OomStays
<1>3. CASE get_new_file_descriptor
  <2>1. PICK i \in Slots :
           /\ file_descriptors[i] = NULL
           /\ handles' = handles \cup {i}
           /\ filesystem' = filesystem
           /\ \/ /\ oom' = oom
                 /\ file_descriptors' = [file_descriptors EXCEPT ![i] = Descriptor(data, path)]
              \/ oom' = TRUE /\ UNCHANGED file_descriptors
           /\ Descriptor(data, path) \in Descriptors /\ Descriptor(data, path) # NULL
           /\ Descriptor(data, path).data = data /\ Descriptor(data, path).asked = path.parts
    BY <1>3, Filling
  <2>2. CASE file_descriptors' = [file_descriptors EXCEPT ![i] = Descriptor(data, path)]
    <3> DEFINE d == Descriptor(data, path)
    <3>1. d \in Descriptors \cup {NULL} /\ d # NULL /\ d.data = data /\ d.asked = path.parts
      BY <2>1
    <3>2. file_descriptors' = [file_descriptors EXCEPT ![i] = d]
      BY <2>2
    <3> HIDE DEF d
    <3>3. /\ Open' = Open \cup {i} /\ file_descriptors'[i] = d
          /\ \A j \in Slots \ {i} : file_descriptors'[j] = file_descriptors[j]
      BY <3>1, <3>2, SlotChanges
    <3>4. TableType'
      BY <1>1, <2>1, <3>1, <3>2 DEF TableType
    <3>5. HandlesOwnSlots'
      BY <1>2, <2>1, <3>3 DEF HandlesOwnSlots
    <3>6. OnItsPath(d) /\ (~oom => AsNamed(d))
      <4>1. pc = "get_new_file_descriptor" /\ LocalType /\ ParseInv /\ OpenedInv /\ WholeInv
        BY <1>3 DEF get_new_file_descriptor, LocalInv
      <4>2. Len(parts) \in Cuts(d.asked) /\ Cut(d.asked, Len(parts)) = parts
        BY <3>1, <4>1, ParsedOnPath
      <4>3. OnItsPath(d)
        BY <3>1, <4>1, <4>2 DEF OnItsPath, OpenedInv
      <4>4. ASSUME ~oom PROVE AsNamed(d)
        <5>1. Len(parts) \in Ends(d.asked)
          BY <3>1, <4>1, <4>4, ParsedOnPath DEF WholeInv
        <5>2. d.data = IF parts \in Files THEN FatDescriptor(parts, TRUE) ELSE NULL
          BY <3>1, <4>1, <4>4 DEF WholeInv
        <5> QED
          BY <4>2, <5>1, <5>2 DEF AsNamed
      <4> QED
        BY <4>3, <4>4
    <3>7. OpenReflectsDisk'
      BY <1>2, <3>3, <3>6 DEF OpenReflectsDisk, Open
    <3> QED
      BY <3>4, <3>5, <3>7
  <2>3. CASE oom' = TRUE /\ UNCHANGED file_descriptors
    BY <1>1, <2>1, <2>3 DEF TableType, HandlesOwnSlots, OpenReflectsDisk, Open
  <2> QED
    BY <2>1, <2>2, <2>3
<1>4. ASSUME NEW fd \in -1 .. MAX_FILE_DESCRIPTORS + 1, fclose(fd)
      PROVE  TableType' /\ HandlesOwnSlots' /\ OpenReflectsDisk'
  <2>1. /\ fd \in Slots
        /\ file_descriptors' = [file_descriptors EXCEPT ![fd] = NULL]
        /\ handles' = handles \ {fd}
        /\ UNCHANGED <<filesystem, oom>>
    BY <1>4, Emptying
  <2>2. /\ Open' = Open \ {fd}
        /\ \A j \in Slots \ {fd} : file_descriptors'[j] = file_descriptors[j]
    BY <2>1, SlotChanges
  <2>3. TableType'
    BY <1>1, <2>1 DEF TableType
  <2>4. HandlesOwnSlots'
    BY <2>1, <2>2 DEF HandlesOwnSlots
  <2>5. OpenReflectsDisk'
    BY <1>2, <2>2 DEF OpenReflectsDisk, Open
  <2> QED
    BY <2>3, <2>4, <2>5
<1>5. CASE ~get_new_file_descriptor /\ \A fd \in -1 .. MAX_FILE_DESCRIPTORS + 1 : ~fclose(fd)
  <2>1. UNCHANGED <<file_descriptors, filesystem, handles>>
    BY <1>5, TableStays
  <2> QED
    BY <1>1, <1>2, <2>1 DEF TableType, HandlesOwnSlots, OpenReflectsDisk, Open
<1> QED
  BY <1>3, <1>4, <1>5

LEMMA InitIInv == Init => IInv
<1> SUFFICES ASSUME Init PROVE IInv
  OBVIOUS
<1>1. TableType
  BY DEF Init, TableType
<1>2. LocalInv
  <2>1. <<>> \in Seq(Names) /\ Len(<<>>) = 0 /\ <<>> \o <<>> = <<>>
    BY EmptySeq, ConcatEmptySeq
  <2>2. LocalType
    BY <2>1 DEF Init, LocalType, NoPath, Modes
  <2>3. ParseInv /\ WalkInv /\ OpenedInv /\ WholeInv
    BY <2>1 DEF Init, ParseInv, WalkInv, OpenedInv, WholeInv, Functions
  <2> QED
    BY <2>2, <2>3 DEF LocalInv
<1>3. Open = {} /\ WithData = {}
  BY DEF Init, Open, WithData
<1>4. MemoryInv
  <2>1. Kept = 0
    BY <1>3, FS_EmptySet DEF Kept
  <2>2. Opened = 0 /\ Searched = 0
    BY DEF Init, Opened, Searched
  <2>3. free = HeapBlocks /\ free \in Nat
    BY HeapAssumption DEF Init
  <2> QED
    BY <2>1, <2>2, <2>3, Terms DEF MemoryInv
<1>5. HandlesOwnSlots /\ OpenReflectsDisk
  BY <1>3 DEF Init, HandlesOwnSlots, OpenReflectsDisk
<1> QED
  BY <1>1, <1>2, <1>4, <1>5 DEF IInv

LEMMA StepIInv == IInv /\ [Next]_vars => IInv'
<1> SUFFICES ASSUME IInv, [Next]_vars PROVE IInv'
  OBVIOUS
<1>1. TableType /\ LocalInv /\ free \in Nat /\ Recoverable <= HeapBlocks
  BY DEF IInv, MemoryInv
<1>2. LocalInv'
  BY <1>1, LocalStep
<1>3. free' \in Nat /\ Recoverable' <= Recoverable
  BY <1>1, MemoryStep
<1>4. MemoryInv'
  <2>1. Recoverable \in Nat /\ Recoverable' \in Nat
    BY <1>1, <1>3, Terms
  <2> QED
    BY <1>1, <1>3, <2>1, HeapAssumption DEF MemoryInv
<1> QED
  BY <1>2, <1>4, TableStep DEF IInv

-----------------------------------------------------------------------------
(* The theorems.                                                           *)

\* IInv is an invariant.
THEOREM Invariance == Spec => []IInv
BY InitIInv, StepIInv, PTL DEF Spec

\* TypeOK: the variables have their types, and the heap never has more free
\* blocks than it had at first.
THEOREM TypeCorrect == Spec => []TypeOK
<1>1. IInv => TypeOK
  <2> SUFFICES ASSUME IInv PROVE TypeOK
    OBVIOUS
  <2>1. free \in 0 .. HeapBlocks
    BY Terms, HeapAssumption DEF IInv, MemoryInv
  <2> QED
    BY <2>1 DEF IInv, TableType, LocalInv, LocalType, TypeOK
<1> QED
  BY <1>1, Invariance, PTL

\* HandlesOwnSlots: while memory lasts, the descriptors callers hold are the
\* slots in use.
THEOREM HandlesOwn == Spec => []HandlesOwnSlots
<1>1. IInv => HandlesOwnSlots
  BY DEF IInv
<1> QED
  BY <1>1, Invariance, PTL

\* OpenReflectsDisk: a descriptor stands for a file that its path passes, and
\* while memory lasts for the one the path names when two slashes in a row end
\* it, on every disk.
THEOREM ReflectsDisk == Spec => []OpenReflectsDisk
<1>1. IInv => OpenReflectsDisk
  BY DEF IInv
<1> QED
  BY <1>1, Invariance, PTL

\* SlotsAreStable: no call but its fclose changes the slot of an open file.
THEOREM Stability == Spec => SlotsAreStable
<1>1. ASSUME IInv, [Next]_vars
      PROVE  [\A i \in Open :
                \/ file_descriptors'[i] = file_descriptors[i]
                \/ /\ file_descriptors'[i] = NULL /\ ret' = 0 /\ free' = free + 2
                   /\ i \notin handles']_vars
  <2> SUFFICES ASSUME NEW i \in Slots, file_descriptors[i] # NULL
               PROVE  \/ file_descriptors'[i] = file_descriptors[i]
                      \/ /\ file_descriptors'[i] = NULL /\ ret' = 0 /\ free' = free + 2
                         /\ i \notin handles'
    BY DEF Open
  <2>1. TableType /\ LocalInv
    BY <1>1 DEF IInv
  <2>2. CASE get_new_file_descriptor
    BY <2>1, <2>2, Filling DEF TableType
  <2>3. ASSUME NEW fd \in -1 .. MAX_FILE_DESCRIPTORS + 1, fclose(fd)
        PROVE  \/ file_descriptors'[i] = file_descriptors[i]
               \/ /\ file_descriptors'[i] = NULL /\ ret' = 0 /\ free' = free + 2
                  /\ i \notin handles'
    BY <2>1, <2>3, Emptying DEF TableType
  <2>4. CASE ~get_new_file_descriptor /\ \A fd \in -1 .. MAX_FILE_DESCRIPTORS + 1 : ~fclose(fd)
    BY <1>1, <2>4, TableStays
  <2> QED
    BY <2>2, <2>3, <2>4
<1> QED
  BY <1>1, Invariance, PTL DEF Spec, SlotsAreStable

\* NothingFreedTwice: the blocks that are free or will be given back never grow
\* in number.
THEOREM FreedOnce == Spec => NothingFreedTwice
<1>1. ASSUME IInv, [Next]_vars PROVE [Recoverable' <= Recoverable]_vars
  BY <1>1, MemoryStep DEF IInv, MemoryInv
<1> QED
  BY <1>1, Invariance, PTL DEF Spec, NothingFreedTwice

\* A step of fopen leads to another or to its return, unless memory runs out or
\* the path leads through a damaged directory.
GoesOn ==
  pc \in Functions /\ pc' \notin Functions \cup {"idle"} => oom' \/ ThroughDamage(path.parts)

\* While memory lasts, fopen never frees the null pointer, uses a directory that
\* is not there or waits for the drive, unless its path leads through a damaged
\* directory: each of its steps goes on or returns.
THEOREM FopenGoesOn == Spec => [][GoesOn]_vars
<1>1. ASSUME IInv, [Next]_vars PROVE [GoesOn]_vars
  <2> SUFFICES ASSUME pc \in Functions, pc' \notin Functions \cup {"idle"}, ~oom'
               PROVE  ThroughDamage(path.parts)
    BY DEF GoesOn
  <2>1. LocalInv /\ ~oom
    BY <1>1, OomStays DEF IInv
  <2>2. CASE directory_waits
    <3>1. k \in 1 .. Len(parts) /\ Prefix \in Damaged
      BY <2>1, <2>2 DEF directory_waits, LocalInv, WalkInv
    <3> QED
      BY <2>1, <3>1, ParsedOnPath DEF LocalInv, Prefix
  <2>3. CASE use_null_directory
    BY <2>1, <2>3 DEF use_null_directory, LocalInv, WholeInv
  <2>4. CASE ~directory_waits /\ ~use_null_directory
    BY <1>1, <2>4 DEF Next, FopenStep, fopen_long, fopen, create_root, parse_path, parse_path_end,
       fopen_refused, open_file, find_nothing, find_item, open_directory, open_fat16_file,
       no_file_descriptor, get_new_file_descriptor, fread, fread_waits, fstat, fclose_unknown,
       fclose, fclose_null, Stopped, vars, kmalloc, kmalloc_fails, Return, Functions
  <2> QED
    BY <2>2, <2>3, <2>4
<1> QED
  BY <1>1, Invariance, PTL DEF Spec
=============================================================================
