-------------------------------- MODULE Vfs --------------------------------
(***************************************************************************)
(* The file layer: fopen, fread, fstat and fclose of fs/vfs.c, the path    *)
(* parser of fs/path.c they call, and the opening and closing half of      *)
(* fs/fat16/fat16.c behind the table of function pointers.  Every call of  *)
(* kmalloc is a point where memory may have run out, so fopen is a step    *)
(* per allocation or per path component.                                   *)
(*                                                                         *)
(* All requests of this layer fit one heap block.  By the theorem          *)
(* OneBlocks of HeapProofs such a request takes one free block, if there   *)
(* is any, so the heap is here the number of its free blocks.              *)
(*                                                                         *)
(* Here a path either names a file, or a directory, or nothing.  That is   *)
(* the lookup's answer where directories have no deleted entries, end with *)
(* an empty one and take one block, and names differ in their first five   *)
(* characters: module Fat16Dir.                                            *)
(***************************************************************************)
EXTENDS Integers, Sequences, FiniteSets

CONSTANTS
  MAX_FILE_DESCRIPTORS,
  HeapBlocks,  \* blocks free when the first file is opened
  Files,       \* the component sequences that name a file on the disk
  Dirs,        \* those that name a directory, all but the root
  Damaged,     \* the directories whose clusters cannot be read to the end
  Paths,       \* the paths passed to fopen
  EMPTY,       \* the component between two slashes in a row
  NULL

ASSUME DescriptorsAssumption == MAX_FILE_DESCRIPTORS \in Nat \ {0}
ASSUME HeapAssumption == HeapBlocks \in Nat
ASSUME DisjointAssumption == Files \cap Dirs = {}
ASSUME DamagedAssumption == Damaged \subseteq Dirs

\* A file or a directory below the root lies in a directory.
ASSUME TreeAssumption ==
  \A f \in Files \cup Dirs : \A j \in 1 .. Len(f) - 1 : SubSeq(f, 1, j) \in Dirs

Names == UNION {{p.parts[j] : j \in DOMAIN p.parts} : p \in Paths}
ASSUME PathsAssumption == \A p \in Paths : p.parts \in Seq(Names)

Slots == 1 .. MAX_FILE_DESCRIPTORS  \* slot i is file_descriptors[i-1]
Modes == {"r", "w", "a", "other"}

EIO == 1

VARIABLES
  file_descriptors,
  filesystem,  \* disk.filesystem is set: resolve_fs recognised the disk
  free,        \* free blocks of the heap
  oom,         \* some kmalloc has failed
  pc,          \* the function being executed; "halted" after a bad free,
               \*   "waiting" once read_disk_sector or a division never ends,
               \*   "wild" once it runs on a structure read through address 0
  path,        \* fopen's arguments
  mode,
  rest,        \* the components of the path still to be parsed
  parts,       \* the components linked under the path_root
  k,           \* the component being looked up
  item,        \* the item found for the component before
  data,        \* what open_file returned
  ret,         \* the result of the last call
  handles      \* descriptors handed out and not yet closed

locals == <<path, mode, rest, parts, k, item, data>>
heap == <<free, oom>>
vars == <<file_descriptors, filesystem, heap, pc, locals, ret, handles>>

-----------------------------------------------------------------------------
(* The heap as this layer sees it.                                         *)

kmalloc == free > 0 /\ free' = free - 1 /\ UNCHANGED oom

kmalloc_fails == free = 0 /\ oom' = TRUE /\ UNCHANGED free

\* An item as find_item_in_root_directory returns it.  It is complete when
\* its clone of the entry, or its directory, could be allocated.
Item(type, complete) == [type |-> type, complete |-> complete]

\* A struct file_descriptor.  data is null, or the fat16 descriptor: of which
\* file, and whether its item has an entry.  asked is the path of its fopen.
Descriptor(d, p) == [data |-> d, asked |-> p.parts]
FatDescriptor(f, entry) == [file |-> f, entry |-> entry]

NoPath == [drive |-> 0, parts |-> <<>>, long |-> FALSE]

Init ==
  /\ file_descriptors = [i \in Slots |-> NULL]
  /\ filesystem \in BOOLEAN
  /\ free = HeapBlocks
  /\ oom = FALSE
  /\ pc = "idle"
  /\ path = NoPath /\ mode = "r" /\ rest = <<>> /\ parts = <<>>
  /\ k = 1 /\ item = NULL /\ data = NULL
  /\ ret = 0
  /\ handles = {}

Return(r) ==
  /\ pc' = "idle"
  /\ ret' = r
  /\ path' = NoPath /\ mode' = "r" /\ rest' = <<>> /\ parts' = <<>>
  /\ k' = 1 /\ item' = NULL /\ data' = NULL

-----------------------------------------------------------------------------
(* fopen: the path.                                                        *)

\* parse refuses a string longer than MAX_PATH_LEN before it allocates.
fopen_long(p) ==
  /\ pc = "idle"
  /\ p.long
  /\ Return(-1)
  /\ UNCHANGED <<file_descriptors, filesystem, heap, handles>>

fopen(p, m) ==
  /\ pc = "idle"
  /\ ~p.long
  /\ pc' = "create_root"
  /\ path' = p
  /\ mode' = m
  /\ rest' = p.parts
  /\ UNCHANGED <<file_descriptors, filesystem, heap, parts, k, item, data, ret, handles>>

\* Without a path_root fopen gives up.
create_root ==
  /\ pc = "create_root"
  /\ \/ kmalloc /\ pc' = "parse_path" /\ UNCHANGED <<locals, ret>>
     \/ kmalloc_fails /\ Return(-1)
  /\ UNCHANGED <<file_descriptors, filesystem, handles>>

\* Where create_path_part finds an empty part: at the end of the string, and
\* between two slashes.
AtEmptyPart == rest # <<>> => Head(rest) = EMPTY

\* create_path_part takes a block for the string, parse_path one for the
\* struct.  If either is missing parse_path returns 0, and parse takes that
\* for the end of the path.
parse_path ==
  /\ pc = "parse_path"
  /\ ~AtEmptyPart
  /\ \/ /\ free >= 2
        /\ free' = free - 2
        /\ parts' = Append(parts, Head(rest))
        /\ rest' = Tail(rest)
        /\ UNCHANGED <<oom, pc>>
     \/ /\ free < 2
        /\ free' = 0
        /\ oom' = TRUE
        /\ pc' = "fopen"
        /\ UNCHANGED <<parts, rest>>
  /\ UNCHANGED <<file_descriptors, filesystem, path, mode, k, item, data, ret, handles>>

parse_path_end_swapped ==  \* mutant: path_part is cleared before it is freed
  /\ pc = "parse_path"
  /\ AtEmptyPart
  /\ pc' = "halted"
  /\ UNCHANGED <<file_descriptors, filesystem, heap, locals, ret, handles>>

\* An empty part is allocated and freed again; when there is no memory for it,
\* what is freed is the null pointer.  parse takes it for the end of the path,
\* and drops what comes after two slashes in a row.
parse_path_end ==
  /\ pc = "parse_path"
  /\ AtEmptyPart
  /\ \/ free > 0 /\ pc' = "fopen" /\ UNCHANGED heap
     \/ kmalloc_fails /\ pc' = "halted"
  /\ UNCHANGED <<file_descriptors, filesystem, locals, ret, handles>>

\* The early returns of fopen: only the root, a drive other than 0 (an
\* invalid prefix gives -4), a disk without file system, an unknown mode.
Refused == parts = <<>> \/ path.drive # 0 \/ ~filesystem \/ mode = "other"

fopen_refused ==
  /\ pc = "fopen"
  /\ Refused
  /\ Return(-1)
  /\ UNCHANGED <<file_descriptors, filesystem, heap, handles>>

open_file ==
  /\ pc = "fopen"
  /\ ~Refused
  /\ pc' = "find_item"
  /\ UNCHANGED <<file_descriptors, filesystem, heap, locals, ret, handles>>

-----------------------------------------------------------------------------
(* fopen: fat16_open_file.                                                 *)

Prefix_in_root == <<parts[k]>>  \* mutant: each part is looked up in the root
Prefix == SubSeq(parts, 1, k)

\* free_fat16_item gives back the entries of a directory, and only those.
Freed(it) == IF it # NULL /\ it.type = "directory" THEN 1 ELSE 0

\* Nothing is found, or there is no block for the item.
find_nothing ==
  /\ pc = "find_item"
  /\ item # NULL => item.complete
  /\ \/ Prefix \notin Files \cup Dirs /\ UNCHANGED oom
     \/ Prefix \in Files \cup Dirs /\ free = 0 /\ oom' = TRUE
  /\ free' = free + Freed(item)
  /\ pc' = "get_new_file_descriptor"
  /\ UNCHANGED <<file_descriptors, filesystem, locals, ret, handles>>

\* create_fat_item_for_directory needs a block for the item and one for the
\* clone of a file's entry, or two for a directory and its entries; of the
\* latter it keeps both or none, and none when the entries cannot be read.
Wanted(type) == IF type = "file" THEN 2 ELSE 3

find_item(type) ==
  /\ pc = "find_item"
  /\ item # NULL => item.complete
  /\ Prefix \in IF type = "file" THEN Files ELSE Dirs
  /\ free > 0
  /\ oom' = (oom \/ free < Wanted(type))
  /\ \E complete \in BOOLEAN :
       /\ IF complete THEN free >= Wanted(type)
                      ELSE free < Wanted(type) \/ Prefix \in Damaged
       /\ item' = Item(type, complete)
       /\ free' = free - (IF complete THEN Wanted(type) ELSE 1) + Freed(item)
  /\ IF k = Len(parts) THEN pc' = "fat16_open_file" /\ UNCHANGED k
     ELSE IF type = "file" THEN pc' = "get_new_file_descriptor" /\ UNCHANGED k
     ELSE pc' = pc /\ k' = k + 1
  /\ UNCHANGED <<file_descriptors, filesystem, path, mode, rest, parts, data, ret, handles>>

\* On the way through a damaged directory the drive may be asked for a sector
\* it does not have.
directory_waits ==
  /\ pc = "find_item"
  /\ item # NULL => item.complete
  /\ Prefix \in Damaged
  /\ free > 0
  /\ pc' = "waiting"
  /\ UNCHANGED <<file_descriptors, filesystem, heap, locals, ret, handles>>

\* A directory whose entries could not be loaded is used all the same.
use_null_directory ==
  /\ pc \in {"find_item", "fat16_open_file"}
  /\ item # NULL /\ item.type = "directory" /\ ~item.complete
  /\ pc' = "wild"
  /\ UNCHANGED <<file_descriptors, filesystem, heap, locals, ret, handles>>

\* A directory is not opened.
open_directory ==
  /\ pc = "fat16_open_file"
  /\ item.type = "directory" /\ item.complete
  /\ free' = free + Freed(item)
  /\ pc' = "get_new_file_descriptor"
  /\ UNCHANGED <<file_descriptors, filesystem, oom, locals, ret, handles>>

open_fat16_file ==
  /\ pc = "fat16_open_file"
  /\ item.type = "file"
  /\ \/ kmalloc /\ data' = FatDescriptor(Prefix, item.complete)
     \/ kmalloc_fails /\ UNCHANGED data
  /\ pc' = "get_new_file_descriptor"
  /\ UNCHANGED <<file_descriptors, filesystem, path, mode, rest, parts, k, item, ret, handles>>

-----------------------------------------------------------------------------
(* fopen: the descriptor.                                                  *)

FreeSlots_all == Slots  \* mutant: the slot is not tested
FreeSlots == {i \in Slots : file_descriptors[i] = NULL}

no_file_descriptor ==
  /\ pc = "get_new_file_descriptor"
  /\ FreeSlots = {}
  /\ Return(-1)
  /\ UNCHANGED <<file_descriptors, filesystem, heap, handles>>

\* The first free slot is taken.  Without memory its pointer stays null, the
\* index is written to and read back from address 0, and fopen returns it.
get_new_file_descriptor ==
  /\ pc = "get_new_file_descriptor"
  /\ \E i \in FreeSlots :
       /\ \A j \in FreeSlots : i <= j
       /\ \/ /\ kmalloc
             /\ file_descriptors' = [file_descriptors EXCEPT ![i] = Descriptor(data, path)]
          \/ kmalloc_fails /\ UNCHANGED file_descriptors
       /\ Return(i)
       /\ handles' = handles \cup {i}
  /\ UNCHANGED filesystem

-----------------------------------------------------------------------------
(* The calls on a descriptor.                                              *)

\* Descriptor 0 reads the word before the array, which is 0 in the build.
get_file_descriptor(fd) ==
  IF fd <= 0 \/ fd >= MAX_FILE_DESCRIPTORS THEN NULL ELSE file_descriptors[fd]

\* Of the records all are read, or none are.
fread(fd, count) ==
  /\ pc = "idle"
  /\ IF get_file_descriptor(fd) = NULL \/ count = 0 THEN Return(-1)
     ELSE \E r \in {0, count} : Return(r)
  /\ UNCHANGED <<file_descriptors, filesystem, heap, handles>>

\* The read of a file that exists may run past the end of its chain and poll
\* the drive for ever (module Fat16Read), or divide by a cluster size of 0; so
\* may the read of an entry found through address 0.
fread_waits(fd, count) ==
  /\ pc = "idle"
  /\ get_file_descriptor(fd) # NULL /\ count > 0
  /\ pc' = "waiting"
  /\ UNCHANGED <<file_descriptors, filesystem, heap, locals, ret, handles>>

\* No file system provides stat, and fstat calls through the null pointer.
fstat(fd) ==
  /\ pc = "idle"
  /\ IF get_file_descriptor(fd) = NULL THEN Return(-EIO)
     ELSE pc' = "wild" /\ UNCHANGED <<locals, ret>>
  /\ UNCHANGED <<file_descriptors, filesystem, heap, handles>>

fclose_unknown(fd) ==
  /\ pc = "idle"
  /\ get_file_descriptor(fd) = NULL
  /\ Return(-EIO)
  /\ UNCHANGED <<file_descriptors, filesystem, heap, handles>>

fclose_keeping(fd) ==  \* mutant: the slot is not cleared
  /\ pc = "idle"
  /\ get_file_descriptor(fd) # NULL
  /\ get_file_descriptor(fd).data # NULL
  /\ free' = free + 2
  /\ handles' = handles \ {fd}
  /\ Return(0)
  /\ UNCHANGED <<file_descriptors, filesystem, oom>>

\* The blocks a fclose gives back: fat16_close frees the fat16 descriptor,
\* not its item, and fclose the descriptor.
Closed_twice == 3  \* mutant: the fat16 descriptor is freed twice
Closed == 2

fclose(fd) ==
  /\ pc = "idle"
  /\ get_file_descriptor(fd) # NULL
  /\ get_file_descriptor(fd).data # NULL
  /\ free' = free + Closed
  /\ file_descriptors' = [file_descriptors EXCEPT ![fd] = NULL]
  /\ handles' = handles \ {fd}
  /\ Return(0)
  /\ UNCHANGED <<filesystem, oom>>

\* With null data what fat16_close frees is the null pointer.
fclose_null(fd) ==
  /\ pc = "idle"
  /\ get_file_descriptor(fd) # NULL
  /\ get_file_descriptor(fd).data = NULL
  /\ pc' = "halted"
  /\ UNCHANGED <<file_descriptors, filesystem, heap, locals, ret, handles>>

\* The kernel hangs, or runs where this model does not follow.
Stopped ==
  /\ pc \in {"halted", "waiting", "wild"}
  /\ UNCHANGED vars

FopenStep ==
  \/ create_root
  \/ parse_path
  \/ parse_path_end
  \/ fopen_refused
  \/ open_file
  \/ find_nothing
  \/ \E type \in {"file", "directory"} : find_item(type)
  \/ directory_waits
  \/ use_null_directory
  \/ open_directory
  \/ open_fat16_file
  \/ no_file_descriptor
  \/ get_new_file_descriptor

Next ==
  \/ \E p \in Paths : fopen_long(p)
  \/ \E p \in Paths, m \in Modes : fopen(p, m)
  \/ FopenStep
  \/ \E fd \in -1 .. MAX_FILE_DESCRIPTORS + 1 :
       \/ \E count \in 0 .. 1 : fread(fd, count) \/ fread_waits(fd, count)
       \/ fstat(fd)
       \/ fclose_unknown(fd)
       \/ fclose(fd)
       \/ fclose_null(fd)
  \/ Stopped

Spec == Init /\ [][Next]_vars

\* The kernel makes no other call while fopen runs.
FairSpec == Spec /\ WF_vars(FopenStep)

-----------------------------------------------------------------------------
(* Properties.                                                             *)

Functions == {"create_root", "parse_path", "fopen", "find_item", "fat16_open_file",
              "get_new_file_descriptor"}

Items == {Item(type, complete) : type \in {"file", "directory"}, complete \in BOOLEAN}
FatDescriptors == {FatDescriptor(f, entry) : f \in Files, entry \in BOOLEAN}
Descriptors == {Descriptor(d, p) : d \in FatDescriptors \cup {NULL}, p \in Paths}

ASSUME NullAssumption == NULL \notin Items \cup FatDescriptors \cup Descriptors

\* The type invariant.
TypeOK ==
  /\ file_descriptors \in [Slots -> Descriptors \cup {NULL}]
  /\ filesystem \in BOOLEAN
  /\ free \in 0 .. HeapBlocks
  /\ oom \in BOOLEAN
  /\ pc \in Functions \cup {"idle", "halted", "waiting", "wild"}
  /\ path \in Paths \cup {NoPath}
  /\ mode \in Modes
  /\ parts \o rest = path.parts
  /\ k \in 1 .. Len(parts) + 1
  /\ item \in Items \cup {NULL}
  /\ data \in FatDescriptors \cup {NULL}
  /\ ret \in Slots \cup {-1, 0, 1}
  /\ handles \subseteq Slots

Open == {i \in Slots : file_descriptors[i] # NULL}

\* While memory lasts, the descriptors the callers hold are exactly the slots
\* in use: fopen and fclose agree on what a descriptor number stands for.
HandlesOwnSlots == ~oom => handles = Open

\* The numbers of parts of s a path may be cut off after: none of them empty.
Cuts(s) == {j \in 0 .. Len(s) : \A i \in 1 .. j : s[i] # EMPTY}

\* The cut the path's own spelling makes: at its end, or at the first two
\* slashes in a row.
Ends(s) == {j \in Cuts(s) : j < Len(s) => s[j + 1] = EMPTY}

Cut(s, j) == SubSeq(s, 1, j)

\* The file is one that the path passes on the way.
OnItsPath(d) ==
  d.data # NULL => \E j \in Cuts(d.asked) : d.data.file = Cut(d.asked, j) /\ Cut(d.asked, j) \in Files

\* The file is the one the path's spelling names; there is none if that names
\* no file.
AsNamed(d) ==
  \E j \in Ends(d.asked) :
    d.data = IF Cut(d.asked, j) \in Files THEN FatDescriptor(Cut(d.asked, j), TRUE) ELSE NULL

\* Whatever fails, a descriptor's file lies on its path: a path that is cut
\* short, by a kmalloc that fails or by two slashes in a row, opens a file it
\* passes and no other.  While memory lasts, only two slashes cut it short, and
\* the item of the file has its entry.
OpenReflectsDisk ==
  \A i \in Open : OnItsPath(file_descriptors[i]) /\ (~oom => AsNamed(file_descriptors[i]))

\* A slot in use changes only when fclose frees it, with both blocks of the
\* descriptor: no fopen overwrites an open file, and no failing path of the
\* calls drops one.
SlotsAreStable ==
  [][\A i \in Open :
       \/ file_descriptors'[i] = file_descriptors[i]
       \/ /\ file_descriptors'[i] = NULL /\ ret' = 0 /\ free' = free + 2
          /\ i \notin handles']_vars

\* The path leads through a damaged directory.
ThroughDamage(s) == \E j \in 1 .. Len(s) : SubSeq(s, 1, j) \in Damaged

\* Every fopen returns, unless memory runs out or its path leads through a
\* damaged directory: then it may free the null pointer, use a directory that
\* is not there, or wait for the drive.
FopenReturns ==
  pc = "create_root" /\ ~ThroughDamage(path.parts) ~> pc = "idle" \/ oom

WithData == {i \in Open : file_descriptors[i].data # NULL}

\* Blocks free now, or that the open descriptors, the file being opened and
\* the directory being searched will give back.
Recoverable ==
  LET searched == pc \in {"find_item", "fat16_open_file"} /\ item # NULL /\ item.complete
  IN  free + Cardinality(Open) + Cardinality(WithData)
        + (IF data # NULL THEN 1 ELSE 0) + (IF searched THEN Freed(item) ELSE 0)

\* No call gives back a block twice or one that is still in use: what is free
\* or will be given back never grows.
NothingFreedTwice == [][Recoverable' <= Recoverable]_vars

\* data "points to the filesystem's file descriptor" (include/vfs.h:62).
DescriptorHasData == \A i \in Open : file_descriptors[i].data # NULL
=============================================================================
