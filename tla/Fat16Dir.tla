------------------------------- MODULE Fat16Dir -------------------------------
(***************************************************************************)
(* A directory of fs/fat16/fat16.c: counting its entries on the disk,      *)
(* loading that many of them, and looking names up among what was loaded.  *)
(* The root directory is loaded when the disk is mounted, any other one    *)
(* when a path goes through it.                                            *)
(*                                                                         *)
(* The lookup compares strings with n = sizeof(name), the size of a        *)
(* pointer: it sees n + 1 characters, whatever the length of the names.    *)
(* create_path_part does not terminate the part it copies, so that behind  *)
(* a shorter one the lookup sees what the heap block held before.          *)
(*                                                                         *)
(* Characters are those of the lower-cased name "base.ext", the first n+1  *)
(* of which get_full_filename builds; its reading on from a full base of   *)
(* eight characters into the extension comes later than those.             *)
(***************************************************************************)
EXTENDS Integers, Sequences, FiniteSets

CONSTANTS
  n,            \* sizeof(name)
  Capacity,     \* entries of the root directory, or of one cluster
  DiskEntries,  \* entries from the directory's first sector to the disk's end
  Names,        \* names of files and directories
  Parts,        \* path parts looked up
  Bytes,        \* bytes a recycled heap block may hold, NUL among them
  NUL, E5       \* the byte 0x00, and the first byte of a deleted entry

ASSUME SizeAssumption == n \in Nat /\ Capacity \in Nat \ {0} /\ DiskEntries \in Nat
ASSUME ChainAssumption == Capacity <= DiskEntries /\ DiskEntries <= 2 * Capacity
ASSUME BytesAssumption ==
  /\ NUL \in Bytes
  /\ \A s \in Names \cup Parts : s \in Seq(Bytes \ {NUL}) /\ s # <<>> /\ s[1] # E5

VARIABLES
  root,    \* the directory is the root directory
  disk,    \* the entries on the disk from its first sector on
  pc,      \* the function being executed, "loaded" between lookups;
           \*   "failed" if it could not be loaded, "waiting" if the drive
           \*   has no data
  at,      \* get_total_entries: the entry the stream is at
  cnt,     \* get_total_entries: cnt; later dir->totel_entries
  entries, \* dir->entries
  part,    \* the path part being looked up, <<>> before the first
  stale,   \* the bytes behind it in its block
  i,       \* find_item_in_root_directory: the loop index
  found    \* the index of the entry found, or -1

onDisk == <<root, disk>>
search == <<part, stale, i, found>>
vars == <<onDisk, pc, at, cnt, entries, search>>

-----------------------------------------------------------------------------
(* Entries.  One is a directory if its attributes say so, and otherwise a  *)
(* file to this code, a volume label too.  The lookup does not look at     *)
(* them.                                                                   *)

Live(name) == [name |-> name]
Deleted == [name |-> <<E5>>]
End == [name |-> <<>>]
Entries == {Live(s) : s \in Names} \cup {Deleted, End}

is_end(e) == e.name = <<>>
is_deleted(e) == ~is_end(e) /\ e.name[1] = E5

Garbage == Entries  \* what memory behind the loaded entries may look like

-----------------------------------------------------------------------------
Init ==
  /\ root \in BOOLEAN
  /\ disk \in [0 .. DiskEntries - 1 -> Entries]
  /\ pc = "get_total_entries"
  /\ at = 0 /\ cnt = 0
  /\ entries = <<>>
  /\ part = <<>> /\ stale = <<>> /\ i = 0 /\ found = -1

count_entry ==
  /\ pc = "get_total_entries"
  /\ at < DiskEntries
  /\ ~is_end(disk[at]) /\ ~is_deleted(disk[at])
  /\ at' = at + 1
  /\ cnt' = cnt + 1
  /\ UNCHANGED <<onDisk, pc, entries, search>>

\* A deleted entry is not counted.
skip_deleted ==
  /\ pc = "get_total_entries"
  /\ at < DiskEntries
  /\ is_deleted(disk[at])
  /\ at' = at + 1
  /\ UNCHANGED <<onDisk, pc, cnt, entries, search>>

\* The count ends at an empty entry, wherever the directory does.
end_of_entries ==
  /\ pc = "get_total_entries"
  /\ at < DiskEntries
  /\ is_end(disk[at])
  /\ pc' = IF root THEN "get_root_dir" ELSE "load_fat16_directory"
  /\ UNCHANGED <<onDisk, at, cnt, entries, search>>

\* Without one the stream runs into sectors the drive does not have.
sector_missing ==
  /\ pc = "get_total_entries"
  /\ at = DiskEntries
  /\ pc' = "waiting"
  /\ UNCHANGED <<onDisk, at, cnt, entries, search>>

\* All entries of the root directory are loaded, as raw sectors.
get_root_dir ==
  /\ pc = "get_root_dir"
  /\ entries' = [j \in 1 .. Capacity |-> disk[j - 1]]
  /\ pc' = "loaded"
  /\ UNCHANGED <<onDisk, at, cnt, search>>

load_first_cluster ==  \* mutant: the chain is not followed
  /\ pc = "load_fat16_directory"
  /\ entries' = [j \in 1 .. IF cnt < Capacity THEN cnt ELSE Capacity |-> disk[j - 1]]
  /\ pc' = "loaded"
  /\ UNCHANGED <<onDisk, at, cnt, search>>

\* Of another directory cnt entries are loaded, along its chain: those behind
\* the first cluster come from the second, wherever that is.
load_fat16_directory ==
  /\ pc = "load_fat16_directory"
  /\ \E second \in [Capacity + 1 .. cnt -> Entries] :
       entries' = [j \in 1 .. cnt |-> IF j <= Capacity THEN disk[j - 1] ELSE second[j]]
  /\ pc' = "loaded"
  /\ UNCHANGED <<onDisk, at, cnt, search>>

\* -EIO from read_internal_data, if the chain ends with the first cluster.
load_fails ==
  /\ pc = "load_fat16_directory"
  /\ cnt > Capacity
  /\ pc' = "failed"
  /\ UNCHANGED <<onDisk, at, cnt, entries, search>>

-----------------------------------------------------------------------------
(* The lookup.                                                             *)

\* Byte j of the part's heap block, and of the file name of an entry.
part_byte(j) == IF j <= Len(part) THEN part[j] ELSE stale[j]
name_byte(e, j) == IF j <= Len(e.name) THEN e.name[j] ELSE NUL

\* strcmp_prefix_ignore_case(filename, name, n) = 0.
same_until(last, e) == \A j \in 1 .. last : name_byte(e, j) = part_byte(j)
same_name_short(e) == same_until(n, e)  \* mutant: byte n is not compared
same_name(e) == same_until(n + 1, e)

find_item_from(s, bytes, first, last) ==
  /\ pc = "loaded"
  /\ pc' = "find_item"
  /\ part' = s
  /\ stale' = bytes
  /\ i' = first
  /\ found' = last
  /\ UNCHANGED <<onDisk, at, cnt, entries>>

find_item_1_based(s, bytes) == find_item_from(s, bytes, 1, -1)  \* mutant
find_item_again(s, bytes) == find_item_from(s, bytes, 0, found)  \* mutant: found is kept

find_item(s, bytes) == find_item_from(s, bytes, 0, -1)

\* dir->entries[i].
entry_at == IF i < Len(entries) THEN {entries[i + 1]} ELSE Garbage

next_entry ==
  /\ pc = "find_item"
  /\ i < cnt
  /\ \E e \in entry_at : ~same_name(e)
  /\ i' = i + 1
  /\ UNCHANGED <<onDisk, pc, at, cnt, entries, part, stale, found>>

item_found ==
  /\ pc = "find_item"
  /\ i < cnt
  /\ \E e \in entry_at : same_name(e)
  /\ found' = i
  /\ pc' = "loaded"
  /\ UNCHANGED <<onDisk, at, cnt, entries, part, stale, i>>

nothing_found ==
  /\ pc = "find_item"
  /\ i >= cnt
  /\ pc' = "loaded"
  /\ UNCHANGED <<onDisk, at, cnt, entries, search>>

\* The directory is null, or the drive is polled for ever.
Stopped ==
  /\ pc \in {"failed", "waiting"}
  /\ UNCHANGED vars

DirectoryStep ==
  \/ count_entry
  \/ skip_deleted
  \/ end_of_entries
  \/ sector_missing
  \/ get_root_dir
  \/ load_fat16_directory
  \/ load_fails
  \/ next_entry
  \/ item_found
  \/ nothing_found

Next ==
  \/ DirectoryStep
  \/ \E s \in Parts : \E bytes \in [Len(s) + 1 .. n + 1 -> Bytes] : find_item(s, bytes)
  \/ Stopped

Spec == Init /\ [][Next]_vars

-----------------------------------------------------------------------------
(* What is on the disk.                                                    *)

\* The entries before the first empty one.
Used == {j \in 0 .. DiskEntries - 1 : \A m \in 0 .. j : ~is_end(disk[m])}
DeletedOnes == {j \in Used : is_deleted(disk[j])}

\* The directory has an empty entry behind its last.
Terminated == Cardinality(Used) < Capacity

\* The n+1 characters the lookup compares, of a name that has as many.
Prefix(s) == SubSeq(s, 1, IF Len(s) <= n THEN Len(s) ELSE n + 1)

\* The lookup can tell the part from the other names of the directory: it is
\* at least n+1 characters long, and no other name has the same first n+1.
Distinct ==
  /\ Len(part) > n
  /\ \A j \in Used : disk[j].name # part => Prefix(disk[j].name) # Prefix(part)

\* A lookup has ended.
Answered == pc = "loaded" /\ part # <<>>

-----------------------------------------------------------------------------
(* Properties.                                                             *)

PC == {"get_total_entries", "get_root_dir", "load_fat16_directory", "loaded",
       "find_item", "failed", "waiting"}

\* The type invariant.
TypeOK ==
  /\ root \in BOOLEAN
  /\ disk \in [0 .. DiskEntries - 1 -> Entries]
  /\ pc \in PC
  /\ at \in 0 .. DiskEntries
  /\ cnt \in 0 .. at
  /\ entries \in Seq(Entries) /\ Len(entries) <= DiskEntries
  /\ part \in Parts \cup {<<>>}
  /\ stale \in {<<>>} \cup UNION {[Len(s) + 1 .. n + 1 -> Bytes] : s \in Parts}
  /\ i \in 0 .. cnt
  /\ found \in -1 .. i

\* In a terminated directory the entry found for a distinct part bears its
\* name, is in use, and is the first to do so.
FoundIsTheOne ==
  Answered /\ Terminated /\ Distinct /\ found # -1 =>
    /\ found \in Used /\ disk[found].name = part
    /\ \A j \in Used : disk[j].name = part => found <= j

\* In a terminated directory a distinct part is missed only where deleted
\* entries have pushed the name behind what is searched: as many of the last
\* entries as there are deleted ones.
MissedOnlyBehindDeleted ==
  Answered /\ Terminated /\ Distinct /\ found = -1 =>
    \A j \in Used : disk[j].name = part =>
      j >= Cardinality(Used) - Cardinality(DeletedOnes)

\* The search never leaves the entries that were loaded, unless it is that
\* of a root directory without an empty entry.
SearchIsInside ==
  pc = "find_item" /\ i < cnt => i < Len(entries) \/ (root /\ ~Terminated)
=============================================================================
