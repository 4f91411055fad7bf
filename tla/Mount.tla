--------------------------------- MODULE Mount ---------------------------------
(***************************************************************************)
(* Mounting: search_and_init_disk, resolve_fs and resolve_fat16, which     *)
(* reads the volume's header and its root directory, down to the drive's   *)
(* registers.  It runs once, in an empty heap of 100 MB, so that kmalloc   *)
(* does not fail; resolve_fs finds only FAT16 to try.                      *)
(*                                                                         *)
(* Positions on the disk are counted in directory entries of 32 bytes, and *)
(* an entry that is read is represented by its position.                   *)
(***************************************************************************)
EXTENDS Integers, Sequences, FiniteSets, Measure

CONSTANTS
  PER,      \* entries in a sector
  INT,      \* positions of an int are -INT .. INT - 1
  BYTE,     \* values of a byte
  HEAD,     \* values of the four bits of lba in the head register
  Disks,    \* sizes of disks, in sectors
  Volumes,  \* headers, and
  AREA      \* the entries from the root directory on that are not all alike

Kinds == {"empty", "deleted", "used"}

Volume == [reserved_sectors : Nat \ {0}, fat_count : Nat \ {0}, sectors_per_fat : Nat \ {0},
           root_entry_count : Nat \ {0}, signed : BOOLEAN]
NoHeader == [reserved_sectors |-> 0, fat_count |-> 0, sectors_per_fat |-> 0,
             root_entry_count |-> 0, signed |-> FALSE]

BYTE2 == BYTE * BYTE
BYTE3 == BYTE2 * BYTE

ASSUME WidthAssumption ==
  /\ {PER, INT, BYTE, HEAD} \subseteq Nat \ {0}
  /\ INT % PER = 0
  /\ INT \div PER <= HEAD * BYTE3
ASSUME DisksAssumption == Disks \subseteq 1 .. HEAD * BYTE3
ASSUME VolumesAssumption == Volumes \subseteq Volume /\ AREA \in Nat

VARIABLES
  sectors,     \* the size of the disk
  volume,      \* the header on it
  area, rest,  \* the entries from the root directory on
  filesystem,  \* disk.filesystem
  live,        \* what resolve_fat16 has allocated and not freed
  header,      \* data->header, once it has been read
  cnt,         \* get_total_entries' count, then totel_entries
  entries,     \* the root directory in memory
  sector_end,
  pc, pos, left, \* the function, its stream's position, the entries still to read
  lba, drive   \* the drive: the sector it was asked for, what it does

root == <<cnt, entries, sector_end>>
stream == <<pos, left>>
disk == <<sectors, volume, area, rest>>
vars == <<disk, filesystem, live, header, root, pc, stream, lba, drive>>

-----------------------------------------------------------------------------
(* Sectors and positions.  An int wraps; C's division truncates.           *)

int(n) == ((n + INT) % (2 * INT)) - INT

quotient(n, d) == IF n < 0 THEN -((-n) \div d) ELSE n \div d
remainder(n, d) == n - quotient(n, d) * d

sector_to_address(s) == int(s * PER)

root_sector(h) == h.fat_count * h.sectors_per_fat + h.reserved_sectors

\* The three bytes of a sector's number, and what the rest of it leaves in the
\* head register: four bits of the number and, since nothing masks it, the bit
\* that selects the drive, which a negative number sets.
ports(s) ==
  <<s % BYTE, (s \div BYTE) % BYTE, (s \div BYTE2) % BYTE, (s \div BYTE3) % (2 * HEAD)>>

\* The sector they ask for; from HEAD * BYTE3 on it is one of the second drive.
addressed(p) == p[1] + p[2] * BYTE + p[3] * BYTE2 + p[4] * BYTE3

\* The entry a position of the disk holds.
kind(p) ==
  LET k == p - root_sector(volume) * PER
  IN  IF k \in 0 .. AREA - 1 THEN area[k] ELSE rest

\* The position that is read: the offset of pos in the sector that came.
read_at == lba * PER + remainder(pos, PER)

-----------------------------------------------------------------------------
Init ==
  /\ sectors \in Disks /\ volume \in Volumes
  /\ area \in [0 .. AREA - 1 -> Kinds] /\ rest \in Kinds
  /\ filesystem = "none" /\ live = {}
  /\ header = NoHeader
  /\ cnt = 0 /\ entries = <<>> /\ sector_end = 0
  /\ pc = "resolve_fs" /\ pos = 0 /\ left = 0
  /\ lba = 0 /\ drive = "idle"

Streams == {"read_cluster_streamer", "read_fat_streamer", "directory_streamer"}

\* resolve_fat16, up to its first read; init_fat16_data.  disk->filesystem is
\* set before anything is known of the disk.
resolve_fat16 ==
  /\ pc = "resolve_fs"
  /\ live' = Streams \cup {"data", "stream"}
  /\ filesystem' = "FAT16"
  /\ pc' = "read_header"
  /\ UNCHANGED <<disk, header, root, stream, lba, drive>>

Reading == {"read_header", "get_total_entries", "get_root_dir"}

\* Every read_disk_sector is for one sector.
read_disk_sector ==
  /\ pc \in Reading /\ drive = "idle"
  /\ lba' = addressed(ports(quotient(pos, PER)))
  /\ drive' = "busy"
  /\ UNCHANGED <<disk, filesystem, live, header, root, pc, stream>>

\* A sector the disk does not have is answered with an error, and so is, by the
\* only drive there is, any of the second.  Only "ready" ends the wait.
drive_answers ==
  /\ drive = "busy"
  /\ drive' = IF lba < sectors THEN "ready" ELSE "error"
  /\ UNCHANGED <<disk, filesystem, live, header, root, pc, stream, lba>>

WaitForever ==
  /\ drive = "error"
  /\ UNCHANGED vars

refuse ==
  /\ live' = live \ {"data"}
  /\ pc' = "refused"

\* The header lies in the disk's first sector; the signature decides.
header_read ==
  /\ pc = "read_header" /\ drive = "ready"
  /\ drive' = "idle"
  /\ header' = volume
  /\ IF header'.signed
     THEN /\ pc' = "get_total_entries"
          /\ pos' = sector_to_address(root_sector(header'))
          /\ UNCHANGED live
     ELSE refuse /\ UNCHANGED pos
  /\ UNCHANGED <<disk, filesystem, root, left, lba>>

next_position_sector == int(pos + PER)  \* mutant: the stream moves on by sectors
next_position_stuck == pos  \* mutant: the stream is moved back in the loop
next_position == int(pos + 1)

\* One turn of get_total_entries, up to the first empty entry; then the head
\* of get_root_dir.
count_entry ==
  /\ pc = "get_total_entries" /\ drive = "ready"
  /\ drive' = "idle"
  /\ IF kind(read_at) = "empty"
     THEN /\ pc' = "get_root_dir"
          /\ live' = live \cup {"root"}
          /\ pos' = sector_to_address(root_sector(header))
          /\ left' = header.root_entry_count
          /\ UNCHANGED cnt
     ELSE /\ pos' = next_position
          /\ cnt' = IF kind(read_at) = "used" THEN cnt + 1 ELSE cnt
          /\ UNCHANGED <<pc, live, left>>
  /\ UNCHANGED <<disk, filesystem, header, entries, sector_end, lba>>

\* directory->sector_end.  total_sectors, rounded up, is not used.
last_sector(h) == root_sector(h) + h.root_entry_count \div PER

more_sectors_full == left >= PER  \* mutant: the last full sector is not the last
more_sectors == left > PER

\* One call of read_disk_stream's recursion; after the last, the end of
\* get_root_dir and of resolve_fat16.
sector_read ==
  /\ pc = "get_root_dir" /\ drive = "ready"
  /\ drive' = "idle"
  /\ LET n == IF left > PER THEN PER ELSE left
     IN  /\ entries' = entries \o [j \in 1 .. n |-> read_at + j - 1]
         /\ pos' = int(pos + n)
         /\ left' = left - n
  /\ IF more_sectors
     THEN UNCHANGED <<pc, live, sector_end>>
     ELSE /\ sector_end' = last_sector(header)
          /\ live' = live \ {"stream"}
          /\ pc' = "resolved"
  /\ UNCHANGED <<disk, filesystem, header, cnt, lba>>

search_and_init_disk_ignoring ==  \* mutant: resolve_fs' result is not stored
  /\ pc \in {"refused", "resolved"}
  /\ pc' = "done"
  /\ UNCHANGED <<disk, filesystem, live, header, root, stream, lba, drive>>

\* disk.filesystem = resolve_fs(&disk).
search_and_init_disk ==
  /\ pc \in {"refused", "resolved"}
  /\ filesystem' = IF pc = "resolved" THEN "FAT16" ELSE "none"
  /\ pc' = "done"
  /\ UNCHANGED <<disk, live, header, root, stream, lba, drive>>

Done ==
  /\ pc = "done"
  /\ UNCHANGED vars

kernel ==
  \/ resolve_fat16
  \/ read_disk_sector
  \/ header_read
  \/ count_entry
  \/ sector_read
  \/ search_and_init_disk

Next == kernel \/ drive_answers \/ WaitForever \/ Done

\* Nothing else runs, and the drive answers every command.
Spec == Init /\ [][Next]_vars /\ WF_vars(kernel) /\ WF_vars(drive_answers)

-----------------------------------------------------------------------------
(* Properties.                                                             *)

First == root_sector(volume) * PER

\* Where FAT16 puts a volume's first cluster: after all of its root directory.
FirstClusterSector ==
  root_sector(volume) + (volume.root_entry_count + PER - 1) \div PER

\* The disk has a file system only if it is signed as one, and then what
\* fopen and fread use of it is there: memory nobody has freed, the streams,
\* all of the root directory and no more of it than the disk has, the count
\* of its entries, and the place of its clusters, if the root directory's
\* size is whole sectors.  resolve_fat16 has set disk->filesystem by then for
\* a disk it refuses, too, and freed its data.
MountedIsReadable ==
  pc = "done" =>
    /\ filesystem = (IF volume.signed THEN "FAT16" ELSE "none")
    /\ filesystem = "FAT16" =>
         /\ live = Streams \cup {"data", "root"}
         /\ entries = [j \in 1 .. volume.root_entry_count |-> First + j - 1]
         /\ \E p \in First .. sectors * PER - 1 :
              /\ kind(p) = "empty"
              /\ \A q \in First .. p - 1 : kind(q) # "empty"
              /\ cnt = Cardinality({q \in First .. p - 1 : kind(q) = "used"})
         /\ volume.root_entry_count % PER = 0 => sector_end = FirstClusterSector

\* The positions of the disk that an int can address.
Reach == IF INT <= sectors * PER THEN INT ELSE sectors * PER

\* The root directory, and an empty entry in it or somewhere behind it, lie on
\* the disk where an int can address them.
Ends ==
  /\ First + volume.root_entry_count <= Reach
  /\ \E p \in First .. Reach - 1 : kind(p) = "empty"

\* Then, and on a disk without a signature, the drive is never asked for a
\* sector it does not have: positions do not wrap on the way, and the kernel
\* does not look beyond the empty entry and the root directory, behind which
\* the disk may end.
NeverWaits == (volume.signed => Ends) => drive # "error"

\* What mounting has still to do: reads of one kind, positions to read or
\* entries to load, and answers.
Todo ==
  <<CASE pc = "resolve_fs" -> 5
      [] pc = "read_header" -> 4
      [] pc = "get_total_entries" -> 3
      [] pc = "get_root_dir" -> 2
      [] pc \in {"refused", "resolved"} -> 1
      [] pc = "done" -> 0,
    CASE pc = "get_total_entries" -> IF pos < 0 THEN 0 ELSE INT - pos
      [] pc = "get_root_dir" -> left
      [] OTHER -> 0,
    CASE drive = "idle" -> 2
      [] drive = "busy" -> 1
      [] OTHER -> 0>>

\* Every step leaves less to do, on a disk smaller than an int can address as on
\* one that is larger: the count of the entries, which has no bound, runs into
\* an empty entry or into the wait for a sector that is not there, behind the
\* end of the disk or of ints, and does not start again.
MountAdvances == [][Less(Todo', Todo)]_vars

\* Mounting comes to an end for every disk without a signature, and for every
\* volume whose root directory is on the disk, with an empty entry in it or in
\* the space behind it: no error stops the kernel in its unlimited wait for the
\* drive.
MountEnds == pc = "resolve_fs" /\ (volume.signed => Ends) ~> pc = "done"
=============================================================================
