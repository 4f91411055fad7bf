------------------------------ MODULE Fat16Read ------------------------------
(***************************************************************************)
(* Reading a file: fat16_read_file and what it calls, down to the sectors  *)
(* of disk/disk.c.  Each record is read part by part; for each part the    *)
(* chain of clusters is walked from the file's first cluster, the cluster  *)
(* stream is moved, and the part is copied sector by sector.               *)
(*                                                                         *)
(* A byte is represented by the disk address it was copied from, which is  *)
(* all that matters about it: whether the caller gets the bytes of its     *)
(* file, in order.                                                         *)
(***************************************************************************)
EXTENDS Integers, Sequences, Measure

CONSTANTS
  SECTOR_SIZE,
  sectors_per_cluster,
  sector_end,     \* data->root.sector_end, the sector of cluster 2
  Sectors,        \* sectors of the disk
  LastCluster,    \* the clusters of the disk are 2 .. LastCluster
  FirstCluster,   \* the file's first cluster
  Sizes,          \* the sizes and numbers of records fread is called with
  MaxRecords

ASSUME SizeAssumption == SECTOR_SIZE \in Nat \ {0} /\ sectors_per_cluster \in Nat \ {0}
ASSUME DiskAssumption ==
  /\ sector_end \in Nat /\ LastCluster \in Nat
  /\ FirstCluster \in 2 .. LastCluster
  /\ Sectors = sector_end + (LastCluster - 1) * sectors_per_cluster
ASSUME CallAssumption == Sizes \subseteq Nat \ {0} /\ MaxRecords \in Nat

Clusters == 2 .. LastCluster
cluster_size == sectors_per_cluster * SECTOR_SIZE

VARIABLES
  fat,      \* the file allocation table on the disk
  offset,   \* offset of the open file's fat16_file_descriptor
  pc,       \* the function being executed; "waiting" when the drive has no data
  size, nb, \* fread's arguments
  i, at,    \* fat16_read_file: records read, offset of the next
  from,     \* read_data_from_stream: offset of the part,
  total,    \*   bytes of the record from there on,
  part,     \*   bytes of the part
  cluster,  \* get_cluster_for_offset: cluster_to_use
  ahead,    \*   clusters still to go
  pos,      \* the cluster stream's position
  left,     \* read_disk_stream: bytes still to copy
  out,      \* the bytes written through out
  ret       \* the result of the last fread

record == <<size, nb, i, at>>
walk == <<from, total, part, cluster, ahead>>
stream == <<pos, left>>
vars == <<fat, offset, pc, record, walk, stream, out, ret>>

-----------------------------------------------------------------------------
(* The table's special values: those get_cluster_for_offset compares with, *)
(* and the mark FAT16 puts at the end of a file.                           *)

EndMarks == {4088, 4095}       \* 0xFF8, 0xFFF
ReservedMarks == {4080, 4086}  \* 0xFF0, 0xFF6
FreeMark == 0
FAT16End == 65535              \* 0xFFFF

Entries == Clusters \cup {FreeMark, 4080, 4088, FAT16End}

\* A cluster number outside the table makes get_entry read what lies behind
\* the table.
get_entry(c) == IF c \in Clusters THEN {fat[c]} ELSE Entries

cluster_to_sector(c) == sector_end + (c - 2) * sectors_per_cluster

minimum_second(a, b) == b  \* mutant
minimum(a, b) == IF a < b THEN a ELSE b

Garbage == -1

\* The bytes one read_disk_stream call copies from its 512-byte buffer; past
\* the end of the buffer lies the stack.
copied(n) ==
  [j \in 1 .. n |-> IF (pos % SECTOR_SIZE) + j - 1 < SECTOR_SIZE THEN pos + j - 1 ELSE Garbage]

-----------------------------------------------------------------------------
Init ==
  /\ fat \in [Clusters -> Entries]
  /\ offset = 0
  /\ pc = "idle"
  /\ size = 0 /\ nb = 0 /\ i = 0 /\ at = 0
  /\ from = 0 /\ total = 0 /\ part = 0 /\ cluster = FirstCluster /\ ahead = 0
  /\ pos = 0 /\ left = 0
  /\ out = <<>>
  /\ ret = 0

\* fread, and the head of fat16_read_file.
fread(s, n) ==
  /\ pc = "idle"
  /\ pc' = "fat16_read_file"
  /\ size' = s
  /\ nb' = n
  /\ i' = 0
  /\ at' = offset
  /\ out' = <<>>
  /\ UNCHANGED <<fat, offset, walk, stream, ret>>

Return(r) == pc' = "idle" /\ ret' = r

Read_onward(o, t) ==  \* mutant: the walk goes on from the current cluster
  /\ pc' = "get_cluster_for_offset"
  /\ from' = o
  /\ total' = t
  /\ cluster' = cluster
  /\ ahead' = o \div cluster_size

Read_too_far(o, t) ==  \* mutant: the cluster after the offset's
  /\ pc' = "get_cluster_for_offset"
  /\ from' = o
  /\ total' = t
  /\ cluster' = FirstCluster
  /\ ahead' = o \div cluster_size + 1

\* read_data_from_stream, called with an offset and a total.
Read(o, t) ==
  /\ pc' = "get_cluster_for_offset"
  /\ from' = o
  /\ total' = t
  /\ cluster' = FirstCluster
  /\ ahead' = o \div cluster_size

read_record ==
  /\ pc = "fat16_read_file"
  /\ i < nb
  /\ Read(at, size)
  /\ UNCHANGED <<fat, offset, record, part, stream, out, ret>>

\* descriptor->offset stays what it was.
read_done ==
  /\ pc = "fat16_read_file"
  /\ i = nb
  /\ Return(nb)
  /\ UNCHANGED <<fat, offset, record, walk, stream, out>>

next_cluster_unbounded ==  \* mutant: the walk only ends at a mark
  /\ pc = "get_cluster_for_offset"
  /\ ahead > 0
  /\ \E entry \in get_entry(cluster) :
       /\ entry \notin EndMarks \cup ReservedMarks \cup {FreeMark}
       /\ cluster' = entry
  /\ UNCHANGED <<fat, offset, pc, record, from, total, ahead, part, stream, out, ret>>

next_cluster ==
  /\ pc = "get_cluster_for_offset"
  /\ ahead > 0
  /\ \E entry \in get_entry(cluster) :
       /\ entry \notin EndMarks \cup ReservedMarks \cup {FreeMark}
       /\ cluster' = entry
  /\ ahead' = ahead - 1
  /\ UNCHANGED <<fat, offset, pc, record, from, total, part, stream, out, ret>>

\* -EIO from get_cluster_for_offset makes fat16_read_file return 0.
chain_ends ==
  /\ pc = "get_cluster_for_offset"
  /\ ahead > 0
  /\ get_entry(cluster) \cap (EndMarks \cup ReservedMarks \cup {FreeMark}) # {}
  /\ Return(0)
  /\ UNCHANGED <<fat, offset, record, walk, stream, out>>

seek_cluster ==
  /\ pc = "get_cluster_for_offset"
  /\ ahead = 0
  /\ pc' = "read_disk_stream"
  /\ pos' = cluster_to_sector(cluster) * SECTOR_SIZE + (from % cluster_size)
  /\ part' = minimum(total, cluster_size)
  /\ left' = part'
  /\ UNCHANGED <<fat, offset, record, from, total, cluster, ahead, out, ret>>

\* One call of read_disk_stream.  It calls itself while more than a sector
\* was asked for.
read_sector ==
  /\ pc = "read_disk_stream"
  /\ pos \div SECTOR_SIZE < Sectors
  /\ LET n == minimum(left, SECTOR_SIZE)
     IN  /\ out' = out \o copied(n)
         /\ pos' = pos + n
         /\ left' = left - n
  /\ pc' = IF left > SECTOR_SIZE THEN pc ELSE "read_data_from_stream"
  /\ UNCHANGED <<fat, offset, record, walk, ret>>

\* read_disk_sector polls the drive for data it does not have.
sector_missing ==
  /\ pc = "read_disk_stream"
  /\ pos \div SECTOR_SIZE >= Sectors
  /\ pc' = "waiting"
  /\ UNCHANGED <<fat, offset, record, walk, stream, out, ret>>

Waiting ==
  /\ pc = "waiting"
  /\ UNCHANGED vars

next_part ==
  /\ pc = "read_data_from_stream"
  /\ total > part
  /\ Read(from + part, total - part)
  /\ UNCHANGED <<fat, offset, record, part, stream, out, ret>>

record_done ==
  /\ pc = "read_data_from_stream"
  /\ total = part
  /\ pc' = "fat16_read_file"
  /\ i' = i + 1
  /\ at' = at + size
  /\ UNCHANGED <<fat, offset, size, nb, walk, stream, out, ret>>

ReadStep ==
  \/ read_record
  \/ read_done
  \/ next_cluster
  \/ chain_ends
  \/ seek_cluster
  \/ read_sector
  \/ sector_missing
  \/ next_part
  \/ record_done

Next ==
  \/ \E s \in Sizes, n \in 1 .. MaxRecords : fread(s, n)
  \/ ReadStep
  \/ Waiting

Spec == Init /\ [][Next]_vars

\* The processor executes fread once it has entered it.
FairSpec == Spec /\ WF_vars(ReadStep)

-----------------------------------------------------------------------------
(* What the table says.                                                    *)

\* The n-th cluster of the file, counting from 0; 0 after its end.
Chain[n \in Nat] ==
  IF n = 0 THEN FirstCluster
  ELSE IF Chain[n - 1] \in Clusters /\ fat[Chain[n - 1]] \in Clusters
       THEN fat[Chain[n - 1]] ELSE 0

\* The address of the file's byte b.
FileByte(b) ==
  cluster_to_sector(Chain[b \div cluster_size]) * SECTOR_SIZE + (b % cluster_size)

\* The file's chain reaches to its byte b.
HasByte(b) == Chain[b \div cluster_size] # 0

\* A record of s bytes at offset o that does not run over the end of a
\* sector or of a cluster unless it starts at one.
Aligned(o, s) ==
  /\ (o % SECTOR_SIZE) + minimum(s, SECTOR_SIZE) <= SECTOR_SIZE
  /\ (o % cluster_size) + minimum(s, cluster_size) <= cluster_size

AllAligned == \A r \in 0 .. nb - 1 : Aligned(offset + r * size, size)

-----------------------------------------------------------------------------
(* Properties.                                                             *)

Functions == {"fat16_read_file", "get_cluster_for_offset", "read_disk_stream",
              "read_data_from_stream"}

\* The type invariant.
TypeOK ==
  /\ fat \in [Clusters -> Entries]
  /\ offset \in Nat
  /\ pc \in Functions \cup {"idle", "waiting"}
  /\ size \in Sizes \cup {0} /\ nb \in 0 .. MaxRecords /\ i \in 0 .. nb
  /\ {at, from, total, part, ahead, pos, left} \subseteq Nat
  /\ cluster \in Clusters \cup {FAT16End}
  /\ out \in Seq(Int)
  /\ ret \in 0 .. MaxRecords

\* The caller's buffer of size * nb bytes is never overrun, wherever the
\* recursion over clusters and sectors stops.
BufferIsEnough == Len(out) <= size * nb

\* A read of aligned records delivers the file's bytes in order, however its
\* clusters are scattered: the walk from the first cluster, the split into
\* parts and the split into sectors fit together.
ReadIsExact ==
  AllAligned /\ (\A b \in 0 .. size * nb - 1 : HasByte(offset + b)) =>
    \A b \in 1 .. Len(out) : out[b] = FileByte(offset + b - 1)

\* A read is refused only if the file's chain ends before the bytes it asks
\* for, and a chain that reaches to them never makes the drive wait.
FailsOnlyPastEnd ==
  [][(pc \in Functions /\ pc' = "idle" /\ ret' = 0) \/ (pc # "waiting" /\ pc' = "waiting") =>
       \/ ~AllAligned
       \/ \E b \in 0 .. size * nb - 1 : ~HasByte(offset + b)]_vars

\* What a read has still to do: bytes to write, what comes before the next of
\* them is looked for, and clusters to walk.
Todo ==
  <<size * nb - Len(out),
    CASE pc = "read_data_from_stream" -> 4
      [] pc = "fat16_read_file" -> 3
      [] pc = "get_cluster_for_offset" -> 2
      [] OTHER -> 1,
    ahead>>

\* Every step of a read leaves less to do, so that no chain and no size keeps
\* fread from returning: no step turns back without having written a byte.
ReadAdvances == [][{pc, pc'} \subseteq Functions => Less(Todo', Todo)]_vars

\* Every fread returns, or waits for a drive without data, even on a table
\* whose chains are cyclic.
FreadReturns == pc \in Functions ~> pc \in {"idle", "waiting"}

\* "Last entry in the file" (fs/fat16/fat16.c:451): the walk along a file's
\* clusters stops at its last entry.
StopsAtLastEntry == cluster # FAT16End

\* read_disk_stream reads the total bytes it is asked for, or reports an
\* error (disk/disk.c:122-126): what fread says it has read is on the disk.
ReadsFromDisk == pc = "idle" /\ ret > 0 => \A b \in 1 .. Len(out) : out[b] # Garbage
=============================================================================
