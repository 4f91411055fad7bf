----------------------------- MODULE Fat16DirProofs -----------------------------
(***************************************************************************)
(* Proofs about directories of every size and content, and names and parts *)
(* of every length: what a lookup finds, what it misses, and where it      *)
(* looks.                                                                  *)
(***************************************************************************)
EXTENDS Fat16Dir, FiniteSetTheorems, TLAPS

-----------------------------------------------------------------------------
(* The inductive invariant.                                                *)

\* The deleted entries among the first m.
DeletedBefore(m) == {j \in 0 .. m - 1 : is_deleted(disk[j])}

\* The count is over the entries passed by, none of which is empty, and has
\* ended at one that is.
CountInv ==
  /\ \A j \in 0 .. at - 1 : ~is_end(disk[j])
  /\ cnt = at - Cardinality(DeletedBefore(at))
  /\ pc \notin {"get_total_entries", "waiting"} => at < DiskEntries /\ is_end(disk[at])

\* What is loaded of the first cluster is what the disk holds.
LoadInv ==
  /\ pc = "get_root_dir" => root
  /\ pc = "load_fat16_directory" => ~root
  /\ pc \in {"loaded", "find_item"} =>
       /\ Len(entries) = IF root THEN Capacity ELSE cnt
       /\ \A j \in 1 .. Len(entries) : j <= Capacity => entries[j] = disk[j - 1]

\* None of the loaded entries before index last is the part's.
NoneBefore(last) == \A j \in 0 .. last - 1 : j < Len(entries) => ~same_name(entries[j + 1])

\* The search has passed by what is not the part's, and ended at what is.
SearchInv ==
  /\ pc \notin {"loaded", "find_item"} => part = <<>>
  /\ pc = "find_item" => part # <<>> /\ found = -1 /\ NoneBefore(i)
  /\ Answered /\ found = -1 => NoneBefore(cnt)
  /\ Answered /\ found # -1 =>
       /\ NoneBefore(found) /\ found < cnt
       /\ found < Len(entries) => same_name(entries[found + 1])

IInv == TypeOK /\ CountInv /\ LoadInv /\ SearchInv

-----------------------------------------------------------------------------
(* Type correctness.                                                       *)

LEMMA ConstantsType == n \in Nat /\ Capacity \in Nat /\ Capacity > 0 /\ DiskEntries \in Nat
BY SizeAssumption

LEMMA ReadEntry ==
  ASSUME TypeOK, NEW j \in 0 .. DiskEntries - 1
  PROVE  disk[j] \in Entries
BY DEF TypeOK

LEMMA TypeStep ==
  ASSUME TypeOK, LoadInv, [Next]_vars
  PROVE  TypeOK'
<1> USE ConstantsType DEF PC, onDisk, search
<1>1. CASE count_entry
  BY <1>1 DEF count_entry, TypeOK
<1>2. CASE skip_deleted
  BY <1>2 DEF skip_deleted, TypeOK
<1>3. CASE end_of_entries \/ sector_missing \/ load_fails \/ nothing_found
  BY <1>3 DEF end_of_entries, sector_missing, load_fails, nothing_found, TypeOK
<1>4. CASE get_root_dir
  <2>1. \A j \in 1 .. Capacity : disk[j - 1] \in Entries
    BY ChainAssumption DEF TypeOK
  <2>2. entries' = [j \in 1 .. Capacity |-> disk[j - 1]]
    BY <1>4 DEF get_root_dir
  <2>3. entries' \in Seq(Entries) /\ Len(entries') = Capacity
    BY <2>1, <2>2
  <2> QED
    BY <1>4, <2>3, ChainAssumption DEF get_root_dir, TypeOK
<1>5. CASE load_fat16_directory
  <2>1. PICK second \in [Capacity + 1 .. cnt -> Entries] :
          entries' = [j \in 1 .. cnt |-> IF j <= Capacity THEN disk[j - 1] ELSE second[j]]
    BY <1>5 DEF load_fat16_directory
  <2>2. cnt \in Nat /\ cnt <= DiskEntries
    BY DEF TypeOK
  <2>3. \A j \in 1 .. cnt : (IF j <= Capacity THEN disk[j - 1] ELSE second[j]) \in Entries
    BY <2>2, ChainAssumption DEF TypeOK
  <2>4. entries' \in Seq(Entries) /\ Len(entries') = cnt
    BY <2>1, <2>2, <2>3
  <2> QED
    BY <1>5, <2>2, <2>4 DEF load_fat16_directory, TypeOK
<1>6. CASE next_entry
  BY <1>6 DEF next_entry, TypeOK
<1>7. CASE item_found
  BY <1>7 DEF item_found, TypeOK
<1>8. ASSUME NEW s \in Parts, NEW bytes \in [Len(s) + 1 .. n + 1 -> Bytes], find_item(s, bytes)
      PROVE  TypeOK'
  <2>1. bytes \in UNION {[Len(p) + 1 .. n + 1 -> Bytes] : p \in Parts}
    OBVIOUS
  <2>2. /\ part' = s /\ stale' = bytes /\ i' = 0 /\ found' = -1 /\ pc' = "find_item"
        /\ UNCHANGED <<root, disk, at, cnt, entries>>
    BY <1>8 DEF find_item, find_item_from
  <2>3. cnt \in Nat
    BY DEF TypeOK
  <2> HIDE DEF PC
  <2>4. pc' \in PC
    BY <2>2 DEF PC
  <2> QED
    BY <2>1, <2>2, <2>3, <2>4 DEF TypeOK
<1>9. CASE Stopped \/ UNCHANGED vars
  BY <1>9 DEF Stopped, vars, TypeOK
<1> QED
  BY <1>1, <1>2, <1>3, <1>4, <1>5, <1>6, <1>7, <1>8, <1>9 DEF Next, DirectoryStep

-----------------------------------------------------------------------------
(* Counting and loading.                                                   *)

LEMMA DeletedFinite ==
  ASSUME NEW m \in Nat
  PROVE  IsFiniteSet(DeletedBefore(m)) /\ Cardinality(DeletedBefore(m)) \in Nat
<1>1. IsFiniteSet(0 .. m - 1) /\ DeletedBefore(m) \subseteq 0 .. m - 1
  BY FS_Interval DEF DeletedBefore
<1> QED
  BY <1>1, FS_Subset, FS_CardinalityType

LEMMA DeletedNext ==
  ASSUME NEW m \in Nat
  PROVE  Cardinality(DeletedBefore(m + 1)) =
           Cardinality(DeletedBefore(m)) + (IF is_deleted(disk[m]) THEN 1 ELSE 0)
<1>1. CASE is_deleted(disk[m])
  <2>1. DeletedBefore(m + 1) = DeletedBefore(m) \cup {m} /\ m \notin DeletedBefore(m)
    BY <1>1 DEF DeletedBefore
  <2> QED
    BY <1>1, <2>1, DeletedFinite, FS_AddElement
<1>2. CASE ~is_deleted(disk[m])
  <2>1. DeletedBefore(m + 1) = DeletedBefore(m)
    BY <1>2 DEF DeletedBefore
  <2> QED
    BY <1>2, <2>1, DeletedFinite
<1> QED
  BY <1>1, <1>2

LEMMA CountStep ==
  ASSUME TypeOK, CountInv, [Next]_vars
  PROVE  CountInv'
<1> USE DEF onDisk, search
<1>1. at \in Nat /\ cnt \in Nat /\ Cardinality(DeletedBefore(at)) \in Nat
  BY ConstantsType, DeletedFinite DEF TypeOK
<1>2. UNCHANGED disk
  BY DEF Next, DirectoryStep, count_entry, skip_deleted, end_of_entries, sector_missing,
         get_root_dir, load_fat16_directory, load_fails, next_entry, item_found, nothing_found,
         find_item, find_item_from, Stopped, vars
<1>3. \A m : DeletedBefore(m)' = {j \in 0 .. m - 1 : is_deleted(disk[j])}
  BY <1>2 DEF DeletedBefore, is_deleted, is_end
<1>4. CASE count_entry \/ skip_deleted
  <2>1. /\ ~is_end(disk[at]) /\ at' = at + 1 /\ pc = "get_total_entries" /\ UNCHANGED pc
        /\ cnt' = cnt + (IF is_deleted(disk[at]) THEN 0 ELSE 1)
    BY <1>1, <1>4 DEF count_entry, skip_deleted, is_deleted
  <2>2. cnt' = at' - Cardinality(DeletedBefore(at + 1))
    BY <1>1, <2>1, DeletedNext DEF CountInv
  <2>3. DeletedBefore(at)' = DeletedBefore(at + 1)
    BY <1>2, <2>1 DEF DeletedBefore, is_deleted, is_end
  <2>4. (\A j \in 0 .. at - 1 : ~is_end(disk[j]))'
    BY <1>1, <1>2, <2>1 DEF CountInv, is_end
  <2> QED
    BY <2>1, <2>2, <2>3, <2>4 DEF CountInv
<1>5. CASE ~(count_entry \/ skip_deleted)
  <2>1. /\ UNCHANGED <<at, cnt>>
        /\ \/ end_of_entries
           \/ pc' \in {"get_total_entries", "waiting"}
           \/ pc \notin {"get_total_entries", "waiting"}
    BY <1>5 DEF Next, DirectoryStep, end_of_entries, sector_missing,
         get_root_dir, load_fat16_directory, load_fails, next_entry, item_found, nothing_found,
         find_item, find_item_from, Stopped, vars
  <2>2. DeletedBefore(at)' = DeletedBefore(at)
    BY <1>2, <2>1 DEF DeletedBefore, is_deleted, is_end
  <2> QED
    BY <1>2, <2>1, <2>2 DEF CountInv, end_of_entries, is_end
<1> QED
  BY <1>4, <1>5

LEMMA LoadStep ==
  ASSUME TypeOK, LoadInv, [Next]_vars
  PROVE  LoadInv'
<1> USE ConstantsType DEF onDisk, search
<1>1. CASE end_of_entries
  BY <1>1 DEF end_of_entries, LoadInv
<1>2. CASE get_root_dir
  BY <1>2 DEF get_root_dir, LoadInv
<1>3. CASE load_fat16_directory
  <2>1. PICK second \in [Capacity + 1 .. cnt -> Entries] :
          entries' = [j \in 1 .. cnt |-> IF j <= Capacity THEN disk[j - 1] ELSE second[j]]
    BY <1>3 DEF load_fat16_directory
  <2>2. cnt \in Nat
    BY DEF TypeOK
  <2>3. Len(entries') = cnt
    BY <2>1, <2>2
  <2> QED
    BY <1>3, <2>1, <2>2, <2>3 DEF load_fat16_directory, LoadInv
<1>4. CASE ~(end_of_entries \/ get_root_dir \/ load_fat16_directory)
  <2>1. /\ UNCHANGED <<root, disk, entries>>
        /\ pc' \in {"loaded", "find_item"} => pc \in {"loaded", "find_item"} /\ UNCHANGED cnt
        /\ pc' \in {"get_root_dir", "load_fat16_directory"} => UNCHANGED pc
    BY <1>4 DEF Next, DirectoryStep, count_entry, skip_deleted, sector_missing, load_fails,
         next_entry, item_found, nothing_found, find_item, find_item_from, Stopped, vars
  <2> QED
    BY <2>1 DEF LoadInv
<1> QED
  BY <1>1, <1>2, <1>3, <1>4

-----------------------------------------------------------------------------
(* Searching.                                                              *)

LEMMA SearchStep ==
  ASSUME IInv, [Next]_vars
  PROVE  SearchInv'
<1> USE DEF IInv, onDisk, search, Answered
<1>1. i \in Nat /\ cnt \in Nat /\ i <= cnt /\ Len(entries) \in Nat
  BY ConstantsType DEF TypeOK
<1>2. CASE count_entry \/ skip_deleted \/ end_of_entries \/ sector_missing \/ load_fails
  BY <1>2 DEF count_entry, skip_deleted, end_of_entries, sector_missing, load_fails, SearchInv
<1>3. CASE get_root_dir \/ load_fat16_directory
  BY <1>3 DEF get_root_dir, load_fat16_directory, SearchInv
<1>4. CASE next_entry
  <2>1. /\ pc = "find_item" /\ i < cnt /\ i' = i + 1
        /\ UNCHANGED <<pc, cnt, entries, part, stale, found>>
    BY <1>4 DEF next_entry
  <2>2. i < Len(entries) => ~same_name(entries[i + 1])
    BY <1>4 DEF next_entry, entry_at
  <2>3. \A j \in 0 .. i : j < Len(entries) => ~same_name(entries[j + 1])
    BY <1>1, <2>1, <2>2 DEF SearchInv, NoneBefore
  <2>4. (\A j \in 0 .. i - 1 : j < Len(entries) => ~same_name(entries[j + 1]))'
    <3>1. i' - 1 = i
      BY <1>1, <2>1
    <3>2. \A e : same_name(e)' <=> same_name(e)
      BY <2>1 DEF same_name, same_until, part_byte, name_byte
    <3> QED
      BY <2>1, <2>3, <3>1, <3>2
  <2>5. NoneBefore(i)'
    BY <2>4 DEF NoneBefore
  <2> QED
    BY <2>1, <2>5 DEF SearchInv
<1>5. CASE item_found
  <2>1. /\ pc = "find_item" /\ i < cnt /\ found' = i /\ pc' = "loaded"
        /\ UNCHANGED <<cnt, entries, part, stale, i>>
    BY <1>5 DEF item_found
  <2>2. i < Len(entries) => same_name(entries[i + 1])
    BY <1>5 DEF item_found, entry_at
  <2>3. NoneBefore(i)
    BY <2>1 DEF SearchInv
  <2>4. NoneBefore(found)' /\ (found < Len(entries) => same_name(entries[found + 1]))'
    BY <2>1, <2>2, <2>3 DEF NoneBefore, same_name, same_until, part_byte, name_byte
  <2>5. found' # -1 /\ found' < cnt' /\ part' # <<>>
    BY <1>1, <2>1 DEF SearchInv
  <2> QED
    BY <2>1, <2>4, <2>5 DEF SearchInv
<1>6. CASE nothing_found
  <2>1. /\ pc = "find_item" /\ i = cnt /\ pc' = "loaded"
        /\ UNCHANGED <<cnt, entries, part, stale, i, found>>
    BY <1>1, <1>6 DEF nothing_found
  <2>2. part # <<>> /\ found = -1 /\ NoneBefore(i)
    BY <2>1 DEF SearchInv
  <2>3. NoneBefore(cnt)'
    BY <2>1, <2>2 DEF NoneBefore, same_name, same_until, part_byte, name_byte
  <2> QED
    BY <2>1, <2>2, <2>3 DEF SearchInv
<1>7. ASSUME NEW s \in Parts, NEW bytes \in [Len(s) + 1 .. n + 1 -> Bytes], find_item(s, bytes)
      PROVE  SearchInv'
  <2>1. pc' = "find_item" /\ part' = s /\ i' = 0 /\ found' = -1
    BY <1>7 DEF find_item, find_item_from
  <2>2. s # <<>>
    BY BytesAssumption
  <2>3. NoneBefore(i)'
    BY <2>1 DEF NoneBefore
  <2> QED
    BY <2>1, <2>2, <2>3 DEF SearchInv
<1>8. CASE Stopped \/ UNCHANGED vars
  BY <1>8 DEF Stopped, vars, SearchInv, NoneBefore, same_name, same_until, part_byte, name_byte
<1> QED
  BY <1>2, <1>3, <1>4, <1>5, <1>6, <1>7, <1>8 DEF Next, DirectoryStep

-----------------------------------------------------------------------------
(* What the invariant says of the disk.                                    *)

\* In a directory that has an empty entry, the entries passed by the count are
\* all that are in use.
LEMMA UsedAreCounted ==
  ASSUME TypeOK, CountInv, pc \in {"loaded", "find_item"}
  PROVE  /\ Used = 0 .. at - 1 /\ IsFiniteSet(Used) /\ Cardinality(Used) = at
         /\ DeletedOnes = DeletedBefore(at)
<1>1. at \in Nat /\ at < DiskEntries /\ is_end(disk[at])
  BY ConstantsType DEF TypeOK, CountInv
<1>2. \A j \in 0 .. at - 1 : ~is_end(disk[j])
  BY DEF CountInv
<1>3. Used = 0 .. at - 1
  BY <1>1, <1>2, ConstantsType DEF Used
<1>4. DeletedOnes = DeletedBefore(at)
  BY <1>3 DEF DeletedOnes, DeletedBefore
<1> QED
  BY <1>1, <1>3, <1>4, FS_Interval

\* In such a directory all entries counted are loaded.
LEMMA CountedAreLoaded ==
  ASSUME IInv, Terminated, pc \in {"loaded", "find_item"}
  PROVE  /\ cnt <= Len(entries) /\ at < Capacity
         /\ \A j \in 0 .. cnt - 1 : entries[j + 1] = disk[j]
<1>1. at < Capacity /\ at \in Nat /\ cnt \in Nat /\ cnt <= at
  BY UsedAreCounted, ConstantsType DEF IInv, TypeOK, Terminated
<1>2. Len(entries) = IF root THEN Capacity ELSE cnt
  BY DEF IInv, LoadInv
<1>3. cnt <= Len(entries)
  BY <1>1, <1>2, ConstantsType
<1>4. ASSUME NEW j \in 0 .. cnt - 1
      PROVE  entries[j + 1] = disk[j]
  <2>1. j + 1 \in 1 .. Len(entries) /\ j + 1 <= Capacity /\ (j + 1) - 1 = j
    BY <1>1, <1>2, <1>3, ConstantsType
  <2> QED
    BY <2>1 DEF IInv, LoadInv
<1> QED
  BY <1>1, <1>3, <1>4

LEMMA PartType ==
  ASSUME TypeOK, part # <<>>
  PROVE  part \in Seq(Bytes \ {NUL}) /\ part[1] # E5 /\ Len(part) \in Nat /\ Len(part) >= 1
<1>1. part \in Parts
  BY DEF TypeOK
<1>2. part \in Seq(Bytes \ {NUL}) /\ part[1] # E5
  BY <1>1, BytesAssumption
<1> QED
  BY <1>2

\* An entry is found for a part the lookup can tell from others only if it
\* bears its name, and then it is.
LEMMA FoundBears ==
  ASSUME TypeOK, CountInv, Answered, Distinct, NEW j \in Used
  PROVE  same_name(disk[j]) <=> disk[j].name = part
<1> DEFINE name == disk[j].name
<1>1. n \in Nat /\ part # <<>> /\ Len(part) \in Nat /\ Len(part) > n
  BY ConstantsType, PartType DEF Answered, Distinct
<1>2. \A k \in 1 .. n + 1 : part_byte(k) = part[k] /\ part[k] # NUL
  <2>1. part \in Seq(Bytes \ {NUL})
    BY <1>1, PartType
  <2> QED
    BY <1>1, <2>1 DEF part_byte
<1>3. name = part => same_name(disk[j])
  BY <1>1, <1>2 DEF same_name, same_until, name_byte, part_byte
<1>4. ASSUME same_name(disk[j])
      PROVE  name = part
  <2>1. \A k \in 1 .. n + 1 : name_byte(disk[j], k) = part[k]
    BY <1>2, <1>4 DEF same_name, same_until
  <2>2. disk[j] \in Entries /\ ~is_end(disk[j])
    BY DEF Used, TypeOK
  <2>3. CASE is_deleted(disk[j])
    <3>1. name = <<E5>>
      BY <2>2, <2>3, BytesAssumption DEF Entries, Live, Deleted, End, is_deleted, is_end
    <3>2. name_byte(disk[j], 1) = E5
      BY <3>1 DEF name_byte
    <3> QED
      BY <1>1, <2>1, <3>2, PartType
  <2>4. CASE ~is_deleted(disk[j])
    <3>1. name \in Names
      BY <2>2, <2>4 DEF Entries, Live, Deleted, End, is_deleted, is_end
    <3>2. name \in Seq(Bytes \ {NUL}) /\ Len(name) \in Nat
      BY <3>1, BytesAssumption
    <3>3. Len(name) >= n + 1
      <4>1. CASE Len(name) < n + 1
        <5>1. n + 1 \in 1 .. n + 1
          BY <1>1
        <5>2. name_byte(disk[j], n + 1) = NUL
          BY <1>1, <3>2, <4>1 DEF name_byte
        <5> QED
          BY <1>2, <2>1, <5>1, <5>2
      <4> QED
        BY <1>1, <3>2, <4>1
    <3>4. \A k \in 1 .. n + 1 : name[k] = part[k]
      BY <1>1, <2>1, <3>2, <3>3 DEF name_byte
    <3>5. Prefix(name) = SubSeq(name, 1, n + 1) /\ Prefix(part) = SubSeq(part, 1, n + 1)
      BY <1>1, <3>2, <3>3 DEF Prefix
    <3>6. SubSeq(name, 1, n + 1) = SubSeq(part, 1, n + 1)
      BY <1>1, <3>4
    <3> QED
      BY <3>5, <3>6 DEF Distinct
  <2> QED
    BY <2>3, <2>4
<1> QED
  BY <1>3, <1>4

-----------------------------------------------------------------------------
(* The theorems.                                                           *)

LEMMA InitIInv == Init => IInv
<1> SUFFICES ASSUME Init PROVE IInv
  OBVIOUS
<1>1. TypeOK
  BY ConstantsType DEF Init, TypeOK, PC
<1>2. DeletedBefore(0) = {} /\ Cardinality({}) = 0
  BY FS_EmptySet DEF DeletedBefore
<1>3. DeletedBefore(at) = {} /\ at = 0 /\ cnt = 0
  BY <1>2 DEF Init
<1>4. CountInv
  <2>1. Cardinality(DeletedBefore(at)) = 0 /\ 0 .. at - 1 = {}
    BY <1>2, <1>3
  <2>2. pc = "get_total_entries"
    BY DEF Init
  <2> QED
    BY <1>3, <2>1, <2>2 DEF CountInv
<1>5. LoadInv /\ SearchInv
  BY DEF Init, LoadInv, SearchInv, Answered
<1> QED
  BY <1>1, <1>4, <1>5 DEF IInv

\* The invariant IInv, for directories and names of every size.
THEOREM Invariance == Spec => []IInv
<1>1. IInv /\ [Next]_vars => IInv'
  BY TypeStep, CountStep, LoadStep, SearchStep DEF IInv
<1> QED
  BY InitIInv, <1>1, PTL DEF Spec

\* The type invariant.
THEOREM TypeCorrect == Spec => []TypeOK
<1>1. IInv => TypeOK
  BY DEF IInv
<1> QED
  BY Invariance, <1>1, PTL

\* What find_item_in_root_directory finds for a part that it can tell from the
\* other names of a terminated directory bears that name, and is the first to.
THEOREM FoundBearsTheName == Spec => []FoundIsTheOne
<1>1. IInv => FoundIsTheOne
  <2> SUFFICES ASSUME IInv, Answered, Terminated, Distinct, found # -1
               PROVE  /\ found \in Used /\ disk[found].name = part
                      /\ \A j \in Used : disk[j].name = part => found <= j
    BY DEF FoundIsTheOne
  <2>1. found \in Nat /\ found < cnt /\ cnt \in Nat /\ cnt <= at /\ at \in Nat
    BY ConstantsType DEF IInv, TypeOK, SearchInv
  <2>2. /\ cnt <= Len(entries) /\ Len(entries) \in Nat
        /\ \A j \in 0 .. cnt - 1 : entries[j + 1] = disk[j]
    BY CountedAreLoaded DEF Answered, IInv, TypeOK
  <2>3. found \in Used
    BY <2>1, UsedAreCounted DEF Answered, IInv
  <2>4. same_name(disk[found])
    BY <2>1, <2>2 DEF IInv, SearchInv
  <2>5. ASSUME NEW j \in Used, disk[j].name = part
        PROVE  found <= j
    <3>1. j \in Nat /\ same_name(disk[j])
      BY <2>5, FoundBears, UsedAreCounted DEF Answered, IInv
    <3>2. CASE j < found
      <4>1. j < Len(entries) /\ entries[j + 1] = disk[j] /\ j \in 0 .. found - 1
        BY <2>1, <2>2, <3>1, <3>2
      <4>2. ~same_name(entries[j + 1])
        BY <4>1 DEF IInv, SearchInv, NoneBefore
      <4> QED
        BY <3>1, <4>1, <4>2
    <3> QED
      BY <2>1, <3>1, <3>2
  <2> QED
    BY <2>3, <2>4, <2>5, FoundBears DEF IInv
<1> QED
  BY Invariance, <1>1, PTL

\* With d deleted entries in a terminated directory, a distinct part is missed
\* only if its name is among the last d entries.
THEOREM MissedBehindDeleted == Spec => []MissedOnlyBehindDeleted
<1>1. IInv => MissedOnlyBehindDeleted
  <2> SUFFICES ASSUME IInv, Answered, Terminated, Distinct, found = -1,
                      NEW j \in Used, disk[j].name = part
               PROVE  j >= Cardinality(Used) - Cardinality(DeletedOnes)
    BY DEF MissedOnlyBehindDeleted
  <2>1. cnt \in Nat /\ j \in Nat /\ cnt = Cardinality(Used) - Cardinality(DeletedOnes)
    BY ConstantsType, UsedAreCounted DEF Answered, IInv, TypeOK, CountInv
  <2>2. /\ cnt <= Len(entries) /\ Len(entries) \in Nat
        /\ \A k \in 0 .. cnt - 1 : entries[k + 1] = disk[k]
    <3>1. Len(entries) \in Nat
      BY DEF IInv, TypeOK
    <3> QED
      BY <3>1, CountedAreLoaded DEF Answered
  <2>3. same_name(disk[j])
    BY FoundBears DEF IInv
  <2>4. CASE j < cnt
    <3>1. j < Len(entries) /\ entries[j + 1] = disk[j] /\ j \in 0 .. cnt - 1
      BY <2>1, <2>2, <2>4
    <3>2. ~same_name(entries[j + 1])
      BY <3>1 DEF IInv, SearchInv, NoneBefore
    <3> QED
      BY <2>3, <3>1, <3>2
  <2> QED
    BY <2>1, <2>4
<1> QED
  BY Invariance, <1>1, PTL

\* The loop over dir->entries stays inside what get_root_dir or
\* load_fat16_directory has loaded, unless a root directory has no empty entry.
THEOREM SearchStaysInside == Spec => []SearchIsInside
<1>1. IInv => SearchIsInside
  <2> SUFFICES ASSUME IInv, pc = "find_item", i < cnt, ~(root /\ ~Terminated)
               PROVE  i < Len(entries)
    BY DEF SearchIsInside
  <2>1. i \in Nat /\ cnt \in Nat /\ Len(entries) \in Nat
    BY ConstantsType DEF IInv, TypeOK
  <2>2. CASE ~root
    BY <2>1, <2>2 DEF IInv, LoadInv
  <2>3. CASE Terminated
    BY <2>1, <2>3, CountedAreLoaded
  <2> QED
    BY <2>2, <2>3
<1> QED
  BY Invariance, <1>1, PTL
=============================================================================
