---------------------------- MODULE Fat16ReadProofs ----------------------------
(***************************************************************************)
(* Proofs about reading, for sectors and clusters of every size, every     *)
(* table, and calls with every size and number of records: the loops over  *)
(* records, parts and sectors together write no more than the caller's     *)
(* buffer holds, and what they write is the file, byte by byte; a read of  *)
(* what the file has is not refused.                                       *)
(***************************************************************************)
EXTENDS Fat16Read, SequenceTheorems, WellFoundedInduction, TLAPS

-----------------------------------------------------------------------------
(* The inductive invariant.                                                *)

\* What is still to be written of the record being read, once its bytes from
\* from on are counted in total.
ToCome ==
  IF pc = "get_cluster_for_offset" THEN total
  ELSE IF pc = "read_disk_stream" THEN left + (total - part)
  ELSE IF pc = "read_data_from_stream" THEN total - part
  ELSE 0

Started == IF pc \in {"get_cluster_for_offset", "read_disk_stream", "read_data_from_stream"}
           THEN i + 1 ELSE i

\* A part is of its record, and what is left of it of the part.
PartInv ==
  /\ pc = "read_disk_stream" => left <= part /\ part <= total
  /\ pc = "read_data_from_stream" => part <= total
  /\ pc \in {"get_cluster_for_offset", "read_disk_stream", "read_data_from_stream"} => i < nb

\* In the functions, the records read so far are exactly what was written.
WrittenInv ==
  /\ pc \in Functions => Len(out) + ToCome = Started * size
  /\ pc \in {"idle", "waiting"} => Len(out) <= size * nb

\* The offset of the next byte to be written to the caller's buffer.
NextByte == offset + Len(out)

\* Where the functions are: how the offset of the part and what is left of it lie
\* relative to the next byte.
PlaceInv ==
  /\ pc \in Functions => nb > 0 /\ size > 0 /\ at = offset + i * size
  /\ pc = "get_cluster_for_offset" => total > 0 /\ from = NextByte
  /\ pc = "read_disk_stream" =>
       /\ left > 0 /\ from + part = NextByte + left
       /\ part = minimum(total, cluster_size)
  /\ pc = "read_data_from_stream" =>
       /\ total > 0 /\ from + part = NextByte
       /\ part = minimum(total, cluster_size)

\* The call is for aligned records that the file's chain reaches to.
WithinFile == AllAligned /\ \A b \in 0 .. size * nb - 1 : HasByte(offset + b)

\* Then whatever is still to be read is aligned, the walk is at the cluster of
\* the file that is ahead clusters before the next byte's, and the stream is at
\* the next byte.
WalkInv ==
  WithinFile =>
    /\ pc \in {"get_cluster_for_offset", "read_disk_stream", "read_data_from_stream"} =>
         Aligned(from, total)
    /\ pc = "get_cluster_for_offset" =>
         ahead <= from \div cluster_size /\ cluster = Chain[from \div cluster_size - ahead]
    /\ pc = "read_disk_stream" =>
         /\ Aligned(NextByte, left)
         /\ cluster = Chain[NextByte \div cluster_size]
         /\ pos = cluster_to_sector(cluster) * SECTOR_SIZE + (NextByte % cluster_size)

IInv == TypeOK /\ PartInv /\ WrittenInv /\ PlaceInv /\ WalkInv /\ ReadIsExact

-----------------------------------------------------------------------------
(* Numbers.                                                                *)

LEMMA ProductNat ==
  ASSUME NEW a \in Nat, NEW b \in Nat
  PROVE  a * b \in Nat
BY SMT

LEMMA ProductMonotone ==
  ASSUME NEW a \in Nat, NEW b \in Nat, NEW c \in Nat, a <= b
  PROVE  a * c <= c * b
<1>1. (b - a) * c >= 0
  BY SMT
<1>2. (b - a) * c = b * c - a * c /\ b * c = c * b
  BY SMT
<1>3. a * c \in Nat /\ c * b \in Nat
  BY SMT
<1> QED
  BY <1>1, <1>2, <1>3, SMT

LEMMA NextProduct ==
  ASSUME NEW a \in Nat, NEW c \in Nat
  PROVE  (a + 1) * c = a * c + c
BY SMT

LEMMA ClusterSize == cluster_size \in Nat \ {0}
<1>1. \A a, b \in Nat \ {0} : a * b \in Nat \ {0}
  BY SMT
<1> QED
  BY <1>1, SizeAssumption DEF cluster_size

LEMMA Minimum ==
  ASSUME NEW a \in Nat, NEW b \in Nat
  PROVE  /\ minimum(a, b) \in Nat /\ minimum(a, b) <= a /\ minimum(a, b) <= b
         /\ a <= b => minimum(a, b) = a
BY DEF minimum

\* The bytes that one call of read_disk_stream copies.
LEMMA Copied ==
  ASSUME NEW n \in Nat, pos \in Nat
  PROVE  copied(n) \in Seq(Int) /\ Len(copied(n)) = n
<1> DEFINE f == [j \in 1 .. n |->
                   IF (pos % SECTOR_SIZE) + j - 1 < SECTOR_SIZE THEN pos + j - 1 ELSE Garbage]
<1>1. f \in [1 .. n -> Int]
  BY DEF Garbage
<1>2. f \in Seq(Int) /\ Len(f) = n
  <2> HIDE DEF f
  <2>1. DOMAIN f = 1 .. n
    BY <1>1
  <2> QED
    BY <1>1, <2>1
<1> QED
  BY <1>2 DEF copied

\* Division with remainder has one result.
LEMMA Division ==
  ASSUME NEW a \in Nat, NEW m \in Nat \ {0}
  PROVE  /\ a \div m \in Nat /\ a % m \in Nat /\ a % m < m
         /\ a = (a \div m) * m + (a % m)
BY SMT

LEMMA DivisionUnique ==
  ASSUME NEW m \in Nat \ {0}, NEW q \in Nat, NEW r \in Nat, r < m
  PROVE  (q * m + r) \div m = q /\ (q * m + r) % m = r
<1> DEFINE a == q * m + r
           p == a \div m
           s == a % m
<1>1. a \in Nat
  BY SMT
<1>2. p \in Nat /\ s \in Nat /\ s < m /\ a = p * m + s
  <2> HIDE DEF a
  <2> QED
    BY <1>1, Division
<1>3. q * m + r = p * m + s
  BY <1>2
<1> HIDE DEF a, p, s
<1>4. ~(p < q)
  <2> SUFFICES ASSUME p < q PROVE FALSE
    OBVIOUS
  <2>1. (q - p - 1) * m >= 0
    BY <1>2, SMT
  <2>2. (q - p - 1) * m = q * m - p * m - m
    BY <1>2, SMT
  <2>3. q * m \in Nat /\ p * m \in Nat
    BY <1>2, SMT
  <2> QED
    BY <1>2, <1>3, <2>1, <2>2, <2>3
<1>5. ~(q < p)
  <2> SUFFICES ASSUME q < p PROVE FALSE
    OBVIOUS
  <2>1. (p - q - 1) * m >= 0
    BY <1>2, SMT
  <2>2. (p - q - 1) * m = p * m - q * m - m
    BY <1>2, SMT
  <2>3. q * m \in Nat /\ p * m \in Nat
    BY <1>2, SMT
  <2> QED
    BY <1>2, <1>3, <2>1, <2>2, <2>3
<1>6. p = q
  BY <1>2, <1>4, <1>5
<1>7. s = r
  <2>1. q * m \in Nat
    BY SMT
  <2> QED
    BY <1>2, <1>3, <1>6, <2>1
<1> QED
  BY <1>6, <1>7 DEF p, s, a

\* Within a block of m the quotient stays, and the remainder counts.
LEMMA SameBlock ==
  ASSUME NEW a \in Nat, NEW m \in Nat \ {0}, NEW d \in Nat, (a % m) + d < m
  PROVE  (a + d) \div m = a \div m /\ (a + d) % m = (a % m) + d
<1> DEFINE q == a \div m
           r == a % m
<1>1. q \in Nat /\ r \in Nat /\ a = q * m + r
  BY Division
<1>2. r + d \in Nat /\ r + d < m
  BY <1>1
<1> HIDE DEF q, r
<1>3. (q * m + (r + d)) \div m = q /\ (q * m + (r + d)) % m = r + d
  BY <1>1, <1>2, DivisionUnique
<1>4. q * m + (r + d) = a + d
  <2>1. q * m \in Nat
    BY <1>1, SMT
  <2> QED
    BY <1>1, <2>1
<1> QED
  BY <1>3, <1>4 DEF q, r

LEMMA NextBlock ==
  ASSUME NEW a \in Nat, NEW m \in Nat \ {0}, a % m = 0
  PROVE  (a + m) % m = 0
<1> DEFINE q == a \div m
<1>1. q \in Nat /\ a = q * m
  BY Division
<1> HIDE DEF q
<1>2. (q + 1) * m = a + m
  BY <1>1, SMT
<1>3. ((q + 1) * m + 0) % m = 0
  BY <1>1, DivisionUnique
<1>4. (q + 1) * m \in Nat /\ (q + 1) * m + 0 = (q + 1) * m
  BY <1>1, SMT
<1> QED
  BY <1>2, <1>3, <1>4

LEMMA Remainder ==
  ASSUME NEW a \in Nat, NEW m \in Nat \ {0}, NEW b \in Nat
  PROVE  (a * m + b) % m = b % m
<1> DEFINE q == b \div m
           r == b % m
<1>1. q \in Nat /\ r \in Nat /\ r < m /\ b = q * m + r
  BY Division
<1> HIDE DEF q, r
<1>2. a + q \in Nat
  BY <1>1
<1>3. ((a + q) * m + r) % m = r
  BY <1>1, <1>2, DivisionUnique
<1>4. (a + q) * m = a * m + q * m
  BY <1>1, SMT
<1>5. a * m \in Nat /\ q * m \in Nat
  BY <1>1, SMT
<1>6. (a + q) * m + r = a * m + b
  BY <1>1, <1>4, <1>5
<1> QED
  BY <1>3, <1>6 DEF r

-----------------------------------------------------------------------------
(* Induction, and a function defined by recursion.                         *)

\* A non-empty set of numbers has a least one, and induction follows.
LEMMA Least ==
  ASSUME NEW T, T \subseteq Nat, T # {}
  PROVE  \E x \in T : \A y \in T : ~(y < x)
<1> DEFINE R == OpToRel(<, Nat)
<1>1. IsWellFoundedOn(R, Nat)
  BY NatLessThanWellFounded
<1>2. \A x, y \in Nat : y < x => <<y, x>> \in R
  BY DEF OpToRel
<1> HIDE DEF R
<1>3. \E x \in T : \A y \in T : ~ (<<y, x>> \in R)
  BY <1>1, WFMin
<1> QED
  BY <1>2, <1>3

LEMMA Induction ==
  ASSUME NEW S, 0 \in S, \A n \in Nat : n \in S => n + 1 \in S
  PROVE  Nat \subseteq S
<1> DEFINE T == {n \in Nat : n \notin S}
<1>1. CASE T = {}
  BY <1>1
<1>2. CASE T # {}
  <2>1. PICK x \in T : \A y \in T : ~(y < x)
    BY <1>2, Least
  <2>2. x # 0 /\ x - 1 \in Nat
    BY <2>1
  <2>3. x - 1 \notin T
    BY <2>1, <2>2
  <2> QED
    BY <2>1, <2>2, <2>3
<1> QED
  BY <1>1, <1>2

\* f goes from a along g, up to n.
Along(f, a, g, n) == f[0] = a /\ \A k \in 0 .. n - 1 : f[k + 1] = g[f[k]]

LEMMA AlongUnique ==
  ASSUME NEW a, NEW g, NEW n \in Nat, NEW m \in Nat, NEW f, NEW h,
         Along(f, a, g, n), Along(h, a, g, m)
  PROVE  \A k \in Nat : k <= n /\ k <= m => f[k] = h[k]
<1> DEFINE S == {k \in Nat : k <= n /\ k <= m => f[k] = h[k]}
<1>1. 0 \in S
  BY DEF Along
<1>2. \A k \in Nat : k \in S => k + 1 \in S
  <2> SUFFICES ASSUME NEW k \in Nat, k \in S, k + 1 <= n, k + 1 <= m
               PROVE  f[k + 1] = h[k + 1]
    OBVIOUS
  <2>1. f[k] = h[k] /\ k \in 0 .. n - 1 /\ k \in 0 .. m - 1
    OBVIOUS
  <2> QED
    BY <2>1 DEF Along
<1>3. Nat \subseteq S
  <2> HIDE DEF S
  <2> QED
    BY <1>1, <1>2, Induction
<1> QED
  BY <1>3

LEMMA AlongExists ==
  ASSUME NEW X, NEW a \in X, NEW g \in [X -> X]
  PROVE  \A n \in Nat : \E f \in [Nat -> X] : Along(f, a, g, n)
<1> DEFINE S == {n \in Nat : \E f \in [Nat -> X] : Along(f, a, g, n)}
<1>1. 0 \in S
  <2> DEFINE f == [k \in Nat |-> a]
  <2>1. f \in [Nat -> X] /\ Along(f, a, g, 0)
    BY DEF Along
  <2> QED
    BY <2>1
<1>2. \A n \in Nat : n \in S => n + 1 \in S
  <2> SUFFICES ASSUME NEW n \in Nat, n \in S
               PROVE  n + 1 \in S
    OBVIOUS
  <2>1. PICK f \in [Nat -> X] : Along(f, a, g, n)
    OBVIOUS
  <2> DEFINE h == [f EXCEPT ![n + 1] = g[f[n]]]
  <2>2. h \in [Nat -> X]
    BY <2>1
  <2>3. h[0] = a /\ \A k \in 0 .. n : h[k + 1] = g[h[k]]
    BY <2>1 DEF Along
  <2>4. Along(h, a, g, n + 1)
    BY <2>3 DEF Along
  <2> HIDE DEF h
  <2> QED
    BY <2>2, <2>4
<1>3. Nat \subseteq S
  <2> HIDE DEF S
  <2> QED
    BY <1>1, <1>2, Induction
<1> QED
  BY <1>3

\* f repeats g from a on.
Recurs(f, X, a, g) == f \in [Nat -> X] /\ f[0] = a /\ \A n \in Nat : f[n + 1] = g[f[n]]

LEMMA Recursion ==
  ASSUME NEW X, NEW a \in X, NEW g \in [X -> X]
  PROVE  \E f : Recurs(f, X, a, g)
<1> DEFINE upTo(n) == CHOOSE f \in [Nat -> X] : Along(f, a, g, n)
           f == [n \in Nat |-> upTo(n)[n]]
<1>1. \A n \in Nat : upTo(n) \in [Nat -> X] /\ Along(upTo(n), a, g, n)
  BY AlongExists
<1> HIDE DEF upTo
<1>2. f \in [Nat -> X]
  BY <1>1
<1>3. f[0] = a
  BY <1>1 DEF Along
<1>4. ASSUME NEW n \in Nat
      PROVE  f[n + 1] = g[f[n]]
  <2>1. upTo(n + 1)[n] = upTo(n)[n]
    BY <1>1, AlongUnique
  <2>2. upTo(n + 1)[n + 1] = g[upTo(n + 1)[n]]
    BY <1>1 DEF Along
  <2> QED
    BY <2>1, <2>2
<1> QED
  BY <1>2, <1>3, <1>4 DEF Recurs

\* The recursive definition of Chain has a solution, so Chain is one.
LEMMA ChainDef ==
  \A n \in Nat :
    Chain[n] = IF n = 0 THEN FirstCluster
               ELSE IF Chain[n - 1] \in Clusters /\ fat[Chain[n - 1]] \in Clusters
                    THEN fat[Chain[n - 1]] ELSE 0
<1> DEFINE X == Clusters \cup {0}
           g == [c \in X |-> IF c \in Clusters /\ fat[c] \in Clusters THEN fat[c] ELSE 0]
           E(f) == [n \in Nat |-> IF n = 0 THEN FirstCluster
                    ELSE IF f[n - 1] \in Clusters /\ fat[f[n - 1]] \in Clusters
                         THEN fat[f[n - 1]] ELSE 0]
<1>1. g \in [X -> X] /\ FirstCluster \in X
  BY DiskAssumption DEF Clusters
<1>2. PICK f : Recurs(f, X, FirstCluster, g)
  <2> HIDE DEF X, g, E
  <2> QED
    BY <1>1, Recursion
<1>3. \A n \in Nat : f[n] = E(f)[n]
  <2> SUFFICES ASSUME NEW n \in Nat, n # 0
               PROVE  f[n] = E(f)[n]
    BY <1>2 DEF Recurs
  <2>1. n - 1 \in Nat /\ (n - 1) + 1 = n
    OBVIOUS
  <2>2. f[n] = g[f[n - 1]] /\ f[n - 1] \in X
    BY <1>2, <2>1 DEF Recurs
  <2> QED
    BY <2>2
<1>4. f = E(f)
  <2> HIDE DEF X
  <2> QED
    BY <1>2, <1>3 DEF Recurs
<1>5. Chain = CHOOSE h : h = E(h)
  BY DEF Chain
<1>6. Chain = E(Chain)
  <2> HIDE DEF E
  <2> QED
    BY <1>4, <1>5
<1> QED
  BY <1>6

-----------------------------------------------------------------------------
(* Type correctness.                                                       *)

\* read_data_from_stream's head.
LEMMA ReadType ==
  ASSUME NEW o \in Nat, NEW t \in Nat, Read(o, t)
  PROVE  /\ pc' = "get_cluster_for_offset" /\ from' = o /\ total' = t
         /\ from' \in Nat /\ total' \in Nat /\ ahead' \in Nat
         /\ cluster' \in Clusters \cup {FAT16End}
BY ClusterSize, Division, DiskAssumption DEF Read, Clusters

LEMMA EntryType ==
  ASSUME TypeOK, NEW entry \in get_entry(cluster),
         entry \notin EndMarks \cup ReservedMarks \cup {FreeMark}
  PROVE  entry \in Clusters \cup {FAT16End}
<1>1. entry \in Entries
  BY DEF get_entry, TypeOK
<1> QED
  BY <1>1 DEF Entries, EndMarks, ReservedMarks

LEMMA PositionType ==
  ASSUME NEW c \in Clusters \cup {FAT16End}, NEW o \in Nat
  PROVE  cluster_to_sector(c) * SECTOR_SIZE + (o % cluster_size) \in Nat
<1>1. c - 2 \in Nat
  BY DiskAssumption DEF Clusters, FAT16End
<1>2. (c - 2) * sectors_per_cluster \in Nat
  BY <1>1, SizeAssumption, ProductNat
<1>3. cluster_to_sector(c) \in Nat
  BY <1>2, DiskAssumption DEF cluster_to_sector
<1>4. cluster_to_sector(c) * SECTOR_SIZE \in Nat
  BY <1>3, SizeAssumption, ProductNat
<1>5. o % cluster_size \in Nat
  BY ClusterSize, Division
<1> QED
  BY <1>4, <1>5

LEMMA CallTypes ==
  ASSUME TypeOK
  PROVE  /\ size \in Nat /\ nb \in Nat /\ i \in Nat /\ at \in Nat
         /\ total \in Nat /\ part \in Nat /\ left \in Nat /\ pos \in Nat
         /\ Len(out) \in Nat
<1>1. size \in Sizes \cup {0} /\ nb \in 0 .. MaxRecords /\ i \in 0 .. nb
  BY DEF TypeOK
<1>2. Sizes \subseteq Nat /\ MaxRecords \in Nat
  BY CallAssumption
<1>3. size \in Nat
  BY <1>1, <1>2
<1>4. nb \in Nat
  BY <1>1, <1>2
<1>5. i \in Nat
  BY <1>1, <1>4
<1>6. at \in Nat /\ total \in Nat /\ part \in Nat /\ left \in Nat /\ pos \in Nat
  BY DEF TypeOK
<1>7. out \in Seq(Int)
  BY DEF TypeOK
<1>8. Len(out) \in Nat
  BY <1>7, LenProperties
<1> QED
  BY <1>3, <1>4, <1>5, <1>6, <1>8

LEMMA TypeStep ==
  ASSUME TypeOK, PartInv, [Next]_vars
  PROVE  TypeOK'
<1> USE DEF record, walk, stream, Functions
<1>1. ASSUME NEW s \in Sizes, NEW n \in 1 .. MaxRecords, fread(s, n)
      PROVE  TypeOK'
  <2>1. <<>> \in Seq(Int) /\ n \in 0 .. MaxRecords /\ 0 \in 0 .. n
    BY CallAssumption
  <2> QED
    BY <1>1, <2>1 DEF fread, TypeOK
<1>2. CASE read_record
  <2>1. Read(at, size)
    BY <1>2 DEF read_record
  <2>2. at \in Nat /\ size \in Nat
    BY CallTypes
  <2>3. /\ pc' = "get_cluster_for_offset"
        /\ from' \in Nat /\ total' \in Nat /\ ahead' \in Nat
        /\ cluster' \in Clusters \cup {FAT16End}
    BY <2>1, <2>2, ReadType
  <2> QED
    BY <1>2, <2>3 DEF read_record, TypeOK
<1>3. CASE read_done \/ chain_ends
  <2>1. 0 \in 0 .. MaxRecords
    BY CallAssumption
  <2> QED
    BY <1>3, <2>1 DEF read_done, chain_ends, Return, TypeOK
<1>4. CASE next_cluster
  <2>1. cluster' \in Clusters \cup {FAT16End}
    BY <1>4, EntryType DEF next_cluster
  <2>2. ahead' \in Nat
    BY <1>4 DEF next_cluster, TypeOK
  <2> QED
    BY <1>4, <2>1, <2>2 DEF next_cluster, TypeOK
<1>5. CASE seek_cluster
  <2>1. pos' \in Nat
    BY <1>5, PositionType DEF seek_cluster, TypeOK
  <2>2. part' \in Nat /\ left' \in Nat
    BY <1>5, Minimum, ClusterSize DEF seek_cluster, TypeOK
  <2> QED
    BY <1>5, <2>1, <2>2 DEF seek_cluster, TypeOK
<1>6. CASE read_sector
  <2> DEFINE n == minimum(left, SECTOR_SIZE)
  <2>1. left \in Nat /\ pos \in Nat /\ n \in Nat /\ n <= left
    BY Minimum, SizeAssumption DEF TypeOK
  <2>2. out' = out \o copied(n) /\ pos' = pos + n /\ left' = left - n
    BY <1>6 DEF read_sector
  <2>3. out' \in Seq(Int)
    BY <2>1, <2>2, Copied, ConcatProperties DEF TypeOK
  <2>4. pos' \in Nat /\ left' \in Nat
    <3> HIDE DEF n
    <3> QED
      BY <2>1, <2>2
  <2> QED
    BY <1>6, <2>3, <2>4 DEF read_sector, TypeOK
<1>7. CASE sector_missing
  BY <1>7 DEF sector_missing, TypeOK
<1>8. CASE next_part
  <2>1. Read(from + part, total - part) /\ from + part \in Nat /\ total - part \in Nat
    BY <1>8 DEF next_part, TypeOK
  <2>2. /\ pc' = "get_cluster_for_offset"
        /\ from' \in Nat /\ total' \in Nat /\ ahead' \in Nat
        /\ cluster' \in Clusters \cup {FAT16End}
    BY <2>1, ReadType
  <2> QED
    BY <1>8, <2>2 DEF next_part, TypeOK
<1>9. CASE record_done
  <2>1. i' \in 0 .. nb /\ at' \in Nat
    BY <1>9, CallAssumption DEF record_done, TypeOK, PartInv
  <2> QED
    BY <1>9, <2>1 DEF record_done, TypeOK
<1>10. CASE Waiting \/ UNCHANGED vars
  BY <1>10 DEF Waiting, vars, TypeOK
<1> QED
  BY <1>1, <1>2, <1>3, <1>4, <1>5, <1>6, <1>7, <1>8, <1>9, <1>10 DEF Next, ReadStep

-----------------------------------------------------------------------------
(* The buffer.                                                             *)

\* The records started are no more than were asked for: what is written, and
\* what is to come of the record, are within the call.
LEMMA CallBound ==
  ASSUME TypeOK, PartInv, WrittenInv, pc \in Functions
  PROVE  ToCome \in Nat /\ Len(out) + ToCome <= size * nb
<1>1. Len(out) \in Nat /\ size \in Nat /\ nb \in Nat /\ i \in Nat
  BY CallTypes
<1>2. ToCome \in Nat
  BY DEF ToCome, TypeOK, PartInv
<1>3. Started \in Nat /\ Started <= nb
  BY <1>1 DEF Started, TypeOK, PartInv
<1>4. Started * size \in Nat /\ Started * size <= size * nb /\ size * nb \in Nat
  BY <1>1, <1>3, ProductNat, ProductMonotone
<1> QED
  BY <1>1, <1>2, <1>4 DEF WrittenInv

LEMMA WithinCall ==
  ASSUME TypeOK, PartInv, WrittenInv, pc \in Functions
  PROVE  Len(out) <= size * nb
<1>1. Len(out) \in Nat /\ size * nb \in Nat
  BY CallTypes, ProductNat
<1> QED
  BY <1>1, CallBound

LEMMA BufferStep ==
  ASSUME IInv, [Next]_vars, TypeOK'
  PROVE  PartInv' /\ WrittenInv'
<1> USE DEF IInv, record, walk, stream, Functions
<1>1. Len(out) \in Nat /\ size \in Nat /\ nb \in Nat /\ i \in Nat /\ total \in Nat /\ part \in Nat
      /\ left \in Nat
  BY CallTypes
<1>2. pc \in Functions => Len(out) <= size * nb
  BY WithinCall
<1>3. ASSUME NEW s \in Sizes, NEW n \in 1 .. MaxRecords, fread(s, n)
      PROVE  PartInv' /\ WrittenInv'
  <2>1. s \in Nat /\ 0 * s = 0 /\ Len(<<>>) = 0
    BY CallAssumption
  <2> QED
    BY <1>3, <2>1 DEF fread, PartInv, WrittenInv, ToCome, Started
<1>4. CASE read_record
  <2>1. /\ pc = "fat16_read_file" /\ i < nb /\ pc' = "get_cluster_for_offset" /\ total' = size
        /\ UNCHANGED <<size, nb, i, out>>
    BY <1>4 DEF read_record, Read
  <2>2. Len(out) + 0 = i * size
    BY <2>1 DEF WrittenInv, ToCome, Started
  <2>3. (i + 1) * size = i * size + size
    BY <1>1, NextProduct
  <2>4. Len(out) + size = (i + 1) * size
    BY <1>1, <2>2, <2>3, ProductNat
  <2> QED
    BY <2>1, <2>4 DEF PartInv, WrittenInv, ToCome, Started
<1>5. CASE read_done \/ chain_ends \/ sector_missing
  <2>1. pc \in Functions /\ pc' \in {"idle", "waiting"} /\ UNCHANGED <<size, nb, out>>
    BY <1>5 DEF read_done, chain_ends, sector_missing, Return
  <2> QED
    BY <1>2, <2>1 DEF PartInv, WrittenInv
<1>6. CASE next_cluster
  BY <1>6 DEF next_cluster, PartInv, WrittenInv, ToCome, Started
<1>7. CASE seek_cluster
  <2>1. /\ pc = "get_cluster_for_offset" /\ pc' = "read_disk_stream"
        /\ part' = minimum(total, cluster_size) /\ left' = part'
        /\ UNCHANGED <<size, nb, i, total, out>>
    BY <1>7 DEF seek_cluster
  <2>2. part' \in Nat /\ part' <= total
    BY <1>1, <2>1, Minimum, ClusterSize
  <2>3. Len(out) + total = (i + 1) * size /\ i < nb
    BY <2>1 DEF WrittenInv, PartInv, ToCome, Started
  <2>4. left' + (total - part') = total
    BY <1>1, <2>1, <2>2
  <2> QED
    BY <1>1, <2>1, <2>2, <2>3, <2>4 DEF PartInv, WrittenInv, ToCome, Started
<1>8. CASE read_sector
  <2> DEFINE n == minimum(left, SECTOR_SIZE)
  <2>1. /\ pc = "read_disk_stream"
        /\ out' = out \o copied(n) /\ left' = left - n
        /\ pc' = IF left > SECTOR_SIZE THEN pc ELSE "read_data_from_stream"
        /\ UNCHANGED <<size, nb, i, total, part>>
    BY <1>8 DEF read_sector
  <2>2. n \in Nat /\ n <= left /\ (left <= SECTOR_SIZE => n = left)
    BY <1>1, Minimum, SizeAssumption
  <2>3. Len(out') = Len(out) + n
    <3>1. out \in Seq(Int)
      BY DEF TypeOK
    <3>2. copied(n) \in Seq(Int) /\ Len(copied(n)) = n
      BY <2>2, CallTypes, Copied
    <3> QED
      BY <2>1, <3>1, <3>2, ConcatProperties
  <2>4. /\ left <= part /\ part <= total /\ i < nb
        /\ Len(out) + (left + (total - part)) = (i + 1) * size
    BY <2>1 DEF PartInv, WrittenInv, ToCome, Started
  <2> HIDE DEF n
  <2>5. CASE left > SECTOR_SIZE
    <3>1. Len(out') + (left' + (total - part)) = (i + 1) * size /\ left' <= part
      BY <1>1, <2>1, <2>2, <2>3, <2>4
    <3> QED
      BY <2>1, <2>4, <2>5, <3>1 DEF PartInv, WrittenInv, ToCome, Started
  <2>6. CASE ~(left > SECTOR_SIZE)
    <3>1. n = left
      BY <1>1, <2>2, <2>6, SizeAssumption
    <3>2. Len(out') + (total - part) = (i + 1) * size
      BY <1>1, <2>3, <2>4, <3>1
    <3> QED
      BY <2>1, <2>4, <2>6, <3>2 DEF PartInv, WrittenInv, ToCome, Started
  <2> QED
    BY <2>5, <2>6
<1>9. CASE next_part
  <2>1. /\ pc = "read_data_from_stream" /\ pc' = "get_cluster_for_offset" /\ total' = total - part
        /\ UNCHANGED <<size, nb, i, out>>
    BY <1>9 DEF next_part, Read
  <2> QED
    BY <2>1 DEF PartInv, WrittenInv, ToCome, Started
<1>10. CASE record_done
  <2>1. /\ pc = "read_data_from_stream" /\ pc' = "fat16_read_file" /\ total = part /\ i' = i + 1
        /\ UNCHANGED <<size, nb, out>>
    BY <1>10 DEF record_done
  <2>2. Len(out) + 0 = (i + 1) * size
    BY <1>1, <2>1 DEF WrittenInv, ToCome, Started
  <2> QED
    BY <2>1, <2>2 DEF PartInv, WrittenInv, ToCome, Started
<1>11. CASE Waiting \/ UNCHANGED vars
  BY <1>11 DEF Waiting, vars, PartInv, WrittenInv, ToCome, Started
<1> QED
  BY <1>3, <1>4, <1>5, <1>6, <1>7, <1>8, <1>9, <1>10, <1>11 DEF Next, ReadStep

-----------------------------------------------------------------------------
(* The chain of clusters.                                                  *)

LEMMA ChainValue == \A n \in Nat : Chain[n] \in Clusters \cup {0}
<1> SUFFICES ASSUME NEW n \in Nat PROVE Chain[n] \in Clusters \cup {0}
  OBVIOUS
<1>1. CASE n = 0
  BY <1>1, ChainDef, DiskAssumption DEF Clusters
<1>2. CASE n # 0
  BY <1>2, ChainDef
<1> QED
  BY <1>1, <1>2

\* A cluster of the chain that is not the first is its predecessor's entry.
LEMMA ChainStep ==
  ASSUME NEW n \in Nat, Chain[n + 1] # 0
  PROVE  Chain[n] \in Clusters /\ Chain[n + 1] = fat[Chain[n]] /\ Chain[n + 1] \in Clusters
<1>1. n + 1 \in Nat /\ n + 1 # 0 /\ (n + 1) - 1 = n
  OBVIOUS
<1>2. Chain[n + 1] = IF Chain[n] \in Clusters /\ fat[Chain[n]] \in Clusters
                     THEN fat[Chain[n]] ELSE 0
  BY <1>1, ChainDef
<1> QED
  BY <1>2

\* A chain that reaches to its m-th cluster has all the clusters before it.
LEMMA ChainBefore ==
  ASSUME NEW m \in Nat, Chain[m] # 0, NEW k \in Nat, k <= m
  PROVE  Chain[k] \in Clusters
<1> DEFINE Reaches(d) == \A j \in Nat : Chain[j + d] # 0 => Chain[j] # 0
           S == {d \in Nat : Reaches(d)}
<1>1. 0 \in S
  <2>1. Reaches(0)
    OBVIOUS
  <2> QED
    BY <2>1
<1>2. ASSUME NEW d \in Nat, d \in S
      PROVE  d + 1 \in S
  <2> SUFFICES ASSUME NEW j \in Nat, Chain[j + (d + 1)] # 0
               PROVE  Chain[j] # 0
    <3>1. d + 1 \in Nat
      OBVIOUS
    <3> QED
      BY <3>1
  <2>1. j + d \in Nat /\ j + (d + 1) = (j + d) + 1
    OBVIOUS
  <2>2. Chain[j + d] \in Clusters
    BY <2>1, ChainStep
  <2>3. ~(0 \in Clusters)
    BY DEF Clusters
  <2> QED
    BY <1>2, <2>2, <2>3
<1>3. Nat \subseteq S
  <2> HIDE DEF S
  <2> QED
    BY <1>1, <1>2, Induction
<1>4. m - k \in Nat /\ k + (m - k) = m
  OBVIOUS
<1>5. Chain[k] # 0
  BY <1>3, <1>4
<1> QED
  BY <1>5, ChainValue

LEMMA ChainSame == UNCHANGED fat => Chain' = Chain
BY DEF Chain

LEMMA WithinFileSame ==
  ASSUME UNCHANGED <<fat, offset, size, nb>>
  PROVE  WithinFile' = WithinFile
BY ChainSame DEF WithinFile, AllAligned, HasByte

-----------------------------------------------------------------------------
(* Where the functions are.                                                *)

LEMMA NextByteNat ==
  ASSUME TypeOK
  PROVE  NextByte \in Nat /\ offset \in Nat /\ from \in Nat
BY CallTypes DEF NextByte, TypeOK

LEMMA SizePositive ==
  ASSUME TypeOK, size # 0
  PROVE  size > 0
BY CallAssumption DEF TypeOK

\* Between two records, everything up to the next one's offset is written.
LEMMA RecordStart ==
  ASSUME IInv, pc = "fat16_read_file"
  PROVE  at = NextByte
<1>1. Len(out) + 0 = i * size
  BY DEF IInv, WrittenInv, ToCome, Started, Functions
<1>2. Len(out) \in Nat /\ offset \in Nat
  BY CallTypes, NextByteNat DEF IInv
<1> QED
  BY <1>1, <1>2 DEF IInv, PlaceInv, Functions, NextByte

LEMMA PlaceStep ==
  ASSUME IInv, [Next]_vars
  PROVE  PlaceInv'
<1> USE DEF record, walk, stream
<1> TypeOK /\ PartInv /\ WrittenInv /\ PlaceInv
  BY DEF IInv
<1>1. /\ size \in Nat /\ nb \in Nat /\ i \in Nat /\ at \in Nat /\ total \in Nat /\ part \in Nat
      /\ left \in Nat /\ Len(out) \in Nat
  BY CallTypes
<1>2. NextByte \in Nat /\ offset \in Nat /\ from \in Nat
  BY NextByteNat
<1>3. ASSUME NEW s \in Sizes, NEW n \in 1 .. MaxRecords, fread(s, n)
      PROVE  PlaceInv'
  <2>1. s \in Nat /\ s > 0 /\ n > 0 /\ 0 * s = 0 /\ offset + 0 = offset
    BY <1>2, CallAssumption
  <2> QED
    BY <1>3, <2>1 DEF fread, PlaceInv
<1>4. CASE read_record
  <2>1. /\ pc = "fat16_read_file" /\ pc' = "get_cluster_for_offset" /\ total' = size /\ from' = at
        /\ UNCHANGED <<offset, size, nb, i, at, out>>
    BY <1>4 DEF read_record, Read
  <2>2. nb > 0 /\ size > 0 /\ at = offset + i * size
    BY <2>1 DEF PlaceInv, Functions
  <2>3. at = NextByte
    BY <2>1, RecordStart
  <2> QED
    BY <2>1, <2>2, <2>3 DEF PlaceInv, NextByte
<1>5. CASE read_done \/ chain_ends \/ sector_missing
  <2>1. pc' \in {"idle", "waiting"}
    BY <1>5 DEF read_done, chain_ends, sector_missing, Return
  <2> QED
    BY <2>1 DEF PlaceInv, Functions
<1>6. CASE next_cluster
  BY <1>6 DEF next_cluster, PlaceInv, NextByte
<1>7. CASE seek_cluster
  <2>1. /\ pc = "get_cluster_for_offset" /\ pc' = "read_disk_stream"
        /\ part' = minimum(total, cluster_size) /\ left' = part'
        /\ UNCHANGED <<offset, size, nb, i, at, from, total, out>>
    BY <1>7 DEF seek_cluster
  <2>2. total > 0 /\ from = NextByte /\ nb > 0 /\ size > 0 /\ at = offset + i * size
    BY <2>1 DEF PlaceInv, Functions
  <2>3. part' > 0
    BY <1>1, <2>1, <2>2, ClusterSize DEF minimum
  <2> QED
    BY <2>1, <2>2, <2>3 DEF PlaceInv, NextByte
<1>8. CASE read_sector
  <2> DEFINE n == minimum(left, SECTOR_SIZE)
  <2>1. /\ pc = "read_disk_stream" /\ left' = left - n /\ out' = out \o copied(n)
        /\ pc' = IF left > SECTOR_SIZE THEN pc ELSE "read_data_from_stream"
        /\ UNCHANGED <<offset, size, nb, i, at, from, total, part>>
    BY <1>8 DEF read_sector
  <2>2. n \in Nat /\ n <= left /\ (left > SECTOR_SIZE => n < left) /\ (~(left > SECTOR_SIZE) => n = left)
    BY <1>1, SizeAssumption DEF minimum
  <2>3. Len(out') = Len(out) + n
    <3>1. out \in Seq(Int)
      BY DEF TypeOK
    <3>2. copied(n) \in Seq(Int) /\ Len(copied(n)) = n
      BY <2>2, CallTypes, Copied
    <3> QED
      BY <2>1, <3>1, <3>2, ConcatProperties
  <2> HIDE DEF n
  <2>4. NextByte' = NextByte + n
    BY <1>1, <1>2, <2>1, <2>2, <2>3 DEF NextByte
  <2>5. /\ left > 0 /\ from + part = NextByte + left /\ part = minimum(total, cluster_size)
        /\ nb > 0 /\ size > 0 /\ at = offset + i * size
    BY <2>1 DEF PlaceInv, Functions
  <2>6. total > 0
    BY <1>1, <2>1, <2>5 DEF PartInv
  <2>7. left > SECTOR_SIZE => left' > 0
    BY <1>1, <2>1, <2>2
  <2>8. from + part = NextByte' + left'
    BY <1>1, <1>2, <2>1, <2>2, <2>4, <2>5
  <2>9. ~(left > SECTOR_SIZE) => from + part = NextByte'
    BY <1>1, <1>2, <2>2, <2>4, <2>5
  <2>10. UNCHANGED minimum(total, cluster_size) /\ UNCHANGED (offset + i * size)
    BY <2>1
  <2> QED
    BY <2>1, <2>5, <2>6, <2>7, <2>8, <2>9, <2>10 DEF PlaceInv
<1>9. CASE next_part
  <2>1. /\ pc = "read_data_from_stream" /\ pc' = "get_cluster_for_offset" /\ total > part
        /\ total' = total - part /\ from' = from + part
        /\ UNCHANGED <<offset, size, nb, i, at, out>>
    BY <1>9 DEF next_part, Read
  <2>2. from + part = NextByte /\ nb > 0 /\ size > 0 /\ at = offset + i * size
    BY <2>1 DEF PlaceInv, Functions
  <2>3. total' > 0
    BY <1>1, <2>1
  <2> QED
    BY <2>1, <2>2, <2>3 DEF PlaceInv, NextByte
<1>10. CASE record_done
  <2>1. /\ pc = "read_data_from_stream" /\ pc' = "fat16_read_file" /\ i' = i + 1 /\ at' = at + size
        /\ UNCHANGED <<offset, size, nb>>
    BY <1>10 DEF record_done
  <2>2. nb > 0 /\ size > 0 /\ at = offset + i * size
    BY <2>1 DEF PlaceInv, Functions
  <2>3. (i + 1) * size = i * size + size /\ i * size \in Nat
    BY <1>1, NextProduct, ProductNat
  <2>4. at' = offset + (i + 1) * size
    BY <1>1, <1>2, <2>1, <2>2, <2>3
  <2> QED
    BY <2>1, <2>2, <2>4 DEF PlaceInv
<1>11. CASE Waiting \/ UNCHANGED vars
  BY <1>11 DEF Waiting, vars, PlaceInv, NextByte
<1> QED
  BY <1>3, <1>4, <1>5, <1>6, <1>7, <1>8, <1>9, <1>10, <1>11 DEF Next, ReadStep

-----------------------------------------------------------------------------
(* Aligned records.                                                        *)

LEMMA SectorInCluster == SECTOR_SIZE <= cluster_size
<1>1. \A a, b \in Nat \ {0} : b <= a * b
  <2> SUFFICES ASSUME NEW a \in Nat \ {0}, NEW b \in Nat \ {0}
               PROVE  b <= a * b
    OBVIOUS
  <2>1. (a - 1) * b >= 0 /\ (a - 1) * b = a * b - b /\ a * b \in Nat
    BY SMT
  <2> QED
    BY <2>1
<1> QED
  BY <1>1, SizeAssumption DEF cluster_size

\* The remainder by a sector is that of the remainder by a cluster.
LEMMA SectorOffset ==
  ASSUME NEW o \in Nat
  PROVE  (o % cluster_size) % SECTOR_SIZE = o % SECTOR_SIZE
<1> DEFINE q == o \div cluster_size
           r == o % cluster_size
<1>1. q \in Nat /\ r \in Nat /\ o = q * cluster_size + r
  BY ClusterSize, Division
<1> DEFINE k == q * sectors_per_cluster
<1> HIDE DEF q, r
<1>2. q * cluster_size = k * SECTOR_SIZE
  BY <1>1, SizeAssumption, SMT DEF cluster_size
<1>3. k \in Nat
  BY <1>1, SizeAssumption, ProductNat
<1> HIDE DEF k
<1>4. (k * SECTOR_SIZE + r) % SECTOR_SIZE = r % SECTOR_SIZE
  BY <1>1, <1>3, SizeAssumption, Remainder
<1>5. o = k * SECTOR_SIZE + r
  BY <1>1, <1>2
<1> QED
  BY <1>4, <1>5 DEF r

LEMMA AlignedHead ==
  ASSUME NEW o \in Nat, NEW s \in Nat, NEW t \in Nat, t <= s, Aligned(o, s)
  PROVE  Aligned(o, t)
<1>1. minimum(t, SECTOR_SIZE) <= minimum(s, SECTOR_SIZE)
  BY SizeAssumption DEF minimum
<1>2. minimum(t, cluster_size) <= minimum(s, cluster_size)
  BY ClusterSize DEF minimum
<1>3. /\ o % SECTOR_SIZE \in Nat /\ o % cluster_size \in Nat
      /\ minimum(t, SECTOR_SIZE) \in Nat /\ minimum(s, SECTOR_SIZE) \in Nat
      /\ minimum(t, cluster_size) \in Nat /\ minimum(s, cluster_size) \in Nat
      /\ cluster_size \in Nat /\ SECTOR_SIZE \in Nat
  BY Division, Minimum, SizeAssumption, ClusterSize
<1>4. /\ (o % SECTOR_SIZE) + minimum(s, SECTOR_SIZE) <= SECTOR_SIZE
      /\ (o % cluster_size) + minimum(s, cluster_size) <= cluster_size
  BY DEF Aligned
<1>5. (o % SECTOR_SIZE) + minimum(t, SECTOR_SIZE) <= SECTOR_SIZE
  BY <1>1, <1>3, <1>4
<1>6. (o % cluster_size) + minimum(t, cluster_size) <= cluster_size
  BY <1>2, <1>3, <1>4
<1> QED
  BY <1>5, <1>6 DEF Aligned

\* An aligned record of more than a cluster starts at one, and so does what is
\* left of it after a cluster.
LEMMA AlignedNextPart ==
  ASSUME NEW o \in Nat, NEW s \in Nat, s > cluster_size, Aligned(o, s)
  PROVE  Aligned(o + cluster_size, s - cluster_size)
<1>1. cluster_size \in Nat /\ cluster_size > 0 /\ SECTOR_SIZE \in Nat /\ SECTOR_SIZE > 0
  BY ClusterSize, SizeAssumption
<1>2. o % cluster_size \in Nat /\ o + cluster_size \in Nat /\ s - cluster_size \in Nat
  BY <1>1, Division, ClusterSize
<1>3. minimum(s, cluster_size) = cluster_size
  BY <1>1 DEF minimum
<1>4. o % cluster_size = 0
  BY <1>1, <1>2, <1>3 DEF Aligned
<1>5. (o + cluster_size) % cluster_size = 0
  BY <1>4, ClusterSize, NextBlock
<1>6. 0 % SECTOR_SIZE = 0
  BY <1>1
<1>7. (o + cluster_size) % SECTOR_SIZE = 0
  BY <1>2, <1>5, <1>6, SectorOffset
<1>8. /\ minimum(s - cluster_size, SECTOR_SIZE) \in Nat
      /\ minimum(s - cluster_size, SECTOR_SIZE) <= SECTOR_SIZE
      /\ minimum(s - cluster_size, cluster_size) \in Nat
      /\ minimum(s - cluster_size, cluster_size) <= cluster_size
  BY <1>1, <1>2, Minimum
<1> QED
  BY <1>1, <1>5, <1>7, <1>8 DEF Aligned

\* Within its cluster, an aligned record of more than a sector starts at one,
\* and so does what is left of it after a sector.
LEMMA AlignedNextSector ==
  ASSUME NEW o \in Nat, NEW s \in Nat, s > SECTOR_SIZE, s <= cluster_size, Aligned(o, s)
  PROVE  /\ Aligned(o + SECTOR_SIZE, s - SECTOR_SIZE)
         /\ (o + SECTOR_SIZE) \div cluster_size = o \div cluster_size
         /\ (o + SECTOR_SIZE) % cluster_size = (o % cluster_size) + SECTOR_SIZE
<1>1. cluster_size \in Nat /\ cluster_size > 0 /\ SECTOR_SIZE \in Nat /\ SECTOR_SIZE > 0
  BY ClusterSize, SizeAssumption
<1>2. /\ o % cluster_size \in Nat /\ o % SECTOR_SIZE \in Nat
      /\ o + SECTOR_SIZE \in Nat /\ s - SECTOR_SIZE \in Nat
  BY <1>1, Division, ClusterSize, SizeAssumption
<1>3. minimum(s, SECTOR_SIZE) = SECTOR_SIZE /\ minimum(s, cluster_size) = s
  BY <1>1 DEF minimum
<1>4. o % SECTOR_SIZE = 0 /\ (o % cluster_size) + s <= cluster_size
  BY <1>1, <1>2, <1>3 DEF Aligned
<1>5. (o % cluster_size) + SECTOR_SIZE < cluster_size
  BY <1>1, <1>2, <1>4
<1>6. /\ (o + SECTOR_SIZE) \div cluster_size = o \div cluster_size
      /\ (o + SECTOR_SIZE) % cluster_size = (o % cluster_size) + SECTOR_SIZE
  BY <1>1, <1>5, ClusterSize, SameBlock
<1>7. (o + SECTOR_SIZE) % SECTOR_SIZE = 0
  BY <1>1, <1>4, SizeAssumption, NextBlock
<1>8. /\ minimum(s - SECTOR_SIZE, SECTOR_SIZE) \in Nat
      /\ minimum(s - SECTOR_SIZE, SECTOR_SIZE) <= SECTOR_SIZE
      /\ minimum(s - SECTOR_SIZE, cluster_size) \in Nat
      /\ minimum(s - SECTOR_SIZE, cluster_size) <= s - SECTOR_SIZE
  BY <1>1, <1>2, Minimum
<1>9. ((o % cluster_size) + SECTOR_SIZE) + minimum(s - SECTOR_SIZE, cluster_size) <= cluster_size
  BY <1>1, <1>2, <1>4, <1>8
<1> QED
  BY <1>1, <1>6, <1>7, <1>8, <1>9 DEF Aligned

-----------------------------------------------------------------------------
(* The walk and the stream.                                                *)

\* The file has the next byte, and its chain every cluster up to that byte's.
LEMMA HasNext ==
  ASSUME IInv, WithinFile, pc \in {"get_cluster_for_offset", "read_disk_stream"},
         NEW k \in Nat, k <= NextByte \div cluster_size
  PROVE  Chain[k] \in Clusters
<1>1. Len(out) \in Nat /\ size \in Nat /\ nb \in Nat /\ total \in Nat /\ part \in Nat /\ left \in Nat
  BY CallTypes DEF IInv
<1>2. ToCome \in Nat /\ Len(out) + ToCome <= size * nb
  BY CallBound DEF IInv, Functions
<1>3. ToCome > 0
  BY <1>1 DEF IInv, PlaceInv, PartInv, ToCome
<1>4. size * nb \in Nat
  BY <1>1, ProductNat
<1>5. Len(out) \in 0 .. size * nb - 1
  BY <1>1, <1>2, <1>3, <1>4
<1>6. Chain[NextByte \div cluster_size] # 0
  BY <1>5 DEF WithinFile, HasByte, NextByte
<1>7. NextByte \div cluster_size \in Nat
  BY NextByteNat, ClusterSize, Division DEF IInv
<1> QED
  BY <1>6, <1>7, ChainBefore

\* The walk goes from a cluster of the file to the next one.
LEMMA NextOfChain ==
  ASSUME IInv, WithinFile, pc = "get_cluster_for_offset", ahead > 0
  PROVE  /\ (from \div cluster_size) - (ahead - 1) \in Nat
         /\ get_entry(cluster) = {Chain[(from \div cluster_size) - (ahead - 1)]}
         /\ Chain[(from \div cluster_size) - (ahead - 1)] \in Clusters
<1> DEFINE q == from \div cluster_size
           m == q - ahead
<1>1. q \in Nat /\ ahead \in Nat /\ from = NextByte
  BY NextByteNat, ClusterSize, Division DEF IInv, PlaceInv, TypeOK
<1>2. ahead <= q /\ cluster = Chain[m]
  BY DEF IInv, WalkInv
<1> HIDE DEF q
<1>3. m \in Nat /\ m + 1 \in Nat /\ m + 1 <= q /\ m + 1 = q - (ahead - 1)
  BY <1>1, <1>2
<1> HIDE DEF m
<1>4. Chain[m + 1] \in Clusters
  BY <1>1, <1>3, HasNext DEF q
<1>5. Chain[m + 1] # 0
  BY <1>4 DEF Clusters
<1>6. cluster \in Clusters /\ fat[cluster] = Chain[m + 1]
  BY <1>2, <1>3, <1>5, ChainStep
<1>7. get_entry(cluster) = {Chain[m + 1]}
  BY <1>6 DEF get_entry
<1>8. Chain[q - (ahead - 1)] \in Clusters /\ get_entry(cluster) = {Chain[q - (ahead - 1)]}
  BY <1>3, <1>4, <1>7
<1>9. q - (ahead - 1) \in Nat
  BY <1>3
<1> QED
  BY <1>8, <1>9 DEF q

\* The position of the stream lies within the next byte's sector where the
\* next byte does within its own, and what one call copies follows from it.
LEMMA CopiedByte ==
  ASSUME IInv, WithinFile, pc = "read_disk_stream",
         NEW j \in 1 .. minimum(left, SECTOR_SIZE)
  PROVE  copied(minimum(left, SECTOR_SIZE))[j] = FileByte(NextByte + (j - 1))
<1> DEFINE n == minimum(left, SECTOR_SIZE)
           r == NextByte % cluster_size
           base == cluster_to_sector(cluster)
<1>1. /\ left \in Nat /\ SECTOR_SIZE \in Nat /\ SECTOR_SIZE > 0 /\ cluster_size \in Nat
      /\ SECTOR_SIZE <= cluster_size /\ NextByte \in Nat
  BY CallTypes, NextByteNat, SizeAssumption, ClusterSize, SectorInCluster DEF IInv
<1>2. n \in Nat /\ n <= left /\ n <= SECTOR_SIZE
  BY <1>1, Minimum
<1>3. /\ Aligned(NextByte, left) /\ cluster = Chain[NextByte \div cluster_size]
      /\ pos = base * SECTOR_SIZE + r
  BY DEF IInv, WalkInv
<1>4. r \in Nat /\ NextByte % SECTOR_SIZE \in Nat /\ NextByte \div cluster_size \in Nat
  BY <1>1, ClusterSize, SizeAssumption, Division
<1>5. base \in Nat /\ base * SECTOR_SIZE \in Nat
  <2>1. cluster \in Clusters
    BY <1>3, <1>4, HasNext
  <2>2. cluster - 2 \in Nat
    BY <2>1, DiskAssumption DEF Clusters
  <2>3. (cluster - 2) * sectors_per_cluster \in Nat
    BY <2>2, SizeAssumption, ProductNat
  <2>4. base \in Nat
    BY <2>3, DiskAssumption DEF cluster_to_sector
  <2> QED
    BY <2>4, <1>1, ProductNat
<1> HIDE DEF n, r, base
<1>6. pos % SECTOR_SIZE = NextByte % SECTOR_SIZE
  <2>1. (base * SECTOR_SIZE + r) % SECTOR_SIZE = r % SECTOR_SIZE
    BY <1>4, <1>5, SizeAssumption, Remainder
  <2> QED
    BY <1>1, <1>3, <2>1, SectorOffset DEF r
<1>7. (NextByte % SECTOR_SIZE) + n <= SECTOR_SIZE /\ r + (j - 1) < cluster_size
  <2>1. /\ (NextByte % SECTOR_SIZE) + n <= SECTOR_SIZE
        /\ r + minimum(left, cluster_size) <= cluster_size
    BY <1>3 DEF Aligned, n, r
  <2>2. n <= minimum(left, cluster_size) /\ minimum(left, cluster_size) \in Nat
    BY <1>1, <1>2 DEF minimum
  <2>3. j \in Nat /\ j <= n /\ j > 0
    BY <1>2 DEF n
  <2> QED
    BY <1>1, <1>2, <1>4, <2>1, <2>2, <2>3
<1>8. copied(n)[j] = pos + j - 1
  <2>1. j \in 1 .. n
    BY DEF n
  <2>2. (pos % SECTOR_SIZE) + j - 1 < SECTOR_SIZE
    BY <1>1, <1>2, <1>4, <1>6, <1>7, <2>1
  <2> QED
    BY <2>1, <2>2 DEF copied
<1>9. /\ (NextByte + (j - 1)) \div cluster_size = NextByte \div cluster_size
      /\ (NextByte + (j - 1)) % cluster_size = r + (j - 1)
  <2>1. j - 1 \in Nat
    OBVIOUS
  <2> QED
    BY <1>1, <1>7, <2>1, ClusterSize, SameBlock DEF r
<1>10. FileByte(NextByte + (j - 1)) = base * SECTOR_SIZE + (r + (j - 1))
  BY <1>3, <1>9 DEF FileByte, base
<1>11. pos + j - 1 = base * SECTOR_SIZE + (r + (j - 1))
  BY <1>3, <1>4, <1>5
<1> QED
  BY <1>8, <1>10, <1>11 DEF n

LEMMA ExactStep ==
  ASSUME IInv, [Next]_vars
  PROVE  ReadIsExact'
<1> USE DEF record, walk, stream
<1>1. CASE read_sector
  <2> SUFFICES ASSUME WithinFile', NEW b \in 1 .. Len(out')
               PROVE  out'[b] = FileByte(offset + b - 1)'
    BY DEF ReadIsExact, WithinFile
  <2> DEFINE n == minimum(left, SECTOR_SIZE)
  <2>1. /\ pc = "read_disk_stream" /\ out' = out \o copied(n)
        /\ UNCHANGED <<fat, offset, size, nb>>
    BY <1>1 DEF read_sector
  <2>2. WithinFile
    BY <2>1, WithinFileSame
  <2>3. FileByte(offset + b - 1)' = FileByte(offset + b - 1)
    BY <2>1, ChainSame DEF FileByte
  <2>4. left \in Nat /\ n \in Nat /\ Len(out) \in Nat /\ out \in Seq(Int) /\ offset \in Nat
    BY CallTypes, Minimum, SizeAssumption DEF IInv, TypeOK
  <2>5. copied(n) \in Seq(Int) /\ Len(copied(n)) = n
    BY <2>4, CallTypes, Copied DEF IInv
  <2>6. /\ Len(out') = Len(out) + n
        /\ out'[b] = IF b <= Len(out) THEN out[b] ELSE copied(n)[b - Len(out)]
    <3> HIDE DEF n
    <3> QED
      BY <2>1, <2>4, <2>5, ConcatProperties
  <2>7. CASE b <= Len(out)
    <3>1. b \in 1 .. Len(out)
      BY <2>4, <2>7
    <3>2. out[b] = FileByte(offset + b - 1)
      BY <2>2, <3>1 DEF IInv, ReadIsExact, WithinFile
    <3> QED
      BY <2>3, <2>6, <2>7, <3>2
  <2>8. CASE ~(b <= Len(out))
    <3> DEFINE j == b - Len(out)
    <3>1. j \in 1 .. n
      <4> HIDE DEF n
      <4> QED
        BY <2>4, <2>6, <2>8
    <3>2. copied(n)[j] = FileByte(NextByte + (j - 1))
      BY <2>1, <2>2, <3>1, CopiedByte
    <3>3. NextByte + (j - 1) = offset + b - 1
      <4>1. b \in Int
        OBVIOUS
      <4> QED
        BY <2>4, <4>1 DEF NextByte
    <3> HIDE DEF j, n
    <3>4. FileByte(NextByte + (j - 1)) = FileByte(offset + b - 1)
      BY <3>3
    <3>5. out'[b] = copied(n)[j]
      BY <2>6, <2>8 DEF j
    <3> QED
      BY <2>3, <3>2, <3>4, <3>5
  <2> QED
    BY <2>7, <2>8
<1>2. ASSUME NEW s \in Sizes, NEW n \in 1 .. MaxRecords, fread(s, n)
      PROVE  ReadIsExact'
  <2>1. out' = <<>> /\ 1 .. Len(<<>>) = {}
    BY <1>2 DEF fread
  <2> QED
    BY <2>1 DEF ReadIsExact
<1>3. CASE UNCHANGED <<fat, offset, size, nb, out>>
  BY <1>3, WithinFileSame, ChainSame DEF IInv, ReadIsExact, WithinFile, FileByte
<1>4. read_record \/ read_done \/ next_cluster \/ chain_ends \/ seek_cluster \/ sector_missing
        \/ next_part \/ record_done \/ Waiting \/ UNCHANGED vars
        => UNCHANGED <<fat, offset, size, nb, out>>
  BY DEF read_record, read_done, next_cluster, chain_ends, seek_cluster, sector_missing,
         next_part, record_done, Waiting, vars
<1> QED
  BY <1>1, <1>2, <1>3, <1>4 DEF Next, ReadStep

LEMMA WalkStep ==
  ASSUME IInv, [Next]_vars
  PROVE  WalkInv'
<1> USE DEF record, walk, stream
<1> TypeOK /\ PartInv /\ WrittenInv /\ PlaceInv /\ WalkInv
  BY DEF IInv
<1> SUFFICES ASSUME WithinFile' PROVE WalkInv'
  BY DEF WalkInv
<1>1. /\ size \in Nat /\ nb \in Nat /\ i \in Nat /\ at \in Nat /\ total \in Nat /\ part \in Nat
      /\ left \in Nat /\ Len(out) \in Nat
  BY CallTypes
<1>2. NextByte \in Nat /\ offset \in Nat /\ from \in Nat /\ ahead \in Nat
  BY NextByteNat DEF TypeOK
<1>3. /\ cluster_size \in Nat /\ cluster_size > 0 /\ SECTOR_SIZE \in Nat /\ SECTOR_SIZE > 0
  BY ClusterSize, SizeAssumption
<1>4. ASSUME NEW s \in Sizes, NEW n \in 1 .. MaxRecords, fread(s, n)
      PROVE  WalkInv'
  BY <1>4 DEF fread, WalkInv
<1>5. CASE read_done \/ chain_ends \/ sector_missing \/ record_done
  <2>1. pc' \in {"idle", "waiting", "fat16_read_file"}
    BY <1>5 DEF read_done, chain_ends, sector_missing, record_done, Return
  <2> QED
    BY <2>1 DEF WalkInv
<1>6. ASSUME NEW o \in Nat, NEW t \in Nat, Read(o, t), Aligned(o, t), UNCHANGED fat
      PROVE  WalkInv'
  <2>1. /\ pc' = "get_cluster_for_offset" /\ from' = o /\ total' = t
        /\ cluster' = FirstCluster /\ ahead' = o \div cluster_size
    BY <1>6 DEF Read
  <2>2. Aligned(from', total')
    BY <1>6, <2>1
  <2>3. /\ ahead' = from' \div cluster_size /\ ahead' \in Nat
        /\ ahead' <= from' \div cluster_size /\ from' \div cluster_size - ahead' = 0
    BY <2>1, ClusterSize, Division
  <2>4. Chain'[0] = FirstCluster
    BY <1>6, ChainSame, ChainDef
  <2>5. cluster' = Chain'[from' \div cluster_size - ahead']
    BY <2>1, <2>3, <2>4
  <2> QED
    BY <2>1, <2>2, <2>3, <2>5 DEF WalkInv, Aligned
<1>7. CASE read_record
  <2>1. /\ pc = "fat16_read_file" /\ i < nb /\ Read(at, size) /\ UNCHANGED <<fat, offset, size, nb>>
    BY <1>7 DEF read_record
  <2>2. WithinFile
    BY <2>1, WithinFileSame
  <2>3. at = offset + i * size /\ i \in 0 .. nb - 1
    BY <1>1, <2>1 DEF PlaceInv, Functions
  <2>4. Aligned(at, size)
    BY <2>2, <2>3 DEF WithinFile, AllAligned
  <2> QED
    BY <1>1, <1>6, <2>1, <2>4
<1>8. CASE next_part
  <2>1. /\ pc = "read_data_from_stream" /\ total > part /\ Read(from + part, total - part)
        /\ UNCHANGED <<fat, offset, size, nb>>
    BY <1>8 DEF next_part
  <2>2. WithinFile
    BY <2>1, WithinFileSame
  <2>3. Aligned(from, total)
    BY <2>1, <2>2 DEF WalkInv
  <2>4. part = minimum(total, cluster_size)
    BY <2>1 DEF PlaceInv
  <2>5. part = cluster_size /\ total > cluster_size
    BY <1>1, <1>3, <2>1, <2>4 DEF minimum
  <2>6. Aligned(from + part, total - part)
    BY <1>1, <1>2, <2>3, <2>5, AlignedNextPart
  <2>7. from + part \in Nat /\ total - part \in Nat
    BY <1>1, <1>2, <2>1
  <2> QED
    BY <1>6, <2>1, <2>6, <2>7
<1>9. CASE next_cluster
  <2>1. /\ pc = "get_cluster_for_offset" /\ ahead > 0 /\ pc' = pc /\ ahead' = ahead - 1
        /\ cluster' \in get_entry(cluster)
        /\ UNCHANGED <<fat, offset, size, nb, from, total, out>>
    BY <1>9 DEF next_cluster
  <2>2. WithinFile
    BY <2>1, WithinFileSame
  <2>3. cluster' = Chain[(from \div cluster_size) - (ahead - 1)]
    BY <2>1, <2>2, NextOfChain DEF IInv
  <2>4. Aligned(from, total) /\ ahead <= from \div cluster_size
    BY <2>1, <2>2 DEF WalkInv
  <2>5. from \div cluster_size \in Nat
    BY <1>2, ClusterSize, Division
  <2>6. ahead' <= from \div cluster_size
    BY <1>2, <2>1, <2>4, <2>5
  <2>7. cluster' = Chain'[from' \div cluster_size - ahead']
    BY <2>1, <2>3, ChainSame
  <2> QED
    BY <2>1, <2>4, <2>6, <2>7 DEF WalkInv, Aligned
<1>10. CASE seek_cluster
  <2>1. /\ pc = "get_cluster_for_offset" /\ ahead = 0 /\ pc' = "read_disk_stream"
        /\ pos' = cluster_to_sector(cluster) * SECTOR_SIZE + (from % cluster_size)
        /\ part' = minimum(total, cluster_size) /\ left' = part'
        /\ UNCHANGED <<fat, offset, size, nb, from, total, cluster, out>>
    BY <1>10 DEF seek_cluster
  <2>2. WithinFile
    BY <2>1, WithinFileSame
  <2>3. Aligned(from, total) /\ cluster = Chain[from \div cluster_size - 0] /\ from = NextByte
    BY <2>1, <2>2 DEF WalkInv, PlaceInv
  <2>4. from \div cluster_size - 0 = from \div cluster_size
    BY <1>2, ClusterSize, Division
  <2>5. left' \in Nat /\ left' <= total
    BY <1>1, <1>3, <2>1, Minimum
  <2>6. Aligned(from, left')
    BY <1>1, <1>2, <2>3, <2>5, AlignedHead
  <2>7. NextByte' = from /\ Chain' = Chain
    BY <2>1, <2>3, ChainSame DEF NextByte
  <2>8. Aligned(from', total') /\ Aligned(NextByte', left')
    BY <2>1, <2>3, <2>6, <2>7
  <2>9. /\ cluster' = Chain'[NextByte' \div cluster_size]
        /\ pos' = cluster_to_sector(cluster') * SECTOR_SIZE + (NextByte' % cluster_size)
    BY <2>1, <2>3, <2>4, <2>7
  <2> QED
    BY <2>1, <2>8, <2>9 DEF WalkInv, Aligned, cluster_to_sector
<1>11. CASE read_sector
  <2> DEFINE n == minimum(left, SECTOR_SIZE)
  <2>1. /\ pc = "read_disk_stream" /\ out' = out \o copied(n) /\ pos' = pos + n /\ left' = left - n
        /\ pc' = IF left > SECTOR_SIZE THEN pc ELSE "read_data_from_stream"
        /\ UNCHANGED <<fat, offset, size, nb, from, total, part, cluster>>
    BY <1>11 DEF read_sector
  <2>2. WithinFile
    BY <2>1, WithinFileSame
  <2>3. /\ Aligned(from, total) /\ Aligned(NextByte, left)
        /\ cluster = Chain[NextByte \div cluster_size]
        /\ pos = cluster_to_sector(cluster) * SECTOR_SIZE + (NextByte % cluster_size)
    BY <2>1, <2>2 DEF WalkInv
  <2>4. Aligned(from', total')
    BY <2>1, <2>3
  <2>5. CASE left > SECTOR_SIZE
    <3>1. n = SECTOR_SIZE
      BY <1>1, <1>3, <2>5 DEF minimum
    <3>2. left <= cluster_size
      BY <1>1, <1>3, <2>1, Minimum DEF PartInv, PlaceInv
    <3>3. /\ Aligned(NextByte + SECTOR_SIZE, left - SECTOR_SIZE)
          /\ (NextByte + SECTOR_SIZE) \div cluster_size = NextByte \div cluster_size
          /\ (NextByte + SECTOR_SIZE) % cluster_size = (NextByte % cluster_size) + SECTOR_SIZE
      BY <1>1, <1>2, <2>3, <2>5, <3>2, AlignedNextSector
    <3>4. Len(out') = Len(out) + SECTOR_SIZE
      <4>1. out \in Seq(Int)
        BY DEF TypeOK
      <4>2. copied(n) \in Seq(Int) /\ Len(copied(n)) = n
        BY <1>3, <3>1, CallTypes, Copied
      <4> QED
        BY <2>1, <3>1, <4>1, <4>2, ConcatProperties
    <3>5. NextByte' = NextByte + SECTOR_SIZE
      BY <1>1, <1>2, <1>3, <2>1, <3>4 DEF NextByte
    <3>6. /\ Aligned(NextByte', left')
          /\ cluster' = Chain'[NextByte' \div cluster_size]
      BY <2>1, <2>3, <3>1, <3>3, <3>5, ChainSame
    <3> DEFINE base == cluster_to_sector(cluster) * SECTOR_SIZE
    <3>7. base \in Nat
      <4>1. cluster \in Clusters
        <5>1. NextByte \div cluster_size \in Nat
          BY <1>2, ClusterSize, Division
        <5> QED
          BY <2>1, <2>2, <2>3, <5>1, HasNext DEF IInv
      <4>2. cluster - 2 \in Nat
        BY <4>1, DiskAssumption DEF Clusters
      <4>3. cluster_to_sector(cluster) \in Nat
        BY <4>2, SizeAssumption, DiskAssumption, ProductNat DEF cluster_to_sector
      <4> QED
        BY <1>3, <4>3, ProductNat
    <3>8. pos' = base + (NextByte' % cluster_size)
      <4>1. NextByte % cluster_size \in Nat
        BY <1>2, ClusterSize, Division
      <4> HIDE DEF base, n
      <4>2. pos = base + (NextByte % cluster_size)
        BY <2>3 DEF base
      <4> QED
        BY <1>3, <2>1, <3>1, <3>3, <3>5, <3>7, <4>1, <4>2
    <3> QED
      BY <2>1, <2>4, <2>5, <3>6, <3>8 DEF WalkInv, Aligned, cluster_to_sector
  <2>6. CASE ~(left > SECTOR_SIZE)
    BY <2>1, <2>4, <2>6 DEF WalkInv, Aligned
  <2> QED
    BY <2>5, <2>6
<1>12. CASE Waiting \/ UNCHANGED vars
  <2>1. UNCHANGED vars
    BY <1>12 DEF Waiting
  <2>2. WithinFile /\ Chain' = Chain
    BY <2>1, WithinFileSame, ChainSame DEF vars
  <2> QED
    BY <2>1, <2>2 DEF vars, WalkInv, NextByte, Aligned
<1> QED
  BY <1>4, <1>5, <1>7, <1>8, <1>9, <1>10, <1>11, <1>12 DEF Next, ReadStep

-----------------------------------------------------------------------------
(* The theorems.                                                           *)

LEMMA InitIInv == Init => IInv
<1> SUFFICES ASSUME Init PROVE IInv
  OBVIOUS
<1>1. <<>> \in Seq(Int) /\ Len(<<>>) = 0 /\ 0 \in 0 .. MaxRecords /\ 0 * 0 = 0
      /\ FirstCluster \in Clusters
  BY CallAssumption, DiskAssumption DEF Clusters
<1>2. TypeOK
  BY <1>1 DEF Init, TypeOK
<1>3. PartInv /\ WrittenInv /\ PlaceInv /\ WalkInv
  BY <1>1 DEF Init, PartInv, WrittenInv, PlaceInv, WalkInv, Functions
<1>4. ReadIsExact
  <2>1. 1 .. Len(out) = {}
    BY <1>1 DEF Init
  <2> QED
    BY <2>1 DEF ReadIsExact
<1> QED
  BY <1>2, <1>3, <1>4 DEF IInv

\* IInv is an invariant.
THEOREM Invariance == Spec => []IInv
<1>1. IInv /\ [Next]_vars => IInv'
  BY TypeStep, BufferStep, PlaceStep, WalkStep, ExactStep DEF IInv
<1> QED
  BY InitIInv, <1>1, PTL DEF Spec

\* TypeOK: the variables have their types.
THEOREM TypeCorrect == Spec => []TypeOK
<1>1. IInv => TypeOK
  BY DEF IInv
<1> QED
  BY <1>1, Invariance, PTL

\* BufferIsEnough: no fread writes behind the size * nb bytes of its caller's
\* buffer, whatever the table says.
THEOREM BufferHolds == Spec => []BufferIsEnough
<1>1. IInv => BufferIsEnough
  <2> SUFFICES ASSUME IInv PROVE BufferIsEnough
    OBVIOUS
  <2>1. CASE pc \in Functions
    BY <2>1, WithinCall DEF IInv, BufferIsEnough
  <2>2. CASE pc \in {"idle", "waiting"}
    BY <2>2 DEF IInv, WrittenInv, BufferIsEnough
  <2> QED
    BY <2>1, <2>2 DEF IInv, TypeOK
<1> QED
  BY <1>1, Invariance, PTL

\* ReadIsExact: whatever the sizes of sectors and clusters, and however its
\* clusters are scattered, a read of aligned records of a file delivers the
\* file's bytes in order.
THEOREM ReadsExactly == Spec => []ReadIsExact
<1>1. IInv => ReadIsExact
  BY DEF IInv
<1> QED
  BY <1>1, Invariance, PTL

-----------------------------------------------------------------------------
(* Refusals.                                                               *)

\* The numbers that the walk takes for the end of a chain, or for reserved
\* clusters, are no clusters of the disk: it has fewer than 0xFF0 of them.
Unmarked == Clusters \cap (EndMarks \cup ReservedMarks) = {}

\* The stream of a cluster of the disk is on the disk.
LEMMA OnDisk ==
  ASSUME NEW c \in Clusters, NEW r \in Nat, r < cluster_size
  PROVE  (cluster_to_sector(c) * SECTOR_SIZE + r) \div SECTOR_SIZE < Sectors
<1> DEFINE s == cluster_to_sector(c)
           p == s * SECTOR_SIZE + r
<1>1. c \in Int /\ c - 2 \in Nat /\ c <= LastCluster /\ LastCluster \in Nat /\ sector_end \in Nat
  BY DiskAssumption DEF Clusters
<1>2. SECTOR_SIZE \in Nat \ {0} /\ sectors_per_cluster \in Nat \ {0}
  BY SizeAssumption
<1>3. /\ s = sector_end + (c - 2) * sectors_per_cluster
      /\ Sectors = sector_end + (LastCluster - 1) * sectors_per_cluster
      /\ cluster_size = sectors_per_cluster * SECTOR_SIZE
  BY DiskAssumption DEF cluster_to_sector, cluster_size
<1> HIDE DEF s
<1>4. (c - 2) * sectors_per_cluster \in Nat
  BY <1>1, <1>2, ProductNat
<1>5. s \in Nat
  BY <1>1, <1>3, <1>4
<1>6. s + sectors_per_cluster <= Sectors
  <2> DEFINE a == c - 2
             b == LastCluster - c
  <2>1. a \in Nat /\ b \in Nat /\ LastCluster - 1 = a + b + 1
    BY <1>1
  <2> HIDE DEF a, b
  <2>2. (a + b + 1) * sectors_per_cluster
          = a * sectors_per_cluster + b * sectors_per_cluster + sectors_per_cluster
    BY <1>2, <2>1, SMT
  <2>3. a * sectors_per_cluster \in Nat /\ b * sectors_per_cluster \in Nat
    BY <1>2, <2>1, ProductNat
  <2>4. Sectors = sector_end + (a * sectors_per_cluster + b * sectors_per_cluster + sectors_per_cluster)
    BY <1>3, <2>1, <2>2
  <2>5. s = sector_end + a * sectors_per_cluster
    BY <1>3 DEF a
  <2> QED
    BY <1>1, <1>2, <2>3, <2>4, <2>5
<1>7. p \in Nat
  BY <1>2, <1>5, ProductNat
<1> DEFINE q == p \div SECTOR_SIZE
<1>8. q \in Nat /\ p >= q * SECTOR_SIZE /\ q * SECTOR_SIZE \in Nat
  <2>1. q \in Nat /\ p % SECTOR_SIZE \in Nat /\ p = q * SECTOR_SIZE + (p % SECTOR_SIZE)
    <3> HIDE DEF p
    <3> QED
      BY <1>2, <1>7, Division
  <2>2. q * SECTOR_SIZE \in Nat
    BY <1>2, <2>1, ProductNat
  <2> HIDE DEF p, q
  <2> QED
    BY <2>1, <2>2
<1>9. p < (s + sectors_per_cluster) * SECTOR_SIZE
  BY <1>2, <1>3, <1>5, SMT
<1> HIDE DEF p, q
<1>10. ~(s + sectors_per_cluster <= q)
  <2> SUFFICES ASSUME s + sectors_per_cluster <= q PROVE FALSE
    OBVIOUS
  <2>1. (s + sectors_per_cluster) * SECTOR_SIZE <= SECTOR_SIZE * q
    BY <1>2, <1>5, <1>8, ProductMonotone
  <2>2. SECTOR_SIZE * q = q * SECTOR_SIZE /\ (s + sectors_per_cluster) * SECTOR_SIZE \in Nat
    BY <1>2, <1>5, <1>8, SMT
  <2> QED
    BY <1>7, <1>8, <1>9, <2>1, <2>2
<1>11. q < Sectors
  BY <1>1, <1>2, <1>3, <1>5, <1>6, <1>8, <1>10
<1> QED
  BY <1>11 DEF p, q, s

LEMMA RefusalStep ==
  ASSUME Unmarked, IInv, WithinFile, pc \in Functions, ReadStep
  PROVE  /\ ~(pc' = "idle" /\ ret' = 0)
         /\ pc' # "waiting"
<1>1. CASE read_done
  <2>1. nb > 0
    BY <1>1 DEF IInv, PlaceInv
  <2> QED
    BY <1>1, <2>1 DEF read_done, Return
<1>2. CASE chain_ends
  <2>1. pc = "get_cluster_for_offset" /\ ahead > 0
    BY <1>2 DEF chain_ends
  <2>2. PICK c \in Clusters : get_entry(cluster) = {c}
    BY <2>1, NextOfChain
  <2>3. c \notin EndMarks \cup ReservedMarks \cup {FreeMark}
    BY DEF Unmarked, Clusters, FreeMark
  <2> QED
    BY <1>2, <2>2, <2>3 DEF chain_ends
<1>3. CASE sector_missing
  <2>1. /\ pc = "read_disk_stream" /\ ~(pos \div SECTOR_SIZE < Sectors)
    <3>1. pos \div SECTOR_SIZE \in Nat /\ Sectors \in Int
      <4>1. (LastCluster - 1) * sectors_per_cluster \in Int
        BY DiskAssumption, SizeAssumption, SMT
      <4> QED
        BY <4>1, CallTypes, SizeAssumption, DiskAssumption, Division DEF IInv
    <3> QED
      BY <1>3, <3>1 DEF sector_missing
  <2>2. /\ cluster = Chain[NextByte \div cluster_size]
        /\ pos = cluster_to_sector(cluster) * SECTOR_SIZE + (NextByte % cluster_size)
    BY <2>1 DEF IInv, WalkInv
  <2>3. NextByte \div cluster_size \in Nat /\ NextByte % cluster_size \in Nat
        /\ NextByte % cluster_size < cluster_size
    BY NextByteNat, ClusterSize, Division DEF IInv
  <2>4. cluster \in Clusters
    BY <2>1, <2>2, <2>3, HasNext
  <2> QED
    BY <2>1, <2>2, <2>3, <2>4, OnDisk
<1>4. CASE read_record \/ next_cluster \/ seek_cluster \/ read_sector \/ next_part \/ record_done
  BY <1>4 DEF read_record, next_cluster, seek_cluster, read_sector, next_part, record_done, Read
<1> QED
  BY <1>1, <1>2, <1>3, <1>4 DEF ReadStep

\* FailsOnlyPastEnd: on a disk with fewer clusters than the walk's first mark, a
\* read of aligned records is refused only if the file ends before them, and
\* never waits for a sector that the disk does not have.
THEOREM RefusesOnlyPastEnd == Unmarked => (Spec => FailsOnlyPastEnd)
<1> SUFFICES ASSUME Unmarked PROVE Spec => FailsOnlyPastEnd
  OBVIOUS
<1>1. ASSUME IInv, [Next]_vars
      PROVE  [(pc \in Functions /\ pc' = "idle" /\ ret' = 0) \/ (pc # "waiting" /\ pc' = "waiting") =>
                \/ ~AllAligned
                \/ \E b \in 0 .. size * nb - 1 : ~HasByte(offset + b)]_vars
  <2> SUFFICES ASSUME (pc \in Functions /\ pc' = "idle" /\ ret' = 0)
                        \/ (pc # "waiting" /\ pc' = "waiting"),
                      WithinFile, ~UNCHANGED vars
               PROVE  FALSE
    BY DEF WithinFile
  <2>1. CASE ReadStep
    <3>1. pc \in Functions
      BY <2>1 DEF ReadStep, read_record, read_done, next_cluster, chain_ends, seek_cluster,
                  read_sector, sector_missing, next_part, record_done, Functions
    <3> QED
      BY <1>1, <2>1, <3>1, RefusalStep
  <2>2. CASE \E s \in Sizes, n \in 1 .. MaxRecords : fread(s, n)
    BY <2>2 DEF fread, Functions
  <2>3. CASE Waiting
    BY <2>3 DEF Waiting
  <2> QED
    BY <1>1, <2>1, <2>2, <2>3 DEF Next
<1> QED
  BY <1>1, Invariance, PTL DEF Spec, FailsOnlyPastEnd

-----------------------------------------------------------------------------
(* Coming to an end.                                                       *)

\* Triples that differ in their first, second or third number.
LEMMA LessFirst ==
  ASSUME NEW a, NEW b, 0 <= a[1], a[1] < b[1]
  PROVE  Less(a, b)
BY DEF Less

LEMMA LessSecond ==
  ASSUME NEW a, NEW b, a[1] = b[1], 0 <= a[2], a[2] < b[2]
  PROVE  Less(a, b)
BY DEF Less

LEMMA LessThird ==
  ASSUME NEW a, NEW b, a[1] = b[1], a[2] = b[2], 0 <= a[3], a[3] < b[3]
  PROVE  Less(a, b)
BY DEF Less

\* A step within the functions writes a byte, comes nearer to writing one or
\* walks on in the table.
LEMMA AdvanceStep ==
  ASSUME IInv, BufferIsEnough', Next, pc \in Functions, pc' \in Functions
  PROVE  Less(Todo', Todo) \/ UNCHANGED vars
<1> USE DEF Functions
<1>1. CASE read_record \/ seek_cluster \/ next_part \/ record_done
  <2>1. UNCHANGED <<size, nb, out>>
    BY <1>1 DEF read_record, seek_cluster, next_part, record_done, record
  <2>2. \/ pc = "fat16_read_file" /\ pc' = "get_cluster_for_offset"
        \/ pc = "get_cluster_for_offset" /\ pc' = "read_disk_stream"
        \/ pc = "read_data_from_stream" /\ pc' \in {"get_cluster_for_offset", "fat16_read_file"}
    BY <1>1 DEF read_record, seek_cluster, next_part, record_done, Read
  <2>3. Todo'[1] = Todo[1]
    BY <2>1 DEF Todo
  <2>4. 0 <= Todo'[2] /\ Todo'[2] < Todo[2]
    BY <2>2 DEF Todo
  <2> QED
    BY <2>3, <2>4, LessSecond
<1>2. CASE next_cluster
  <2>1. UNCHANGED <<size, nb, out, pc>> /\ ahead > 0 /\ ahead' = ahead - 1
    BY <1>2 DEF next_cluster, record
  <2>2. Todo'[1] = Todo[1] /\ Todo'[2] = Todo[2]
    BY <2>1 DEF Todo
  <2>3. 0 <= Todo'[3] /\ Todo'[3] < Todo[3]
    BY <2>1 DEF Todo, IInv, TypeOK
  <2> QED
    BY <2>2, <2>3, LessThird
<1>3. CASE read_sector
  <2> DEFINE n == minimum(left, SECTOR_SIZE)
  <2>1. /\ pc = "read_disk_stream" /\ out' = out \o copied(n)
        /\ UNCHANGED <<size, nb>>
    BY <1>3 DEF read_sector, record
  <2>2. n \in Nat \ {0}
    <3>1. left \in Nat /\ left > 0
      BY <2>1 DEF IInv, TypeOK, PlaceInv
    <3> QED
      BY <3>1, SizeAssumption DEF minimum
  <2> HIDE DEF n
  <2>3. copied(n) \in Seq(Int) /\ Len(copied(n)) = n
    BY <2>2, Copied DEF IInv, TypeOK
  <2>4. /\ Len(out) \in Nat /\ Len(out') = Len(out) + n
    BY <2>1, <2>3, ConcatProperties, LenProperties DEF IInv, TypeOK
  <2>5. size * nb \in Nat
    <3>1. size \in Nat /\ nb \in Nat
      BY CallAssumption DEF IInv, TypeOK
    <3> QED
      BY <3>1, ProductNat
  <2>6. Todo[1] = size * nb - Len(out) /\ Todo'[1] = size * nb - Len(out')
    BY <2>1 DEF Todo
  <2>7. 0 <= Todo'[1] /\ Todo'[1] < Todo[1]
    <3>1. Len(out') <= size * nb
      BY <2>1 DEF BufferIsEnough
    <3> QED
      BY <2>2, <2>4, <2>5, <2>6, <3>1
  <2> QED
    BY <2>7, LessFirst
<1>4. CASE \/ \E s \in Sizes, n \in 1 .. MaxRecords : fread(s, n)
           \/ read_done \/ chain_ends \/ sector_missing \/ Waiting
  <2>1. pc \notin Functions \/ pc' \notin Functions
    BY <1>4 DEF fread, read_done, chain_ends, sector_missing, Waiting, Return
  <2> QED
    BY <2>1
<1> QED
  BY <1>1, <1>2, <1>3, <1>4 DEF Next, ReadStep

\* Every step of a read leaves less to do: no table, cyclic or not, no size and
\* no number of records keeps fread from returning or waiting.
THEOREM ReadsAdvance == Spec => ReadAdvances
<1>1. IInv /\ BufferIsEnough' /\ [Next]_vars => [{pc, pc'} \subseteq Functions => Less(Todo', Todo)]_vars
  <2> SUFFICES ASSUME IInv, BufferIsEnough', Next, pc \in Functions, pc' \in Functions
               PROVE  Less(Todo', Todo) \/ UNCHANGED vars
    OBVIOUS
  <2> QED
    BY AdvanceStep
<1> QED
  BY <1>1, Invariance, BufferHolds, PTL DEF Spec, ReadAdvances
=============================================================================
