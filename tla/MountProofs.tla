------------------------------ MODULE MountProofs ------------------------------
(***************************************************************************)
(* Proofs about mounting, for ints, sectors and registers of every width   *)
(* and disks and volumes of every size, disks smaller than an int can      *)
(* address included.  An int that wraps makes a negative position, and     *)
(* that a sector number that selects the second drive, which is not there: *)
(* nothing is mounted, so that whatever has been read was read from where  *)
(* it should be.                                                           *)
(***************************************************************************)
EXTENDS Mount, FiniteSetTheorems, SequenceTheorems, TLAPS

\* The root directory does not begin so far behind the end of ints that its
\* position would wrap to a positive one: at 4 GB or more in the code.
Unwrapped == First < 2 * INT

-----------------------------------------------------------------------------
(* The inductive invariant.                                                *)

TypeOK ==
  /\ sectors \in Disks /\ volume \in Volumes
  /\ pc \in Reading \cup {"resolve_fs", "refused", "resolved", "done"}
  /\ drive \in {"idle", "busy", "ready", "error"}
  /\ cnt \in Nat /\ left \in Nat /\ pos \in Int

\* What the drive was asked for, and when it has answered.
DriveInv ==
  /\ drive # "idle" => pc \in Reading /\ lba = addressed(ports(quotient(pos, PER)))
  /\ drive = "ready" => lba < sectors

\* How far the kernel has come with the header and with what it allocates.
HeaderInv ==
  /\ pc \in {"resolve_fs", "read_header"} => pos = 0 /\ cnt = 0 /\ entries = <<>>
  /\ pc = "refused" => ~volume.signed
  /\ pc \in {"get_total_entries", "get_root_dir", "resolved"} => volume.signed
  /\ pc \in {"get_total_entries", "get_root_dir"} => header = volume
  /\ pc \in {"read_header", "get_total_entries"} => live = Streams \cup {"data", "stream"}
  /\ pc = "get_root_dir" => live = Streams \cup {"data", "stream", "root"}
  /\ pc = "resolved" => live = Streams \cup {"data", "root"}

\* A position is one of the disk, or so far below 0 that its sector is, too.
PositionInv ==
  /\ pc \in {"get_total_entries", "get_root_dir"} => pos \in -INT .. -PER \/ pos \in 0 .. INT - 1
  /\ pc = "get_root_dir" => pos % PER = 0

\* No entry before position p is empty, and n of them are used.
Counted(p, n) ==
  /\ \A q \in First .. p - 1 : kind(q) # "empty"
  /\ n = Cardinality({q \in First .. p - 1 : kind(q) = "used"})

\* All entries have been counted, and where they end.
CountedAll ==
  \E p \in First .. sectors * PER - 1 : kind(p) = "empty" /\ Counted(p, cnt)

CountInv ==
  /\ pc = "get_total_entries" =>
       /\ entries = <<>>
       /\ pos >= 0 => pos >= First /\ Counted(pos, cnt)
  /\ pc \in {"get_root_dir", "resolved"} => CountedAll

\* The first n entries of the root directory.
RootEntries(n) == [j \in 1 .. n |-> First + j - 1]

RootInv ==
  /\ pc = "get_root_dir" =>
       /\ left <= volume.root_entry_count
       /\ entries = RootEntries(volume.root_entry_count - left)
       /\ pos >= 0 => pos = First + volume.root_entry_count - left
  /\ pc = "resolved" =>
       /\ entries = RootEntries(volume.root_entry_count)
       /\ sector_end = last_sector(volume)

IInv ==
  TypeOK /\ DriveInv /\ HeaderInv /\ PositionInv /\ CountInv /\ RootInv /\ MountedIsReadable

\* What is so for every volume, Unwrapped or not.
PlaceInv ==
  /\ TypeOK /\ DriveInv /\ PositionInv
  /\ pc \in {"resolve_fs", "read_header"} => pos = 0
  /\ pc \in {"get_total_entries", "get_root_dir"} => header = volume /\ volume.signed

\* Nothing has wrapped, nothing behind the disk has been asked for, and the
\* drive has answered every command.
WaitInv ==
  /\ drive # "error"
  /\ pc \in {"get_total_entries", "get_root_dir"} => pos >= 0 /\ pos < Reach

-----------------------------------------------------------------------------
(* Numbers.                                                                *)

\* Division with remainder has one result, below 0 too.
LEMMA Division ==
  ASSUME NEW a \in Int, NEW m \in Nat \ {0}
  PROVE  /\ a \div m \in Int /\ a % m \in Nat /\ a % m < m
         /\ a = (a \div m) * m + (a % m)
BY SMT

LEMMA Product ==
  ASSUME NEW a \in Int, NEW b \in Int
  PROVE  a * b \in Int /\ (a \in Nat /\ b \in Nat => a * b \in Nat)
BY SMT

\* A smaller block starts a block or more below.
LEMMA BlockBelow ==
  ASSUME NEW m \in Nat \ {0}, NEW p \in Int, NEW q \in Int, p < q
  PROVE  p * m + m <= q * m
<1>1. (q - p - 1) * m >= 0
  BY SMT
<1>2. (q - p - 1) * m = q * m - p * m - m
  BY SMT
<1>3. q * m \in Int /\ p * m \in Int
  BY Product
<1> QED
  BY <1>1, <1>2, <1>3

LEMMA DivisionUnique ==
  ASSUME NEW m \in Nat \ {0}, NEW q \in Int, NEW r \in Nat, r < m
  PROVE  (q * m + r) \div m = q /\ (q * m + r) % m = r
<1> DEFINE a == q * m + r
           p == a \div m
           s == a % m
<1>1. a \in Int
  BY Product
<1>2. p \in Int /\ s \in Nat /\ s < m /\ a = p * m + s
  <2> HIDE DEF a
  <2> QED
    BY <1>1, Division
<1>3. q * m + r = p * m + s
  BY <1>2
<1> HIDE DEF a, p, s
<1>4. q * m \in Int /\ p * m \in Int
  BY <1>2, Product
<1>5. p < q => p * m + m <= q * m
  BY <1>2, BlockBelow
<1>6. q < p => q * m + m <= p * m
  BY <1>2, BlockBelow
<1>7. p = q
  BY <1>2, <1>3, <1>4, <1>5, <1>6
<1>8. r = s
  BY <1>2, <1>3, <1>4, <1>7
<1> QED
  BY <1>7, <1>8 DEF a, p, s

LEMMA Small ==
  ASSUME NEW a \in Nat, NEW m \in Nat \ {0}, a < m
  PROVE  a \div m = 0 /\ a % m = a
<1>1. (0 * m + a) \div m = 0 /\ (0 * m + a) % m = a
  BY DivisionUnique
<1>2. 0 * m + a = a
  BY SMT
<1> QED
  BY <1>1, <1>2

\* A number lies below a block exactly if the block it is in does.
LEMMA BlockOf ==
  ASSUME NEW a \in Int, NEW m \in Nat \ {0}, NEW q \in Int
  PROVE  a \div m < q <=> a < q * m
<1> DEFINE p == a \div m
           r == a % m
<1>1. p \in Int /\ r \in Nat /\ r < m /\ a = p * m + r
  BY Division
<1>2. p * m \in Int /\ q * m \in Int
  BY <1>1, Product
<1> HIDE DEF p, r
<1>3. p < q => p * m + m <= q * m
  BY <1>1, BlockBelow
<1>4. q < p => q * m + m <= p * m
  BY <1>1, BlockBelow
<1>5. p < q => a < q * m
  BY <1>1, <1>2, <1>3
<1>6. q < p => q * m <= a
  BY <1>1, <1>2, <1>4
<1>7. q = p => q * m <= a
  BY <1>1, <1>2
<1> QED
  BY <1>1, <1>2, <1>5, <1>6, <1>7 DEF p

\* Dividing twice is dividing by the product.
LEMMA DivisionTwice ==
  ASSUME NEW a \in Int, NEW m \in Nat \ {0}, NEW n \in Nat \ {0}
  PROVE  (a \div m) \div n = a \div (n * m)
<1> DEFINE q == a \div m
           r == a % m
           p == q \div n
           t == q % n
<1>1. q \in Int /\ r \in Nat /\ r < m /\ a = q * m + r
  BY Division
<1>2. p \in Int /\ t \in Nat /\ t < n /\ q = p * n + t
  BY <1>1, Division
<1> HIDE DEF q, r, p, t
<1>3. t * m + m <= n * m
  BY <1>2, BlockBelow
<1>4. t * m \in Nat /\ n * m \in Nat
  BY <1>2, Product
<1>5. t * m + r \in Nat /\ t * m + r < n * m /\ n * m \in Nat \ {0}
  BY <1>1, <1>3, <1>4
<1>6. a = p * (n * m) + (t * m + r)
  <2>1. q * m = p * (n * m) + t * m
    BY <1>2, SMT
  <2>2. p * (n * m) \in Int
    BY <1>2, <1>4, Product
  <2> QED
    BY <1>1, <1>4, <2>1, <2>2
<1> HIDE <1>6
<1>7. (p * (n * m) + (t * m + r)) \div (n * m) = p
  BY <1>2, <1>5, DivisionUnique
<1> QED
  BY <1>6, <1>7 DEF p, q

LEMMA Widths ==
  /\ PER \in Nat \ {0} /\ INT \in Nat \ {0} /\ BYTE \in Nat \ {0} /\ HEAD \in Nat \ {0}
  /\ BYTE2 \in Nat \ {0} /\ BYTE3 \in Nat \ {0} /\ 2 * HEAD \in Nat \ {0}
  /\ HEAD * BYTE3 \in Nat \ {0}
  /\ (2 * HEAD) * BYTE3 \in Nat \ {0} /\ (2 * HEAD) * BYTE3 = 2 * (HEAD * BYTE3)
  /\ INT \div PER \in Nat \ {0} /\ INT = (INT \div PER) * PER /\ PER <= INT
  /\ INT \div PER <= HEAD * BYTE3
<1>1. /\ PER \in Nat \ {0} /\ INT \in Nat \ {0} /\ BYTE \in Nat \ {0} /\ HEAD \in Nat \ {0}
      /\ INT % PER = 0
      /\ INT \div PER <= HEAD * BYTE3
  BY WidthAssumption
<1>2. BYTE2 \in Nat \ {0}
  BY <1>1, SMT DEF BYTE2
<1>3. BYTE3 \in Nat \ {0}
  BY <1>1, <1>2, SMT DEF BYTE3
<1>4. HEAD * BYTE3 \in Nat \ {0}
  BY <1>1, <1>3, SMT
<1>10. 2 * HEAD \in Nat \ {0} /\ (2 * HEAD) * BYTE3 = 2 * (HEAD * BYTE3)
  BY <1>1, <1>3, SMT
<1>11. (2 * HEAD) * BYTE3 \in Nat \ {0}
  <2> DEFINE M == HEAD * BYTE3
  <2>1. M \in Nat \ {0} /\ (2 * HEAD) * BYTE3 = 2 * M
    BY <1>4, <1>10
  <2> HIDE DEF M
  <2>2. 2 * M \in Nat \ {0}
    BY <2>1
  <2> QED
    BY <2>1, <2>2
<1> DEFINE k == INT \div PER
<1>5. k \in Int /\ INT = k * PER + 0
  BY <1>1, Division
<1>6. 0 < k
  <2>1. k < 1 <=> INT < 1 * PER
    BY <1>1, BlockOf
  <2>2. k < 0 <=> INT < 0 * PER
    BY <1>1, BlockOf
  <2>3. ~(k < 0)
    BY <1>1, <2>2
  <2> HIDE DEF k
  <2>4. k = 0 => INT = 0
    BY <1>1, <1>5, SMT
  <2> QED
    BY <1>1, <1>5, <2>3, <2>4
<1> HIDE DEF k
<1>7. 0 * PER + PER <= k * PER
  BY <1>1, <1>5, <1>6, BlockBelow
<1>8. k * PER \in Int
  BY <1>1, <1>5, Product
<1>9. INT = k * PER /\ PER <= INT /\ k \in Nat \ {0}
  BY <1>1, <1>5, <1>6, <1>7, <1>8
<1> QED
  BY <1>1, <1>2, <1>3, <1>4, <1>9, <1>10, <1>11 DEF k

LEMMA DiskSize ==
  ASSUME sectors \in Disks
  PROVE  sectors \in Nat \ {0} /\ sectors <= HEAD * BYTE3 /\ sectors * PER \in Nat \ {0}
<1> DEFINE M == HEAD * BYTE3
<1>1. M \in Nat \ {0} /\ sectors \in 1 .. M
  BY Widths, DisksAssumption
<1> HIDE DEF M
<1>2. sectors \in Nat \ {0} /\ sectors <= M
  BY <1>1
<1>3. sectors * PER \in Nat \ {0}
  BY <1>2, Widths, SMT
<1> QED
  BY <1>2, <1>3 DEF M

\* The drive's registers hold a sector's number, as far as they are wide, the
\* bit that selects the drive included.
LEMMA Addressed ==
  ASSUME NEW s \in Int
  PROVE  addressed(ports(s)) = s % ((2 * HEAD) * BYTE3)
<1> DEFINE H == 2 * HEAD
           q1 == s \div BYTE
           q2 == s \div BYTE2
           q3 == s \div BYTE3
           q4 == s \div (H * BYTE3)
           r0 == s % BYTE
           r1 == q1 % BYTE
           r2 == q2 % BYTE
           r3 == q3 % H
<1>0. H \in Nat \ {0} /\ H * BYTE3 \in Nat \ {0}
  BY Widths
<1>1. q1 \in Int /\ q2 \in Int /\ q3 \in Int /\ q4 \in Int
  BY <1>0, Widths, Division
<1>2. r0 \in Nat /\ r1 \in Nat /\ r2 \in Nat /\ r3 \in Nat
  BY <1>0, <1>1, Widths, Division
<1>3. q1 \div BYTE = q2 /\ q2 \div BYTE = q3 /\ q3 \div H = q4
  <2>1. q1 \div BYTE = s \div (BYTE * BYTE)
    BY <1>0, Widths, DivisionTwice
  <2>2. q2 \div BYTE = s \div (BYTE * BYTE2)
    BY <1>0, Widths, DivisionTwice
  <2>3. q3 \div H = s \div (H * BYTE3)
    BY <1>0, Widths, DivisionTwice
  <2>4. BYTE * BYTE2 = BYTE2 * BYTE
    BY Widths
  <2> QED
    BY <2>1, <2>2, <2>3, <2>4 DEF BYTE2, BYTE3
<1>4. s = q1 * BYTE + r0
  BY <1>0, Widths, Division
<1>5. q1 = q2 * BYTE + r1
  <2>1. q1 = (q1 \div BYTE) * BYTE + (q1 % BYTE)
    BY <1>0, <1>1, Widths, Division
  <2> QED
    BY <1>3, <2>1
<1>6. q2 = q3 * BYTE + r2
  <2>1. q2 = (q2 \div BYTE) * BYTE + (q2 % BYTE)
    BY <1>0, <1>1, Widths, Division
  <2> QED
    BY <1>3, <2>1
<1>7. q3 = q4 * H + r3
  <2>1. q3 = (q3 \div H) * H + (q3 % H)
    BY <1>0, <1>1, Widths, Division
  <2> QED
    BY <1>3, <2>1
<1>8. addressed(ports(s)) = r0 + r1 * BYTE + r2 * BYTE2 + r3 * BYTE3
  BY DEF addressed, ports
<1> DEFINE r == s % (H * BYTE3)
<1>9. s = q4 * (H * BYTE3) + r /\ r \in Nat
  BY <1>0, Widths, Division
<1> HIDE DEF H, q1, q2, q3, q4, r0, r1, r2, r3, r
<1>10. q1 * BYTE = q2 * BYTE2 + r1 * BYTE
  BY <1>1, <1>2, <1>5, Widths, SMT DEF BYTE2
<1>11. q2 * BYTE2 = q3 * BYTE3 + r2 * BYTE2
  BY <1>1, <1>2, <1>6, Widths, SMT DEF BYTE3
<1>12. q3 * BYTE3 = q4 * (H * BYTE3) + r3 * BYTE3
  BY <1>0, <1>1, <1>2, <1>7, Widths, SMT
<1>13. /\ q1 * BYTE \in Int /\ q2 * BYTE2 \in Int /\ q3 * BYTE3 \in Int
       /\ q4 * (H * BYTE3) \in Int
       /\ r1 * BYTE \in Int /\ r2 * BYTE2 \in Int /\ r3 * BYTE3 \in Int
  BY <1>0, <1>1, <1>2, Widths, Product
<1>14. s = q4 * (H * BYTE3) + (r0 + r1 * BYTE + r2 * BYTE2 + r3 * BYTE3)
  BY <1>2, <1>4, <1>10, <1>11, <1>12, <1>13
<1>15. r = r0 + r1 * BYTE + r2 * BYTE2 + r3 * BYTE3
  BY <1>2, <1>9, <1>13, <1>14
<1> QED
  BY <1>8, <1>15 DEF r, H

\* An int as long as it does not wrap, and what it wraps to.
LEMMA Wrapped ==
  ASSUME NEW n \in Nat, n < 2 * INT
  PROVE  int(n) = IF n < INT THEN n ELSE n - 2 * INT
<1>1. 2 * INT \in Nat \ {0} /\ n + INT \in Nat
  BY Widths
<1>2. CASE n < INT
  <2>1. (n + INT) % (2 * INT) = n + INT
    BY <1>1, <1>2, Widths, Small
  <2> QED
    BY <1>2, <2>1, Widths DEF int
<1>3. CASE n >= INT
  <2>1. n - INT \in Nat /\ n - INT < 2 * INT
    BY <1>3, Widths
  <2>2. (1 * (2 * INT) + (n - INT)) % (2 * INT) = n - INT
    BY <1>1, <2>1, DivisionUnique
  <2>3. 1 * (2 * INT) + (n - INT) = n + INT
    BY Widths
  <2> QED
    BY <1>3, <2>2, <2>3, Widths DEF int
<1> QED
  BY <1>2, <1>3, Widths

\* A sector of a position that is not negative is addressed as it is, and
\* what is read is the entry at that position, which the disk has.
LEMMA ReadsAtPosition ==
  ASSUME sectors \in Disks, pos \in 0 .. INT - 1, lba = addressed(ports(quotient(pos, PER))),
         lba < sectors
  PROVE  read_at = pos /\ pos \in 0 .. sectors * PER - 1
<1> DEFINE q == pos \div PER
           r == pos % PER
           M == (2 * HEAD) * BYTE3
           K == INT \div PER
<1>1. pos \in Nat /\ pos < INT
  BY Widths
<1>2. q \in Int /\ r \in Nat /\ pos = q * PER + r
  BY <1>1, Widths, Division
<1>3. q < K
  <2>1. K \in Int /\ K * PER = INT /\ PER \in Nat \ {0}
    BY Widths
  <2> HIDE DEF K
  <2>2. q < K <=> pos < K * PER
    BY <1>1, <2>1, BlockOf
  <2> QED
    BY <1>1, <2>1, <2>2
<1>4. q >= 0
  <2>1. q < 0 <=> pos < 0 * PER
    BY <1>1, Widths, BlockOf
  <2> QED
    BY <1>1, <1>2, <2>1, Widths
<1>5. quotient(pos, PER) = q
  BY <1>1 DEF quotient
<1> HIDE DEF q, r, M, K
<1>6. q \in Nat /\ q < M
  <2> DEFINE D == HEAD * BYTE3
  <2>1. K \in Nat /\ K <= D /\ D \in Nat \ {0} /\ M = 2 * D
    BY Widths DEF M, K
  <2> HIDE DEF D
  <2> QED
    BY <1>2, <1>3, <1>4, <2>1
<1>7. lba = q
  <2>1. addressed(ports(q)) = q % M
    BY <1>2, Addressed DEF M
  <2>2. q % M = q
    BY <1>6, Widths, Small DEF M
  <2> QED
    BY <1>5, <2>1, <2>2
<1>8. q * PER \in Int
  BY <1>2, Widths, Product
<1>9. read_at = pos
  <2>1. remainder(pos, PER) = pos - q * PER
    BY <1>5 DEF remainder
  <2> QED
    BY <1>1, <1>7, <1>8, <2>1 DEF read_at
<1>10. pos < sectors * PER
  <2>1. q < sectors <=> pos < sectors * PER
    BY <1>1, DiskSize, Widths, BlockOf DEF q
  <2> QED
    BY <1>7, <2>1
<1>11. sectors * PER \in Int
  BY DiskSize
<1> QED
  BY <1>1, <1>9, <1>10, <1>11

\* A negative position selects the second drive: its sector is none of the disk.
LEMMA NoSectorBelow ==
  ASSUME sectors \in Disks, pos \in -INT .. -PER
  PROVE  ~(addressed(ports(quotient(pos, PER))) < sectors)
<1> DEFINE n == -pos
           q == n \div PER
           M == (2 * HEAD) * BYTE3
           K == INT \div PER
<1>1. pos \in Int /\ pos < 0 /\ n \in Int /\ PER <= n /\ n <= INT
  BY Widths
<1>2. q \in Int
  BY <1>1, Widths, Division
<1>3. q >= 1
  <2>1. q < 1 <=> n < 1 * PER
    BY <1>1, Widths, BlockOf
  <2> HIDE DEF q, n
  <2> QED
    BY <1>1, <1>2, <2>1, Widths
<1>4. q <= K
  <2>1. K \in Int /\ K + 1 \in Int /\ K * PER = INT /\ PER \in Nat \ {0}
    BY Widths
  <2> HIDE DEF K
  <2>2. q < K + 1 <=> n < (K + 1) * PER
    BY <1>1, <2>1, BlockOf
  <2>3. (K + 1) * PER = K * PER + PER
    BY <2>1, SMT
  <2>4. n < (K + 1) * PER
    BY <1>1, <2>1, <2>3, Widths
  <2> HIDE DEF q
  <2> QED
    BY <1>2, <2>1, <2>2, <2>4
<1>5. quotient(pos, PER) = -q
  BY <1>1 DEF quotient
<1> HIDE DEF q, n, M, K
<1>6. /\ M \in Nat \ {0} /\ K \in Nat /\ M - q \in Nat /\ M - q < M
      /\ sectors <= M - q /\ sectors \in Nat
  <2> DEFINE D == HEAD * BYTE3
  <2>1. K \in Nat /\ K <= D /\ D \in Nat \ {0} /\ M = 2 * D /\ M \in Nat \ {0}
    BY Widths DEF M, K
  <2>2. sectors \in Nat /\ sectors <= D
    BY DiskSize
  <2> HIDE DEF D
  <2> QED
    BY <1>2, <1>3, <1>4, <2>1, <2>2
<1> DEFINE below == -1
<1>7. (below * M + (M - q)) % M = M - q
  <2>1. below \in Int
    OBVIOUS
  <2> HIDE DEF below
  <2> QED
    BY <1>6, <2>1, DivisionUnique
<1>8. below * M + (M - q) = -q
  BY <1>2, <1>6
<1>9. addressed(ports(-q)) = (-q) % M
  BY <1>2, Addressed DEF M
<1> QED
  BY <1>2, <1>5, <1>6, <1>7, <1>8, <1>9

LEMMA Multiple ==
  ASSUME NEW q \in Int
  PROVE  (q * PER) % PER = 0
<1>1. (q * PER + 0) % PER = 0
  BY Widths, DivisionUnique
<1>2. q * PER \in Int
  BY Widths, Product
<1> QED
  BY <1>1, <1>2

\* The positions the streams are put at.
Positions == -INT .. -PER \cup 0 .. INT - 1

\* An int that is whole sectors wraps to whole sectors.
LEMMA WrappedSectors ==
  ASSUME NEW s \in Int
  PROVE  int(s * PER) \in Positions /\ int(s * PER) % PER = 0
<1> DEFINE n == s * PER
           M == 2 * INT
           d == (n + INT) \div M
           r == (n + INT) % M
           K == INT \div PER
           t == s - d * (2 * K)
<1>1. n \in Int /\ M \in Nat \ {0} /\ n + INT \in Int
  BY Widths, Product
<1>2. d \in Int /\ r \in Nat /\ r < M /\ n + INT = d * M + r
  <2> HIDE DEF n, M
  <2> QED
    BY <1>1, Division
<1>3. int(n) = r - INT
  BY DEF int
<1>4. K \in Nat \ {0} /\ INT = K * PER
  BY Widths
<1> HIDE DEF n, d, r, K
<1>5. t \in Int /\ t * PER = n - d * M
  <2>1. d * (2 * K) \in Int
    BY <1>2, <1>4, Product
  <2>2. (d * (2 * K)) * PER = d * M
    BY <1>2, <1>4, Widths, SMT
  <2>3. (s - d * (2 * K)) * PER = s * PER - (d * (2 * K)) * PER
    BY <2>1, Widths, SMT
  <2> QED
    BY <2>1, <2>2, <2>3 DEF n
<1>6. int(n) = t * PER /\ d * M \in Int
  BY <1>1, <1>2, <1>3, <1>5, Widths, Product
<1> HIDE DEF M, t
<1>7. int(n) \in Int /\ -INT <= int(n) /\ int(n) < INT
  BY <1>1, <1>2, <1>3, Widths DEF M
<1>8. t < 0 => t * PER + PER <= 0 * PER
  BY <1>5, Widths, BlockBelow
<1>9. 0 <= t => 0 <= t * PER
  BY <1>5, Widths, Product
<1>10. int(n) \in Positions
  BY <1>5, <1>6, <1>7, <1>8, <1>9, Widths DEF Positions
<1>11. int(n) % PER = 0
  BY <1>5, <1>6, Multiple
<1> QED
  BY <1>10, <1>11 DEF n

LEMMA FirstPosition ==
  ASSUME volume \in Volumes
  PROVE  LET p == sector_to_address(root_sector(volume))
         IN  /\ First \in Nat /\ p \in Positions /\ p % PER = 0
             /\ First < INT => p = First
             /\ Unwrapped /\ p >= 0 => p = First
             /\ volume.root_entry_count \in Nat \ {0}
<1> DEFINE s == root_sector(volume)
           p == int(First)
<1>1. /\ volume.fat_count \in Nat /\ volume.sectors_per_fat \in Nat
      /\ volume.reserved_sectors \in Nat /\ volume.root_entry_count \in Nat \ {0}
  BY VolumesAssumption DEF Volume
<1>2. s \in Nat
  BY <1>1, Product DEF root_sector
<1>3. First \in Nat
  BY <1>2, Widths, Product DEF First
<1>4. p \in Positions /\ p % PER = 0
  <2> HIDE DEF s
  <2>1. s \in Int
    BY <1>2
  <2> QED
    BY <2>1, WrappedSectors DEF First, s
<1>5. First < 2 * INT => p = IF First < INT THEN First ELSE First - 2 * INT
  BY <1>3, Wrapped
<1>6. sector_to_address(s) = p
  BY DEF sector_to_address, First
<1> HIDE DEF p
<1>7. First < INT => p = First
  BY <1>3, <1>5, Widths
<1>8. Unwrapped /\ p >= 0 => p = First
  BY <1>3, <1>5, Widths DEF Unwrapped
<1> QED
  BY <1>1, <1>3, <1>4, <1>6, <1>7, <1>8

LEMMA NextPosition ==
  ASSUME pos \in 0 .. INT - 1
  PROVE  next_position \in Positions /\ (next_position >= 0 => next_position = pos + 1)
<1> DEFINE n == pos + 1
<1>1. n \in Nat /\ n <= INT /\ n < 2 * INT
  BY Widths
<1>2. int(n) = IF n < INT THEN n ELSE n - 2 * INT
  <2> HIDE DEF n
  <2> QED
    BY <1>1, Wrapped
<1> QED
  BY <1>1, <1>2, Widths DEF next_position, Positions

LEMMA NextSector ==
  ASSUME pos \in 0 .. INT - 1, pos % PER = 0
  PROVE  LET p == int(pos + PER)
         IN  p \in Positions /\ p % PER = 0 /\ (p >= 0 => p = pos + PER)
<1> DEFINE q == pos \div PER
           K == INT \div PER
           p == int(pos + PER)
<1>1. q \in Int /\ pos = q * PER + 0
  BY Widths, Division
<1>2. K \in Nat /\ INT = K * PER
  BY Widths
<1> HIDE DEF q, K
<1>3. q * PER \in Int /\ pos = q * PER /\ (q + 1) * PER = pos + PER
  BY <1>1, Widths, SMT
<1>4. q < K
  <2>1. K < q => K * PER + PER <= q * PER
    BY <1>1, <1>2, Widths, BlockBelow
  <2> QED
    BY <1>1, <1>2, <1>3, <2>1, Widths
<1>5. pos + PER <= INT
  <2>1. q * PER + PER <= K * PER
    BY <1>1, <1>2, <1>4, Widths, BlockBelow
  <2> QED
    BY <1>2, <1>3, <2>1
<1>6. pos + PER \in Nat /\ pos + PER < 2 * INT
  BY <1>5, Widths
<1>7. p = IF pos + PER < INT THEN pos + PER ELSE pos + PER - 2 * INT
  <2> DEFINE n == pos + PER
  <2>1. n \in Nat /\ n < 2 * INT
    BY <1>6
  <2>2. int(n) = IF n < INT THEN n ELSE n - 2 * INT
    <3> HIDE DEF n
    <3> QED
      BY <2>1, Wrapped
  <2>3. p = int(n)
    OBVIOUS
  <2> HIDE DEF p
  <2> QED
    BY <2>1, <2>2, <2>3, Widths
<1> HIDE DEF p
<1>8. CASE pos + PER < INT
  <2>1. q + 1 \in Int
    BY <1>1
  <2>2. ((q + 1) * PER) % PER = 0
    BY <2>1, Multiple
  <2>3. p = pos + PER /\ p % PER = 0
    BY <1>3, <1>7, <1>8, <2>2
  <2>4. p \in 0 .. INT - 1
    BY <1>6, <1>8, <2>3, Widths
  <2> QED
    BY <2>3, <2>4 DEF Positions, p
<1>9. CASE pos + PER = INT
  <2> DEFINE k == -K
  <2>1. k \in Int
    BY <1>2
  <2>2. (k * PER) % PER = 0
    BY <2>1, Multiple
  <2>3. k * PER = -INT
    BY <1>2, Widths, SMT
  <2>4. p = -INT
    BY <1>7, <1>9, Widths
  <2> QED
    BY <2>2, <2>3, <2>4, Widths DEF Positions, p
<1> QED
  BY <1>5, <1>6, <1>8, <1>9, Widths

LEMMA IntIsInt ==
  ASSUME NEW n \in Int
  PROVE  int(n) \in Int
<1>1. 2 * INT \in Nat \ {0} /\ n + INT \in Int
  BY Widths
<1>2. (n + INT) % (2 * INT) \in Nat
  BY <1>1, Division
<1> QED
  BY <1>2, Widths DEF int

\* What the drive has sent is the entry the kernel wants.
LEMMA ReadyAtPosition ==
  ASSUME IInv, drive = "ready", pc \in {"get_total_entries", "get_root_dir"}
  PROVE  pos \in 0 .. INT - 1 /\ read_at = pos /\ pos \in 0 .. sectors * PER - 1
<1>1. /\ pos \in -INT .. -PER \/ pos \in 0 .. INT - 1
      /\ lba = addressed(ports(quotient(pos, PER))) /\ lba < sectors
  BY DEF IInv, DriveInv, PositionInv
<1>2. sectors \in Disks
  BY DEF IInv, TypeOK
<1> QED
  BY <1>1, <1>2, NoSectorBelow, ReadsAtPosition

-----------------------------------------------------------------------------
(* Counting the entries, and the root directory.                           *)

LEMMA CountedFirst ==
  ASSUME First \in Nat
  PROVE  Counted(First, 0)
<1>1. First .. First - 1 = {}
  OBVIOUS
<1>2. {q \in First .. First - 1 : kind(q) = "used"} = {}
  BY <1>1
<1>3. Cardinality({}) = 0
  BY FS_EmptySet
<1> QED
  BY <1>1, <1>2, <1>3 DEF Counted

LEMMA CountedNext ==
  ASSUME First \in Nat, NEW p \in Nat, p >= First, NEW n \in Nat, Counted(p, n),
         kind(p) # "empty"
  PROVE  Counted(p + 1, IF kind(p) = "used" THEN n + 1 ELSE n)
<1> DEFINE f == First
           S == {q \in f .. p - 1 : kind(q) = "used"}
           T == {q \in f .. p : kind(q) = "used"}
<1> HIDE DEF f
<1>1. f \in Nat /\ p >= f
  BY DEF f
<1>2. f .. p = (f .. p - 1) \cup {p} /\ p \notin f .. p - 1 /\ (p + 1) - 1 = p
  BY <1>1
<1>3. S \subseteq f .. p - 1 /\ IsFiniteSet(f .. p - 1)
  BY <1>1, FS_Interval
<1>4. IsFiniteSet(S) /\ p \notin S
  BY <1>2, <1>3, FS_Subset
<1>5. T = IF kind(p) = "used" THEN S \cup {p} ELSE S
  BY <1>2
<1>6. n = Cardinality(S)
  BY DEF Counted, f
<1>7. Cardinality(S \cup {p}) = n + 1
  BY <1>4, <1>6, FS_AddElement
<1>8. \A q \in f .. p : kind(q) # "empty"
  BY <1>2 DEF Counted, f
<1> HIDE DEF S
<1>9. Cardinality(T) = IF kind(p) = "used" THEN n + 1 ELSE n
  BY <1>5, <1>6, <1>7
<1> QED
  BY <1>2, <1>8, <1>9 DEF Counted, f

\* A sector's worth more of the root directory's entries.
LEMMA RootEntriesNext ==
  ASSUME First \in Nat, NEW m \in Nat, NEW n \in Nat
  PROVE  RootEntries(m) \o [j \in 1 .. n |-> First + m + j - 1] = RootEntries(m + n)
<1> DEFINE f == First
           s == [j \in 1 .. m |-> f + j - 1]
           t == [j \in 1 .. n |-> f + m + j - 1]
           u == [j \in 1 .. m + n |-> f + j - 1]
<1> HIDE DEF f
<1>1. f \in Nat
  BY DEF f
<1>2. s \in Seq(Int) /\ t \in Seq(Int) /\ u \in Seq(Int)
  <2>1. s \in [1 .. m -> Int] /\ t \in [1 .. n -> Int] /\ u \in [1 .. m + n -> Int] /\ m + n \in Nat
    BY <1>1
  <2> QED
    BY <2>1, SeqDef
<1>3. Len(s) = m /\ Len(t) = n /\ Len(u) = m + n
  BY <1>1
<1>4. /\ s \o t \in Seq(Int) /\ Len(s \o t) = m + n
      /\ \A i \in 1 .. m + n : (s \o t)[i] = IF i <= m THEN s[i] ELSE t[i - m]
  <2> HIDE DEF s, t
  <2> QED
    BY <1>2, <1>3, ConcatProperties
<1>5. \A i \in 1 .. m + n : (IF i <= m THEN s[i] ELSE t[i - m]) = u[i]
  BY <1>1
<1>6. s \o t = u
  <2> HIDE DEF s, t, u
  <2>1. \A i \in 1 .. Len(s \o t) : (s \o t)[i] = u[i]
    BY <1>4, <1>5
  <2> QED
    BY <1>2, <1>3, <1>4, <2>1, SeqEqual
<1> QED
  BY <1>6 DEF RootEntries, f

\* The disk does not change, nor what is where on it.
LEMMA DiskStays ==
  ASSUME UNCHANGED disk
  PROVE  /\ First' = First /\ UNCHANGED <<sectors, volume, area, rest>>
         /\ \A p, n : Counted(p, n)' = Counted(p, n)
         /\ \A n : RootEntries(n)' = RootEntries(n)
BY DEF disk, First, Counted, RootEntries, kind

-----------------------------------------------------------------------------
(* The invariant, step by step.                                            *)

LEMMA InitIInv == Init => IInv
BY DEF Init, IInv, TypeOK, Reading, DriveInv, HeaderInv, PositionInv, CountInv, RootInv,
       MountedIsReadable

LEMMA ResolveKeeps ==
  ASSUME IInv, resolve_fat16
  PROVE  IInv'
<1> USE DEF resolve_fat16, disk, root, stream
<1>1. TypeOK' /\ DriveInv'
  BY DEF IInv, TypeOK, DriveInv, Reading
<1>2. HeaderInv' /\ PositionInv' /\ CountInv' /\ RootInv' /\ MountedIsReadable'
  BY DEF IInv, HeaderInv, PositionInv, CountInv, RootInv, MountedIsReadable
<1> QED
  BY <1>1, <1>2 DEF IInv

\* The drive is given a command, or answers one.
LEMMA DriveKeeps ==
  ASSUME IInv, read_disk_sector \/ drive_answers
  PROVE  IInv'
<1>1. /\ UNCHANGED <<disk, filesystem, live, header, root, pc, pos, left>>
      /\ UNCHANGED <<sectors, volume, area, rest, cnt, entries, sector_end>>
  BY DEF read_disk_sector, drive_answers, disk, root, stream
<1>2. TypeOK'
  BY <1>1 DEF IInv, TypeOK, read_disk_sector, drive_answers
<1>3. DriveInv'
  BY <1>1 DEF IInv, DriveInv, TypeOK, read_disk_sector, drive_answers
<1>4. HeaderInv' /\ PositionInv'
  BY <1>1 DEF IInv, HeaderInv, PositionInv
<1>5. CountInv' /\ RootInv' /\ MountedIsReadable'
  <2>1. pc # "done"
    BY DEF IInv, DriveInv, Reading, read_disk_sector, drive_answers
  <2>2. First' = First /\ kind(0)' = kind(0)
    BY <1>1 DEF First, kind
  <2> QED
    BY <1>1, <2>1, <2>2, DiskStays
       DEF IInv, CountInv, RootInv, MountedIsReadable, CountedAll, kind
<1> QED
  BY <1>2, <1>3, <1>4, <1>5 DEF IInv

LEMMA HeaderReadKeeps ==
  ASSUME Unwrapped, IInv, header_read
  PROVE  IInv'
<1> DEFINE p == sector_to_address(root_sector(volume))
<1>1. /\ UNCHANGED <<disk, filesystem, cnt, entries, sector_end, left, lba>>
      /\ UNCHANGED <<sectors, volume, area, rest>>
      /\ pc = "read_header" /\ header' = volume /\ drive' = "idle"
  BY DEF header_read, disk, root
<1>2. /\ First \in Nat /\ p \in Positions /\ (p >= 0 => p = First)
  BY FirstPosition DEF IInv, TypeOK
<1>3. cnt = 0 /\ entries = <<>> /\ live = Streams \cup {"data", "stream"}
  BY <1>1 DEF IInv, HeaderInv
<1>4. CASE volume.signed
  <2>1. pc' = "get_total_entries" /\ pos' = p /\ UNCHANGED live
    BY <1>1, <1>4 DEF header_read
  <2> HIDE DEF p
  <2>2. p \in Int /\ (p \in -INT .. -PER \/ p \in 0 .. INT - 1)
    BY <1>2, Widths DEF Positions
  <2>3. TypeOK' /\ DriveInv'
    BY <1>1, <2>1, <2>2 DEF IInv, TypeOK, DriveInv, Reading
  <2>4. HeaderInv' /\ PositionInv'
    BY <1>1, <1>3, <1>4, <2>1, <2>2 DEF HeaderInv, PositionInv
  <2>5. CountInv'
    <3>1. Counted(First, 0)
      BY <1>2, CountedFirst
    <3>2. First' = First /\ Counted(First, 0)'
      BY <1>1, <3>1, DiskStays
    <3>3. pos' >= 0 => Counted(pos, cnt)' /\ pos' >= First'
      BY <1>1, <1>2, <1>3, <2>1, <3>2 DEF Counted
    <3> QED
      BY <1>1, <1>3, <2>1, <3>3 DEF CountInv
  <2>6. RootInv' /\ MountedIsReadable'
    BY <2>1 DEF RootInv, MountedIsReadable
  <2> QED
    BY <2>3, <2>4, <2>5, <2>6 DEF IInv
<1>5. CASE ~volume.signed
  <2>1. pc' = "refused" /\ UNCHANGED pos
    BY <1>1, <1>5 DEF header_read, refuse
  <2>2. TypeOK' /\ DriveInv'
    BY <1>1, <2>1 DEF IInv, TypeOK, DriveInv
  <2>3. HeaderInv' /\ PositionInv' /\ CountInv' /\ RootInv' /\ MountedIsReadable'
    BY <1>1, <1>5, <2>1 DEF HeaderInv, PositionInv, CountInv, RootInv, MountedIsReadable
  <2> QED
    BY <2>2, <2>3 DEF IInv
<1> QED
  BY <1>4, <1>5

LEMMA CountKeeps ==
  ASSUME Unwrapped, IInv, count_entry
  PROVE  IInv'
<1> DEFINE p == sector_to_address(root_sector(volume))
<1>1. /\ UNCHANGED <<disk, filesystem, header, entries, sector_end, lba>>
      /\ UNCHANGED <<sectors, volume, area, rest>>
      /\ pc = "get_total_entries" /\ drive = "ready" /\ drive' = "idle"
  BY DEF count_entry, disk
<1>2. /\ First \in Nat /\ p \in Positions /\ p % PER = 0 /\ (p >= 0 => p = First)
      /\ volume.root_entry_count \in Nat \ {0}
  BY FirstPosition DEF IInv, TypeOK
<1>3. pos \in 0 .. INT - 1 /\ read_at = pos /\ pos \in 0 .. sectors * PER - 1
  BY <1>1, ReadyAtPosition
<1>4. /\ pos \in Nat /\ pos >= First /\ Counted(pos, cnt) /\ cnt \in Nat
      /\ entries = <<>> /\ volume.signed /\ header = volume
      /\ live = Streams \cup {"data", "stream"}
  BY <1>1, <1>3, Widths DEF IInv, CountInv, HeaderInv, TypeOK
<1>5. First' = First
  BY <1>1, DiskStays
<1>6. CASE kind(pos) = "empty"
  <2>1. /\ pc' = "get_root_dir" /\ live' = live \cup {"root"} /\ pos' = p
        /\ left' = volume.root_entry_count /\ UNCHANGED cnt
    BY <1>3, <1>4, <1>6 DEF count_entry
  <2> HIDE DEF p
  <2>2. p \in Int /\ (p \in -INT .. -PER \/ p \in 0 .. INT - 1)
    BY <1>2, Widths DEF Positions
  <2>3. TypeOK' /\ DriveInv'
    BY <1>1, <1>2, <2>1, <2>2 DEF IInv, TypeOK, DriveInv, Reading
  <2>4. HeaderInv' /\ PositionInv'
    BY <1>1, <1>2, <1>4, <2>1, <2>2 DEF HeaderInv, PositionInv, Streams
  <2>5. CountInv'
    <3>1. pos \in First .. sectors * PER - 1
      <4>1. sectors * PER \in Int
        BY DiskSize DEF IInv, TypeOK
      <4> QED
        BY <1>2, <1>3, <1>4, <4>1
    <3>2. CountedAll
      BY <1>4, <1>6, <3>1 DEF CountedAll
    <3>3. CountedAll'
      BY <1>1, <2>1, <3>2, DiskStays DEF CountedAll, Counted, kind
    <3> QED
      BY <2>1, <3>3 DEF CountInv
  <2>6. RootInv'
    <3>1. volume.root_entry_count - left' = 0 /\ left' <= volume.root_entry_count
      BY <1>2, <2>1
    <3>2. RootEntries(0) = <<>>
      BY DEF RootEntries
    <3>3. RootEntries(volume.root_entry_count - left)' = <<>>
      BY <1>1, <3>1, <3>2, DiskStays DEF RootEntries
    <3>4. pos' >= 0 => pos' = First + volume.root_entry_count - left'
      BY <1>2, <2>1
    <3> QED
      BY <1>1, <1>4, <1>5, <2>1, <3>1, <3>3, <3>4 DEF RootInv
  <2>7. MountedIsReadable'
    BY <2>1 DEF MountedIsReadable
  <2> QED
    BY <2>3, <2>4, <2>5, <2>6, <2>7 DEF IInv
<1>7. CASE kind(pos) # "empty"
  <2> DEFINE n == IF kind(pos) = "used" THEN cnt + 1 ELSE cnt
  <2>1. /\ pos' = next_position /\ cnt' = n /\ UNCHANGED <<pc, live, left>>
    BY <1>3, <1>7 DEF count_entry
  <2>2. next_position \in Positions /\ (next_position >= 0 => next_position = pos + 1)
    BY <1>3, NextPosition
  <2>3. /\ pos' \in Int /\ (pos' \in -INT .. -PER \/ pos' \in 0 .. INT - 1)
        /\ pos' >= 0 => pos' = pos + 1
    BY <2>1, <2>2, Widths DEF Positions
  <2>4. TypeOK' /\ DriveInv'
    BY <1>1, <1>4, <2>1, <2>3 DEF IInv, TypeOK, DriveInv
  <2>5. HeaderInv' /\ PositionInv'
    BY <1>1, <1>4, <2>1, <2>3 DEF HeaderInv, PositionInv
  <2>6. CountInv'
    <3>1. Counted(pos + 1, n)
      BY <1>2, <1>4, <1>7, CountedNext
    <3>2. pos' >= 0 => Counted(pos', cnt')
      BY <2>1, <2>3, <3>1
    <3>3. pos' >= 0 => Counted(pos, cnt)'
      BY <1>1, <1>5, <3>2 DEF Counted, kind
    <3>4. pos' >= 0 => pos' >= First'
      BY <1>2, <1>4, <1>5, <2>3
    <3> QED
      BY <1>1, <1>4, <2>1, <3>3, <3>4 DEF CountInv
  <2>7. RootInv' /\ MountedIsReadable'
    BY <1>1, <2>1 DEF RootInv, MountedIsReadable
  <2> QED
    BY <2>4, <2>5, <2>6, <2>7 DEF IInv
<1> QED
  BY <1>6, <1>7

LEMMA SectorKeeps ==
  ASSUME Unwrapped, IInv, sector_read
  PROVE  IInv'
<1> DEFINE count == volume.root_entry_count
           n == IF left > PER THEN PER ELSE left
<1>1. /\ UNCHANGED <<disk, filesystem, header, cnt, lba>> /\ UNCHANGED <<sectors, volume, area, rest>>
      /\ pc = "get_root_dir" /\ drive = "ready" /\ drive' = "idle"
      /\ entries' = entries \o [j \in 1 .. n |-> read_at + j - 1]
      /\ pos' = int(pos + n) /\ left' = left - n
  BY DEF sector_read, disk
<1>2. First \in Nat /\ count \in Nat \ {0}
  BY FirstPosition DEF IInv, TypeOK
<1>3. pos \in 0 .. INT - 1 /\ read_at = pos
  BY <1>1, ReadyAtPosition
<1>4. /\ pos \in Nat /\ left \in Nat /\ left <= count /\ pos % PER = 0
      /\ entries = RootEntries(count - left) /\ pos = First + count - left
      /\ volume.signed /\ header = volume /\ CountedAll
      /\ live = Streams \cup {"data", "stream", "root"}
  BY <1>1, <1>3, Widths DEF IInv, RootInv, CountInv, PositionInv, HeaderInv, TypeOK
<1>5. n \in Nat /\ n <= left
  BY <1>4, Widths
<1> HIDE DEF n, count
<1>6. entries' = RootEntries(count - (left - n))
  <2>1. count - left \in Nat /\ pos = First + (count - left)
    BY <1>2, <1>4
  <2>2. RootEntries(count - left) \o [j \in 1 .. n |-> First + (count - left) + j - 1]
          = RootEntries((count - left) + n)
    BY <1>2, <1>5, <2>1, RootEntriesNext
  <2>3. (count - left) + n = count - (left - n)
    BY <1>2, <1>4, <1>5
  <2> QED
    BY <1>1, <1>3, <1>4, <2>1, <2>2, <2>3
<1>7. CountedAll' /\ First' = First /\ count' = count
  <2>1. First' = First /\ sectors' = sectors /\ cnt' = cnt /\ count' = count
    BY <1>1, DiskStays DEF count
  <2>2. PICK p \in First .. sectors * PER - 1 : kind(p) = "empty" /\ Counted(p, cnt)
    BY <1>4 DEF CountedAll
  <2>3. kind(p)' = kind(p)
    BY <1>1 DEF kind
  <2>4. Counted(p, cnt)'
    BY <1>1, <2>1, <2>2, DiskStays DEF Counted, kind
  <2>5. CountedAll'
    BY <2>1, <2>2, <2>3, <2>4 DEF CountedAll
  <2> QED
    BY <2>1, <2>5
<1>8. pos' \in Int
  <2>1. pos + n \in Int
    BY <1>4, <1>5
  <2> QED
    BY <1>1, <2>1, IntIsInt
<1>9. CASE left > PER
  <2>1. n = PER
    BY <1>9 DEF n
  <2>2. UNCHANGED <<pc, live, sector_end>>
    BY <1>9 DEF sector_read, more_sectors
  <2>3. pos' \in Positions /\ pos' % PER = 0 /\ (pos' >= 0 => pos' = pos + PER)
    BY <1>1, <1>3, <1>4, <2>1, NextSector
  <2>4. pos' \in -INT .. -PER \/ pos' \in 0 .. INT - 1
    BY <2>3 DEF Positions
  <2>5. left' \in Nat /\ left' <= count
    BY <1>1, <1>2, <1>4, <1>5
  <2>6. TypeOK' /\ DriveInv'
    BY <1>1, <1>8, <2>2, <2>5 DEF IInv, TypeOK, DriveInv
  <2>7. HeaderInv' /\ PositionInv'
    BY <1>1, <1>4, <2>2, <2>3, <2>4 DEF HeaderInv, PositionInv
  <2>8. CountInv'
    BY <1>1, <1>7, <2>2 DEF CountInv
  <2>9. RootInv'
    <3>1. pos' >= 0 => pos' = First + count - left'
      BY <1>1, <1>2, <1>4, <2>1, <2>3, Widths
    <3>2. entries' = RootEntries(count - left')
      BY <1>1, <1>6
    <3>3. entries' = RootEntries(count - left)'
      BY <1>7, <3>2 DEF RootEntries
    <3> QED
      BY <1>1, <1>7, <2>2, <2>5, <3>1, <3>3 DEF RootInv, count
  <2>10. MountedIsReadable'
    BY <1>1, <2>2 DEF MountedIsReadable
  <2> QED
    BY <2>6, <2>7, <2>8, <2>9, <2>10 DEF IInv
<1>10. CASE ~(left > PER)
  <2>1. n = left
    BY <1>10 DEF n
  <2>2. sector_end' = last_sector(header) /\ live' = live \ {"stream"} /\ pc' = "resolved"
    BY <1>10 DEF sector_read, more_sectors
  <2>3. left' \in Nat
    BY <1>1, <1>4, <1>5
  <2>4. TypeOK' /\ DriveInv'
    BY <1>1, <1>8, <2>2, <2>3 DEF IInv, TypeOK, DriveInv
  <2>5. HeaderInv' /\ PositionInv'
    <3>1. live' = Streams \cup {"data", "root"}
      BY <1>4, <2>2 DEF Streams
    <3> QED
      BY <1>1, <1>4, <2>2, <3>1 DEF HeaderInv, PositionInv
  <2>6. CountInv'
    BY <1>7, <2>2 DEF CountInv
  <2>7. RootInv'
    <3>1. count - (left - n) = count
      BY <1>2, <1>4, <2>1
    <3>2. entries' = RootEntries(count)'
      BY <1>6, <1>7, <3>1 DEF RootEntries
    <3>3. sector_end' = last_sector(volume)'
      BY <1>1, <1>4, <2>2 DEF last_sector, root_sector
    <3> QED
      BY <2>2, <3>2, <3>3 DEF RootInv, count
  <2>8. MountedIsReadable'
    BY <2>2 DEF MountedIsReadable
  <2> QED
    BY <2>4, <2>5, <2>6, <2>7, <2>8 DEF IInv
<1> QED
  BY <1>9, <1>10

\* The root directory of whole sectors ends where the first cluster is.
LEMMA ClustersPlace ==
  ASSUME volume \in Volumes, volume.root_entry_count % PER = 0
  PROVE  last_sector(volume) = FirstClusterSector
<1> DEFINE n == volume.root_entry_count
           q == n \div PER
<1>1. n \in Nat /\ n % PER = 0
  BY VolumesAssumption DEF Volume
<1> HIDE DEF n
<1>2. q \in Int /\ n = q * PER + 0
  BY <1>1, Widths, Division
<1> HIDE DEF q
<1>3. PER - 1 \in Nat /\ PER - 1 < PER
  BY Widths
<1> DEFINE r == PER - 1
<1>4. (q * PER + r) \div PER = q
  <2> HIDE DEF r
  <2> QED
    BY <1>2, <1>3, Widths, DivisionUnique DEF r
<1>5. q * PER + r = n + PER - 1
  <2>1. q * PER \in Int
    BY <1>2, Widths, Product
  <2> QED
    BY <1>2, <2>1, Widths
<1> QED
  BY <1>4, <1>5 DEF last_sector, FirstClusterSector, n, q

LEMMA StoreKeeps ==
  ASSUME IInv, search_and_init_disk
  PROVE  IInv'
<1>1. /\ UNCHANGED <<disk, live, header, cnt, entries, sector_end, pos, left, lba, drive>>
      /\ UNCHANGED <<sectors, volume, area, rest>>
      /\ pc \in {"refused", "resolved"} /\ pc' = "done"
      /\ filesystem' = IF pc = "resolved" THEN "FAT16" ELSE "none"
  BY DEF search_and_init_disk, disk, root, stream
<1>2. TypeOK' /\ DriveInv'
  BY <1>1 DEF IInv, TypeOK, DriveInv, Reading
<1>3. HeaderInv' /\ PositionInv' /\ CountInv' /\ RootInv'
  BY <1>1 DEF HeaderInv, PositionInv, CountInv, RootInv
<1>4. filesystem' = IF volume.signed THEN "FAT16" ELSE "none"
  BY <1>1 DEF IInv, HeaderInv
<1>5. ASSUME filesystem' = "FAT16"
      PROVE  /\ live = Streams \cup {"data", "root"}
             /\ entries = RootEntries(volume.root_entry_count)
             /\ CountedAll
             /\ volume.root_entry_count % PER = 0 => sector_end = FirstClusterSector
  <2>1. pc = "resolved"
    BY <1>1, <1>5
  <2> QED
    BY <2>1, ClustersPlace DEF IInv, HeaderInv, RootInv, CountInv, TypeOK
<1>6. filesystem' = "FAT16" =>
        \E p \in First .. sectors * PER - 1 :
          /\ kind(p) = "empty"
          /\ \A q \in First .. p - 1 : kind(q) # "empty"
          /\ cnt = Cardinality({q \in First .. p - 1 : kind(q) = "used"})
  BY <1>5 DEF CountedAll, Counted
<1>7. First' = First /\ FirstClusterSector' = FirstClusterSector
  BY <1>1 DEF First, FirstClusterSector
<1>8. MountedIsReadable'
  BY <1>1, <1>4, <1>5, <1>6, <1>7 DEF MountedIsReadable, RootEntries, kind
<1> QED
  BY <1>2, <1>3, <1>8 DEF IInv

LEMMA StutterKeeps ==
  ASSUME IInv, UNCHANGED vars
  PROVE  IInv'
<1>1. /\ UNCHANGED <<sectors, volume, area, rest, filesystem, live, header, cnt, entries, sector_end>>
      /\ UNCHANGED <<pc, pos, left, lba, drive>>
  BY DEF vars, disk, root, stream
<1>2. UNCHANGED <<disk, First, FirstClusterSector>>
  BY <1>1 DEF disk, First, FirstClusterSector
<1>3. TypeOK' /\ DriveInv' /\ HeaderInv' /\ PositionInv'
  BY <1>1 DEF IInv, TypeOK, DriveInv, HeaderInv, PositionInv
<1>4. CountInv'
  BY <1>1, <1>2 DEF IInv, CountInv, CountedAll, Counted, kind
<1>5. RootInv'
  BY <1>1, <1>2 DEF IInv, RootInv, RootEntries
<1>6. MountedIsReadable'
  BY <1>1, <1>2 DEF IInv, MountedIsReadable, kind
<1> QED
  BY <1>3, <1>4, <1>5, <1>6 DEF IInv

\* The disk is what it is.
LEMMA UnwrappedStays ==
  ASSUME [Next]_vars
  PROVE  Unwrapped' = Unwrapped /\ UNCHANGED disk
<1>1. UNCHANGED disk
  BY DEF Next, kernel, resolve_fat16, read_disk_sector, header_read, count_entry, sector_read,
         search_and_init_disk, drive_answers, WaitForever, Done, vars
<1> QED
  BY <1>1, DiskStays DEF Unwrapped

LEMMA Invariance == Spec => [](Unwrapped => IInv)
<1>1. (Unwrapped => IInv) /\ [Next]_vars => (Unwrapped => IInv)'
  <2> SUFFICES ASSUME Unwrapped, IInv, [Next]_vars PROVE IInv'
    BY UnwrappedStays
  <2>1. CASE kernel
    BY <2>1, ResolveKeeps, DriveKeeps, HeaderReadKeeps, CountKeeps, SectorKeeps, StoreKeeps
       DEF kernel
  <2>2. CASE drive_answers
    BY <2>2, DriveKeeps
  <2>3. CASE WaitForever \/ Done \/ UNCHANGED vars
    BY <2>3, StutterKeeps DEF WaitForever, Done
  <2> QED
    BY <2>1, <2>2, <2>3 DEF Next
<1> QED
  BY <1>1, InitIInv, PTL DEF Spec

\* A disk is mounted exactly if it is signed, and then fopen and fread find
\* what they use of it: the streams, the whole root directory and no entry
\* from anywhere else, the count of its entries and the place of its clusters.
\* A root directory an int cannot reach is never mounted at all.
THEOREM Mounted == Spec => [](Unwrapped => MountedIsReadable)
<1>1. (Unwrapped => IInv) => (Unwrapped => MountedIsReadable)
  BY DEF IInv
<1> QED
  BY <1>1, Invariance, PTL

-----------------------------------------------------------------------------
(* The wait for the drive.                                                 *)

\* Triples that differ in their first, second or third number.
LEMMA LessFirst ==
  ASSUME NEW a, NEW b, 0 <= a[1], a[1] < b[1]
  PROVE  Less(a, b)
BY DEF Less

LEMMA LessSecond ==
  ASSUME NEW a, NEW b, a[1] = b[1], 0 <= a[2], a[2] < b[2]
  PROVE  Less(a, b)
BY DEF Less

LEMMA LessThird ==
  ASSUME NEW a, NEW b, a[1] = b[1], a[2] = b[2], 0 <= a[3], a[3] < b[3]
  PROVE  Less(a, b)
BY DEF Less

\* What the drive has sent comes from a position that has not wrapped.
LEMMA PlaceReads ==
  ASSUME PlaceInv, drive = "ready", pc \in {"get_total_entries", "get_root_dir"}
  PROVE  pos \in 0 .. INT - 1 /\ read_at = pos
<1>1. /\ pos \in -INT .. -PER \/ pos \in 0 .. INT - 1
      /\ lba = addressed(ports(quotient(pos, PER))) /\ lba < sectors
  BY DEF PlaceInv, DriveInv, PositionInv
<1>2. sectors \in Disks
  BY DEF PlaceInv, TypeOK
<1> QED
  BY <1>1, <1>2, NoSectorBelow, ReadsAtPosition

LEMMA InitPlace == Init => PlaceInv
BY DEF Init, PlaceInv, TypeOK, DriveInv, PositionInv

\* What is so for every volume stays so.
LEMMA PlaceKeeps ==
  ASSUME PlaceInv, [Next]_vars
  PROVE  PlaceInv'
<1>1. UNCHANGED volume /\ UNCHANGED sectors
  BY UnwrappedStays DEF disk
<1>2. CASE resolve_fat16
  BY <1>1, <1>2 DEF PlaceInv, TypeOK, DriveInv, PositionInv, Reading, resolve_fat16, root, stream
<1>3. CASE read_disk_sector \/ drive_answers
  <2>1. /\ UNCHANGED <<header, pc, pos, left, cnt>>
    BY <1>3 DEF read_disk_sector, drive_answers, root, stream
  <2>2. TypeOK' /\ PositionInv'
    BY <1>1, <1>3, <2>1 DEF PlaceInv, TypeOK, PositionInv, read_disk_sector, drive_answers
  <2>3. DriveInv'
    BY <1>1, <1>3, <2>1 DEF PlaceInv, DriveInv, TypeOK, read_disk_sector, drive_answers
  <2> QED
    BY <1>1, <2>1, <2>2, <2>3 DEF PlaceInv
<1>4. CASE header_read
  <2>1. /\ pc = "read_header" /\ drive' = "idle" /\ header' = volume /\ UNCHANGED <<cnt, left>>
        /\ \/ pc' = "get_total_entries" /\ pos' = sector_to_address(root_sector(volume))
           \/ pc' = "refused" /\ UNCHANGED pos
        /\ pc' = "get_total_entries" => volume.signed
    BY <1>4 DEF header_read, refuse, root
  <2>2. pc' = "get_total_entries" =>
          pos' \in Int /\ (pos' \in -INT .. -PER \/ pos' \in 0 .. INT - 1)
    BY <2>1, FirstPosition, Widths DEF PlaceInv, TypeOK, Positions
  <2>3. TypeOK' /\ PositionInv'
    <3>1. pos' \in Int
      BY <2>1, <2>2 DEF PlaceInv, TypeOK
    <3>2. TypeOK'
      BY <1>1, <2>1, <3>1 DEF PlaceInv, TypeOK, Reading
    <3>3. PositionInv'
      BY <2>1, <2>2 DEF PositionInv
    <3> QED
      BY <3>2, <3>3
  <2> QED
    BY <1>1, <2>1, <2>3 DEF PlaceInv, DriveInv
<1>5. CASE count_entry
  <2>1. /\ pc = "get_total_entries" /\ drive = "ready" /\ drive' = "idle" /\ header' = header
        /\ \/ /\ pc' = "get_root_dir" /\ pos' = sector_to_address(root_sector(header))
              /\ left' = header.root_entry_count /\ UNCHANGED cnt
           \/ /\ pc' = pc /\ pos' = next_position /\ left' = left
              /\ cnt' = cnt + 1 \/ cnt' = cnt
    BY <1>5 DEF count_entry
  <2>2. header = volume /\ pos \in 0 .. INT - 1
    BY <2>1, PlaceReads DEF PlaceInv
  <2>3. /\ pos' \in Positions /\ (pc' = "get_root_dir" => pos' % PER = 0)
        /\ left' \in Nat
    BY <2>1, <2>2, FirstPosition, NextPosition DEF PlaceInv, TypeOK
  <2>4. pos' \in Int /\ (pos' \in -INT .. -PER \/ pos' \in 0 .. INT - 1)
    BY <2>3, Widths DEF Positions
  <2>5. TypeOK'
    BY <1>1, <2>1, <2>3, <2>4 DEF PlaceInv, TypeOK, Reading
  <2>6. PositionInv'
    BY <2>1, <2>3, <2>4 DEF PositionInv
  <2> QED
    BY <1>1, <2>1, <2>2, <2>5, <2>6 DEF PlaceInv, DriveInv
<1>6. CASE sector_read
  <2> DEFINE n == IF left > PER THEN PER ELSE left
  <2>1. /\ pc = "get_root_dir" /\ drive = "ready" /\ drive' = "idle" /\ UNCHANGED <<header, cnt>>
        /\ pos' = int(pos + n) /\ left' = left - n
        /\ IF left > PER THEN pc' = pc ELSE pc' = "resolved"
    BY <1>6 DEF sector_read, more_sectors
  <2>2. /\ pos \in 0 .. INT - 1 /\ pos % PER = 0 /\ left \in Nat
        /\ header = volume
    BY <2>1, PlaceReads DEF PlaceInv, PositionInv, TypeOK
  <2>3. n \in Nat /\ left - n \in Nat
    BY <2>2, Widths
  <2>4. left > PER => pos' \in Positions /\ pos' % PER = 0
    BY <2>1, <2>2, NextSector
  <2> HIDE DEF n
  <2>5. pos' \in Int
    <3>1. pos + n \in Int
      BY <2>2, <2>3
    <3> QED
      BY <2>1, <3>1, IntIsInt
  <2>6. TypeOK' /\ PositionInv'
    BY <1>1, <2>1, <2>3, <2>4, <2>5, Widths DEF PlaceInv, TypeOK, PositionInv, Positions, Reading
  <2> QED
    BY <1>1, <2>1, <2>2, <2>6 DEF PlaceInv, DriveInv
<1>7. CASE search_and_init_disk
  BY <1>1, <1>7
     DEF PlaceInv, TypeOK, DriveInv, PositionInv, Reading, search_and_init_disk, root, stream
<1>8. CASE WaitForever \/ Done \/ UNCHANGED vars
  BY <1>8 DEF WaitForever, Done, PlaceInv, TypeOK, DriveInv, PositionInv, vars, disk, root, stream
<1> QED
  BY <1>2, <1>3, <1>4, <1>5, <1>6, <1>7, <1>8 DEF Next, kernel

LEMMA Placed == Spec => []PlaceInv
<1>1. PlaceInv /\ [Next]_vars => PlaceInv'
  BY PlaceKeeps
<1> QED
  BY <1>1, InitPlace, PTL DEF Spec

\* Every step leaves less to do, whatever the size of the disk.
LEMMA StepAdvances ==
  ASSUME PlaceInv, Next
  PROVE  Less(Todo', Todo) \/ UNCHANGED vars
<1>1. CASE resolve_fat16
  <2>1. 0 <= Todo'[1] /\ Todo'[1] < Todo[1]
    BY <1>1 DEF resolve_fat16, Todo
  <2> QED
    BY <2>1, LessFirst
<1>2. CASE read_disk_sector \/ drive_answers
  <2>1. pc \in Reading /\ UNCHANGED <<pc, pos, left>>
    BY <1>2 DEF read_disk_sector, drive_answers, stream, PlaceInv, DriveInv
  <2>2. Todo'[1] = Todo[1] /\ Todo'[2] = Todo[2]
    BY <2>1 DEF Reading, Todo
  <2>3. 0 <= Todo'[3] /\ Todo'[3] < Todo[3]
    <3>1. \/ drive = "idle" /\ drive' = "busy"
          \/ drive = "busy" /\ drive' \in {"ready", "error"}
      BY <1>2 DEF read_disk_sector, drive_answers
    <3> QED
      BY <3>1 DEF Todo
  <2> QED
    BY <2>2, <2>3, LessThird
<1>3. CASE header_read
  <2>1. pc = "read_header" /\ pc' \in {"get_total_entries", "refused"}
    BY <1>3 DEF header_read, refuse
  <2>2. 0 <= Todo'[1] /\ Todo'[1] < Todo[1]
    BY <2>1 DEF Todo
  <2> QED
    BY <2>2, LessFirst
<1>4. CASE count_entry
  <2>1. pc = "get_total_entries" /\ drive = "ready"
    BY <1>4 DEF count_entry
  <2>2. pos \in Nat /\ pos < INT /\ pos \in 0 .. INT - 1
    BY <2>1, PlaceReads, Widths
  <2>3. CASE pc' = "get_root_dir"
    <3>1. 0 <= Todo'[1] /\ Todo'[1] < Todo[1]
      BY <2>1, <2>3 DEF Todo
    <3> QED
      BY <3>1, LessFirst
  <2>4. CASE pc' = pc /\ pos' = next_position
    <3>1. pos' \in Int /\ pos' < INT /\ (pos' >= 0 => pos' = pos + 1)
      BY <2>2, <2>4, NextPosition, Widths DEF Positions
    <3>2. Todo'[1] = Todo[1]
      BY <2>1, <2>4 DEF Todo
    <3>3. Todo[2] = INT - pos /\ Todo'[2] = (IF pos' < 0 THEN 0 ELSE INT - pos')
      BY <2>1, <2>2, <2>4 DEF Todo
    <3>4. 0 <= Todo'[2] /\ Todo'[2] < Todo[2]
      <4>1. INT \in Nat
        BY Widths
      <4>2. CASE pos' < 0
        BY <2>2, <3>3, <4>1, <4>2
      <4>3. CASE pos' >= 0
        BY <2>2, <3>1, <3>3, <4>1, <4>3
      <4> QED
        BY <3>1, <4>2, <4>3
    <3> QED
      BY <3>2, <3>4, LessSecond
  <2> QED
    BY <1>4, <2>3, <2>4 DEF count_entry
<1>5. CASE sector_read
  <2>1. pc = "get_root_dir"
    BY <1>5 DEF sector_read
  <2>2. CASE left > PER
    <3>1. pc' = pc /\ left' = left - PER
      BY <1>5, <2>2 DEF sector_read, more_sectors
    <3>2. 0 <= left' /\ left' < left
      BY <2>2, <3>1, Widths DEF PlaceInv, TypeOK
    <3>3. Todo'[1] = Todo[1] /\ Todo[2] = left /\ Todo'[2] = left'
      BY <2>1, <3>1 DEF Todo
    <3> QED
      BY <3>2, <3>3, LessSecond
  <2>3. CASE ~(left > PER)
    <3>1. pc' = "resolved"
      BY <1>5, <2>3 DEF sector_read, more_sectors
    <3>2. 0 <= Todo'[1] /\ Todo'[1] < Todo[1]
      BY <2>1, <3>1 DEF Todo
    <3> QED
      BY <3>2, LessFirst
  <2> QED
    BY <2>2, <2>3
<1>6. CASE search_and_init_disk
  <2>1. pc \in {"refused", "resolved"} /\ pc' = "done"
    BY <1>6 DEF search_and_init_disk
  <2>2. 0 <= Todo'[1] /\ Todo'[1] < Todo[1]
    BY <2>1 DEF Todo
  <2> QED
    BY <2>2, LessFirst
<1>7. CASE WaitForever \/ Done
  BY <1>7 DEF WaitForever, Done
<1> QED
  BY <1>1, <1>2, <1>3, <1>4, <1>5, <1>6, <1>7 DEF Next, kernel

\* Mounting cannot go on for ever: every step of the kernel or the drive that
\* changes anything leaves less to do, on disks of every size, smaller and larger
\* than an int can address, and for ints that wrap.
THEOREM Advances == Spec => MountAdvances
<1>1. PlaceInv /\ [Next]_vars => [Less(Todo', Todo)]_vars
  BY StepAdvances
<1> QED
  BY <1>1, Placed, PTL DEF Spec, MountAdvances

-----------------------------------------------------------------------------
(* Signed volumes that end.                                                *)

\* What can be addressed of the disk.
LEMMA ReachIs ==
  ASSUME sectors \in Disks
  PROVE  Reach \in Nat \ {0} /\ Reach <= INT /\ Reach <= sectors * PER
BY DiskSize, Widths DEF Reach

\* What the premise of NeverWaits says of a signed volume.
LEMMA EndsBelow ==
  ASSUME Ends, volume \in Volumes, sectors \in Disks
  PROVE  /\ First \in Nat /\ First < Reach /\ Unwrapped
         /\ volume.root_entry_count \in Nat \ {0}
         /\ First + volume.root_entry_count <= Reach
         /\ sector_to_address(root_sector(volume)) = First
<1>1. First \in Nat /\ volume.root_entry_count \in Nat \ {0}
  BY FirstPosition
<1>2. First + volume.root_entry_count <= Reach
  BY DEF Ends
<1>3. First < Reach
  BY <1>1, <1>2, ReachIs
<1>4. First < INT
  BY <1>1, <1>3, ReachIs, Widths
<1> QED
  BY <1>1, <1>2, <1>3, <1>4, FirstPosition, Widths DEF Unwrapped

\* The sector of a position that can be addressed of the disk is one of it.
LEMMA DiskHasSector ==
  ASSUME sectors \in Disks, pos \in Nat, pos < Reach
  PROVE  addressed(ports(quotient(pos, PER))) < sectors
<1> DEFINE q == pos \div PER
           M == (2 * HEAD) * BYTE3
<1>1. pos \in Nat /\ pos < sectors * PER
  BY ReachIs, DiskSize
<1>2. M \in Nat \ {0} /\ sectors \in Nat /\ sectors < M
  <2> DEFINE D == HEAD * BYTE3
  <2>1. D \in Nat \ {0} /\ M = 2 * D /\ sectors \in Nat /\ sectors <= D
    BY Widths, DiskSize
  <2> HIDE DEF D, M
  <2>2. 2 * D \in Nat \ {0} /\ D < 2 * D
    BY <2>1
  <2> QED
    BY <2>1, <2>2
<1>3. q \in Int /\ (q < sectors <=> pos < sectors * PER) /\ (q < 0 <=> pos < 0 * PER)
  BY <1>1, <1>2, Widths, Division, BlockOf
<1>4. quotient(pos, PER) = q
  BY <1>1 DEF quotient
<1>5. addressed(ports(q)) = q % M
  BY <1>3, Addressed
<1> HIDE DEF q, M
<1>6. q \in Nat /\ q < sectors
  BY <1>1, <1>3, Widths
<1>7. q % M = q
  BY <1>2, <1>6, Small
<1> QED
  BY <1>4, <1>5, <1>6, <1>7

\* Entries are read of a signed volume, and so of one that ends.
LEMMA SignedReads ==
  ASSUME volume.signed => Ends, volume \in Volumes, sectors \in Disks,
         Unwrapped => IInv, PlaceInv,
         pc \in {"get_total_entries", "get_root_dir"}
  PROVE  Ends /\ IInv
BY EndsBelow DEF PlaceInv

\* Under the premise of NeverWaits nothing wraps: counting stops at the empty
\* entry and loading at the end of the root directory.
LEMMA WaitKeeps ==
  ASSUME volume.signed => Ends, PlaceInv, Unwrapped => IInv, WaitInv, [Next]_vars
  PROVE  WaitInv'
<1>0. /\ sectors \in Disks /\ volume \in Volumes /\ Reach' = Reach
      /\ Reach \in Nat \ {0} /\ Reach <= INT
  <2>1. UNCHANGED sectors
    BY UnwrappedStays DEF disk
  <2>2. sectors \in Disks /\ volume \in Volumes
    BY DEF PlaceInv, TypeOK
  <2> QED
    BY <2>1, <2>2, ReachIs DEF Reach
<1>1. CASE resolve_fat16 \/ search_and_init_disk
  BY <1>1 DEF WaitInv, resolve_fat16, search_and_init_disk
<1>2. CASE read_disk_sector
  BY <1>0, <1>2 DEF WaitInv, read_disk_sector, stream
<1>3. CASE drive_answers
  <2>1. pc \in Reading /\ lba = addressed(ports(quotient(pos, PER)))
    BY <1>3 DEF PlaceInv, DriveInv, drive_answers
  <2>2. pos \in Nat /\ pos < Reach
    <3>1. CASE pc = "read_header"
      <4>1. pos = 0
        BY <3>1 DEF PlaceInv, PositionInv
      <4> QED
        BY <1>0, <4>1
    <3>2. CASE pc \in {"get_total_entries", "get_root_dir"}
      BY <3>2 DEF WaitInv, PlaceInv, TypeOK
    <3> QED
      BY <2>1, <3>1, <3>2 DEF Reading
  <2>3. lba < sectors
    BY <1>0, <2>1, <2>2, DiskHasSector
  <2> QED
    BY <1>0, <1>3, <2>3 DEF WaitInv, drive_answers, stream
<1>4. CASE header_read
  <2>1. /\ drive' = "idle" /\ header' = volume
        /\ IF volume.signed
           THEN pos' = sector_to_address(root_sector(volume))
           ELSE pc' = "refused"
    BY <1>4 DEF header_read, refuse
  <2> QED
    BY <1>0, <2>1, EndsBelow DEF WaitInv
<1>5. CASE count_entry
  <2>1. pc = "get_total_entries" /\ drive = "ready" /\ drive' = "idle"
    BY <1>5 DEF count_entry
  <2>2. pos \in 0 .. INT - 1 /\ read_at = pos /\ header = volume
    BY <2>1, PlaceReads DEF PlaceInv
  <2>3. Ends /\ First \in Nat /\ First < Reach /\ IInv
    BY <1>0, <2>1, SignedReads, EndsBelow
  <2>4. CASE kind(pos) = "empty"
    BY <1>0, <1>5, <2>1, <2>2, <2>3, <2>4, EndsBelow DEF count_entry, WaitInv
  <2>5. CASE kind(pos) # "empty"
    <3>1. pos \in Nat /\ pos >= First /\ \A q \in First .. pos - 1 : kind(q) # "empty"
      BY <2>1, <2>2, <2>3, Widths DEF IInv, CountInv, Counted
    <3>2. PICK p \in First .. Reach - 1 : kind(p) = "empty"
      BY <2>3 DEF Ends
    <3>3. p \in Int /\ p > pos /\ p < Reach
      BY <1>0, <2>3, <2>5, <3>1, <3>2
    <3>4. pos' = pos + 1
      <4>1. pos + 1 \in Nat /\ pos + 1 < INT /\ pos + 1 < 2 * INT
        BY <1>0, <3>1, <3>3, Widths
      <4>2. int(pos + 1) = pos + 1
        BY <4>1, Wrapped
      <4> QED
        BY <1>5, <2>2, <2>5, <4>2 DEF count_entry, next_position
    <3> QED
      BY <1>0, <2>1, <3>1, <3>3, <3>4 DEF WaitInv
  <2> QED
    BY <2>4, <2>5
<1>6. CASE sector_read
  <2>1. pc = "get_root_dir" /\ drive = "ready" /\ drive' = "idle"
    BY <1>6 DEF sector_read
  <2>2. pos \in 0 .. INT - 1
    BY <2>1, PlaceReads
  <2>3. Ends /\ First \in Nat /\ volume.root_entry_count \in Nat /\ IInv
    BY <1>0, <2>1, SignedReads, EndsBelow
  <2>4. /\ pos \in Nat /\ left \in Nat /\ pos = First + volume.root_entry_count - left
        /\ First + volume.root_entry_count <= Reach
    BY <2>1, <2>2, <2>3, Widths DEF IInv, RootInv, TypeOK, Ends
  <2>5. CASE left > PER
    <3>1. pos + PER \in Nat /\ pos + PER < Reach /\ pos + PER < INT /\ pos + PER < 2 * INT
      BY <1>0, <2>3, <2>4, <2>5, Widths
    <3>2. int(pos + PER) = pos + PER
      BY <3>1, Wrapped
    <3>3. pos' = pos + PER
      BY <1>6, <2>5, <3>2 DEF sector_read
    <3> QED
      BY <1>0, <2>1, <3>1, <3>3 DEF WaitInv
  <2>6. CASE ~(left > PER)
    BY <1>6, <2>1, <2>6 DEF sector_read, more_sectors, WaitInv
  <2> QED
    BY <2>5, <2>6
<1>7. CASE WaitForever \/ Done \/ UNCHANGED vars
  BY <1>0, <1>7 DEF WaitForever, Done, WaitInv, vars, stream
<1> QED
  BY <1>1, <1>2, <1>3, <1>4, <1>5, <1>6, <1>7 DEF Next, kernel

\* The kernel never waits in vain for a volume without a signature, nor for
\* one whose root directory is on the disk and where ints can address it, and
\* that has an empty entry there, in it or behind it: on disks of every size.
THEOREM Waits == Spec => []NeverWaits
<1> DEFINE Inv == (volume.signed => Ends) => WaitInv
<1>1. Init => Inv
  BY DEF Init, WaitInv
<1>2. PlaceInv /\ (Unwrapped => IInv) /\ Inv /\ [Next]_vars => Inv'
  <2> SUFFICES ASSUME PlaceInv, Unwrapped => IInv, Inv, [Next]_vars,
                      (volume.signed => Ends)'
               PROVE  WaitInv'
    OBVIOUS
  <2>1. volume' = volume /\ Ends' = Ends
    <3>1. UNCHANGED <<disk, sectors, volume, area, rest>>
      BY UnwrappedStays DEF disk
    <3> QED
      BY <3>1 DEF Ends, Reach, First, kind
  <2> QED
    BY <2>1, WaitKeeps
<1>3. Inv => NeverWaits
  BY DEF NeverWaits, WaitInv
<1> QED
  BY <1>1, <1>2, <1>3, Placed, Invariance, PTL DEF Spec
=============================================================================
