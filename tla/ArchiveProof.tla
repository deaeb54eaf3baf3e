---------------------------- MODULE ArchiveProof ----------------------------
(***************************************************************************)
(* The converter's promises about the directory it writes to, for every    *)
(* source and every sequence of conversions, failures and crashes.         *)
(***************************************************************************)
EXTENDS Archive, FiniteSetTheorems, SequenceTheorems, TLAPS

-----------------------------------------------------------------------------
(***************************************************************************)
(* The order of the partition keys.                                        *)
(***************************************************************************)

PartitionKeys == Nat \X Int

LEMMA CompareOrders ==
  /\ \A a, b, c \in PartitionKeys : Compare(a, b) /\ Compare(b, c) => Compare(a, c)
  /\ \A a, b \in PartitionKeys : a # b => Compare(a, b) \/ Compare(b, a)
  /\ \A a, b \in PartitionKeys : ~(Compare(a, b) /\ Compare(b, a))
  /\ \A a \in PartitionKeys : ~Compare(a, a)
BY DEF Compare, PartitionKeys

\* A set of numbers that is not empty has a least one.
LEMMA LeastNumber ==
  ASSUME NEW T \in SUBSET Nat, T # {}
  PROVE  \E x \in T : \A y \in T : x <= y
<1> DEFINE R == OpToRel(<, Nat)
<1>1. IsWellFoundedOn(R, Nat)
  BY NatLessThanWellFounded, Zenon
<1>2. \A x, y \in Nat : x < y => <<x, y>> \in R
  BY DEF OpToRel
<1>3. \E x \in T : \A y \in T : ~(<<y, x>> \in R)
  <2> HIDE DEF R
  <2> QED BY <1>1, WFMin
<1>4. PICK x \in T : \A y \in T : ~(<<y, x>> \in R)
  BY <1>3
<1>5. \A y \in T : ~(y < x)
  <2> HIDE DEF R
  <2> QED BY <1>2, <1>4, Zenon
<1>6. \A y \in T : y \in Int /\ x \in Int
  OBVIOUS
<1>7. \A y \in T : x <= y
  BY <1>5, <1>6
<1> QED BY <1>7

\* A finite set of keys has a first one and a last one.
LEMMA FirstOfKeys ==
  ASSUME NEW S \in SUBSET PartitionKeys, S # {}, IsFiniteSet(S)
  PROVE  /\ FirstKey(S) \in S /\ \A j \in S : j = FirstKey(S) \/ Compare(FirstKey(S), j)
<1> DEFINE below(k) == {j \in S : Compare(j, k)}
           counts == {Cardinality(below(k)) : k \in S}
<1>1. \A k \in S : IsFiniteSet(below(k)) /\ Cardinality(below(k)) \in Nat
  BY FS_Subset, FS_CardinalityType
<1>2. PICK n \in counts : \A m \in counts : n <= m
  <2>1. counts \in SUBSET Nat /\ counts # {}
    BY <1>1
  <2> HIDE DEF counts
  <2> QED BY <2>1, LeastNumber
<1>3. PICK k \in S : n = Cardinality(below(k))
  BY <1>2
<1>4. ASSUME NEW j \in S, Compare(j, k) PROVE FALSE
  <2>1. below(j) \subseteq below(k) /\ j \in below(k) /\ j \notin below(j)
    BY <1>4, CompareOrders
  <2>2. Cardinality(below(j)) < Cardinality(below(k))
    <3> HIDE DEF below
    <3>1. below(j) # below(k)
      BY <2>1
    <3>2. Cardinality(below(j)) <= Cardinality(below(k))
          /\ (Cardinality(below(j)) = Cardinality(below(k)) => below(j) = below(k))
      BY <1>1, <2>1, FS_Subset
    <3> QED BY <1>1, <3>1, <3>2
  <2>3. n <= Cardinality(below(j)) /\ n \in Nat
    BY <1>1, <1>2
  <2> QED BY <1>1, <1>3, <2>2, <2>3
<1>5. \A j \in S : j = k \/ Compare(k, j)
  BY <1>4, CompareOrders
<1> QED BY <1>5 DEF FirstKey

LEMMA LastOfKeys ==
  ASSUME NEW S, NEW k \in S, S \in SUBSET PartitionKeys,
         \A j \in S : j = k \/ Compare(j, k)
  PROVE  LastKey(S) = k
<1>1. ASSUME NEW i \in S, \A j \in S : j = i \/ Compare(j, i) PROVE i = k
  BY <1>1, CompareOrders
<1> QED BY <1>1 DEF LastKey

LEMMA LastInKeys ==
  ASSUME NEW S \in SUBSET PartitionKeys, S # {}, IsFiniteSet(S)
  PROVE  LastKey(S) \in S
<1> DEFINE below(k) == {j \in S : Compare(k, j)}
           counts == {Cardinality(below(k)) : k \in S}
<1>1. \A k \in S : IsFiniteSet(below(k)) /\ Cardinality(below(k)) \in Nat
  BY FS_Subset, FS_CardinalityType
<1>2. PICK n \in counts : \A m \in counts : n <= m
  <2>1. counts \in SUBSET Nat /\ counts # {}
    BY <1>1
  <2> HIDE DEF counts
  <2> QED BY <2>1, LeastNumber
<1>3. PICK k \in S : n = Cardinality(below(k))
  BY <1>2
<1>4. ASSUME NEW j \in S, Compare(k, j) PROVE FALSE
  <2>1. below(j) \subseteq below(k) /\ j \in below(k) /\ j \notin below(j)
    BY <1>4, CompareOrders
  <2>2. Cardinality(below(j)) < Cardinality(below(k))
    <3> HIDE DEF below
    <3>1. below(j) # below(k)
      BY <2>1
    <3>2. Cardinality(below(j)) <= Cardinality(below(k))
          /\ (Cardinality(below(j)) = Cardinality(below(k)) => below(j) = below(k))
      BY <1>1, <2>1, FS_Subset
    <3> QED BY <1>1, <3>1, <3>2
  <2>3. n <= Cardinality(below(j)) /\ n \in Nat
    BY <1>1, <1>2
  <2> HIDE DEF below
  <2> QED BY <1>1, <1>3, <2>2, <2>3
<1>5. \A j \in S : j = k \/ Compare(j, k)
  BY <1>4, CompareOrders
<1> QED BY <1>5, LastOfKeys

-----------------------------------------------------------------------------
(***************************************************************************)
(* The invariant.                                                          *)
(***************************************************************************)

\* converter.parts is a map over finitely many partitions.
Keyed ==
  /\ DOMAIN parts \in SUBSET PartitionKeys
  /\ IsFiniteSet(DOMAIN parts)
  /\ parts = [k \in DOMAIN parts |-> parts[k]]

\* The open files are the ones the conversion created, and closing has begun on them
\* only when reading is over.
Owned ==
  Converting =>
    /\ created = DOMAIN parts
    /\ closed \subseteq DOMAIN parts
    /\ pc = "reading" => closed = {}
    /\ pc \in {"hashing", "stamping"} => closed # {}
    /\ pc = "done" => closed = DOMAIN parts

\* Files are closed in the order of their keys, so that the last of the closed ones
\* is the one whose sidecar is being written.
InOrder ==
  Converting => \A j \in closed : \A i \in DOMAIN parts \ closed : Compare(j, i)

\* A closed file is whole, and so is its sidecar, but for the one being written.
Finished ==
  Converting =>
    \A k \in closed :
      /\ k \in DOMAIN dir /\ dir[k] = [whole |-> TRUE, recs |-> parts[k]]
      /\ \/ pc \in {"hashing", "stamping"} /\ k = LastKey(closed)
         \/ k \in DOMAIN hash /\ hash[k] = [whole |-> TRUE, of |-> parts[k]]

\* What abort took out of the map is gone, or stuck.
Undone ==
  pc \in {"aborting", "failed"} =>
    \A k \in created :
      \/ k \in stuck \/ (k \notin DOMAIN dir /\ k \notin DOMAIN hash)
      \/ pc = "aborting" /\ k \in DOMAIN parts

ArchiveInv == Keyed /\ Owned /\ InOrder /\ Finished /\ Undone

-----------------------------------------------------------------------------
(***************************************************************************)
(* What writing a row does to the open files.                              *)
(***************************************************************************)

LEMMA DivMod ==
  ASSUME NEW a \in Nat, NEW b \in Nat \ {0}
  PROVE  /\ a \div b \in Int /\ (a \div b) * b <= a /\ a < (a \div b) * b + b
OBVIOUS

LEMMA MulDist ==
  ASSUME NEW q \in Int, NEW b \in Int
  PROVE  (q + 1) * b = q * b + b /\ (q - 1) * b = q * b - b /\ (-q) * b = -(q * b)
OBVIOUS

\* Rounds down, also below zero.
LEMMA FloorDivFloors ==
  ASSUME NEW a \in Int, NEW b \in Nat \ {0}
  PROVE  /\ floorDiv(a, b) \in Int
         /\ a \in floorDiv(a, b) * b .. (floorDiv(a, b) + 1) * b - 1
<1>1. CASE a >= 0
  <2>1. floorDiv(a, b) = a \div b
    BY <1>1 DEF floorDiv
  <2>2. a \in Nat 
    BY <1>1
  <2>3. PICK q \in Int : q = a \div b 
    BY <2>2, DivMod
  <2>4. q * b <= a /\ a < q * b + b
    BY <2>2, <2>3, DivMod
  <2>5. (q + 1) * b = q * b + b /\ q * b \in Int
    BY MulDist
  <2> QED BY <2>1, <2>3, <2>4, <2>5
<1>2. CASE a < 0
  <2>1. PICK q \in Int : q = (-a) \div b
    BY <1>2, DivMod
  <2>2. q * b <= -a /\ -a < q * b + b
    BY <1>2, <2>1, DivMod
  <2>3. (-q) * b = -(q * b) /\ q * b \in Int /\ (-q + 1) * b = -(q * b) + b /\ (-q - 1) * b = -(q * b) - b
    BY MulDist
  <2>4. floorDiv(a, b) = IF a # (-q) * b THEN -q - 1 ELSE -q
    BY <1>2, <2>1 DEF floorDiv
  <2> QED BY <1>2, <2>2, <2>3, <2>4
<1> QED BY <1>1, <1>2

LEMMA PartitionIsKey ==
  ASSUME NEW row \in Rows
  PROVE  PartitionOf(row.venue, row.ts) \in PartitionKeys
BY ArchiveAssumption, FloorDivFloors DEF PartitionOf, PartitionKeys

\* The keys after a row: its own is added, an epoch adds none.
LEMMA AppendedKeys ==
  ASSUME Keyed, NEW row \in Rows
  PROVE  LET key == PartitionOf(row.venue, row.ts) IN
         /\ DOMAIN Appended(row) = DOMAIN parts \cup {key}
         /\ DOMAIN Appended(row) \in SUBSET PartitionKeys
         /\ IsFiniteSet(DOMAIN Appended(row))
         /\ Appended(row) = [k \in DOMAIN Appended(row) |-> Appended(row)[k]]
<1> DEFINE key == PartitionOf(row.venue, row.ts)
<1>1. DOMAIN writeEpoch(row) = DOMAIN parts
  BY DEF writeEpoch
<1>2. DOMAIN partition(key, writeEpoch(row)) = DOMAIN parts \cup {key}
  BY <1>1 DEF partition, With
<1>3. /\ DOMAIN Appended(row) = DOMAIN parts \cup {key}
      /\ Appended(row) = [k \in DOMAIN Appended(row) |-> Appended(row)[k]]
  <2> DEFINE f == partition(key, writeEpoch(row))
             e == Append(f[key], recordOf(row))
  <2>1. Appended(row) = [f EXCEPT ![key] = e]
    BY DEF Appended
  <2> HIDE DEF f, e
  <2>2. DOMAIN f = DOMAIN parts \cup {key}
    BY <1>2 DEF f
  <2> HIDE DEF key
  <2> QED BY <2>1, <2>2
<1>4. key \in PartitionKeys
  BY PartitionIsKey
<1>5. IsFiniteSet(DOMAIN parts \cup {key})
  BY FS_AddElement DEF Keyed
<1> QED BY <1>3, <1>4, <1>5 DEF Keyed

-----------------------------------------------------------------------------
(***************************************************************************)
(* The invariant holds.                                                    *)
(***************************************************************************)

LEMMA InitArchive == Init => ArchiveInv
<1> SUFFICES ASSUME Init PROVE ArchiveInv
  OBVIOUS
<1>1. Keyed
  BY FS_EmptySet DEF Init, Keyed, Empty
<1> QED BY <1>1 DEF Init, ArchiveInv, Owned, InOrder, Finished, Undone, Converting

LEMMA ConvertArchive == ArchiveInv /\ Convert => ArchiveInv'
<1> SUFFICES ASSUME ArchiveInv, Convert PROVE ArchiveInv'
  OBVIOUS
<1>1. Keyed'
  BY FS_EmptySet DEF Convert, Keyed, Empty
<1> QED BY <1>1 DEF Convert, ArchiveInv, Owned, InOrder, Finished, Undone, Converting, Empty

LEMMA CrashArchive == ArchiveInv /\ Crash => ArchiveInv'
<1> SUFFICES ASSUME ArchiveInv, Crash PROVE ArchiveInv'
  OBVIOUS
<1>1. Keyed'
  BY FS_EmptySet DEF Crash, Keyed, Empty
<1> QED BY <1>1 DEF Crash, ArchiveInv, Owned, InOrder, Finished, Undone, Converting

\* Both outcomes of writeRow that open the row's file.
LEMMA RowArchive ==
  ASSUME ArchiveInv, pc = "reading", NEW row \in Rows,
         parts' = Appended(row),
         created' = created \cup {PartitionOf(row.venue, row.ts)},
         pc' \in {"reading", "aborting"},
         UNCHANGED closed
  PROVE  ArchiveInv'
<1>1. Keyed'
  BY AppendedKeys DEF ArchiveInv, Keyed
<1>2. closed = {} /\ created' = DOMAIN parts'
  BY AppendedKeys DEF ArchiveInv, Owned, Converting
<1> QED BY <1>1, <1>2 DEF ArchiveInv, Owned, InOrder, Finished, Undone, Converting

LEMMA WriteRowArchive == ArchiveInv /\ WriteRow => ArchiveInv'
<1> SUFFICES ASSUME ArchiveInv, WriteRow PROVE ArchiveInv'
  OBVIOUS
<1>1. PICK row \in Rows :
        /\ ReadRow(row)
        /\ parts' = Appended(row)
        /\ created' = created \cup {PartitionOf(row.venue, row.ts)}
  BY DEF WriteRow
<1> QED BY <1>1, RowArchive DEF WriteRow, ReadRow

LEMMA RowRefusedArchive == ArchiveInv /\ RowRefused => ArchiveInv'
<1> SUFFICES ASSUME ArchiveInv, RowRefused PROVE ArchiveInv'
  OBVIOUS
<1>1. PICK row \in Rows :
        /\ ReadRow(row)
        /\ parts' = Appended(row)
        /\ created' = created \cup {PartitionOf(row.venue, row.ts)}
  BY DEF RowRefused
<1> QED BY <1>1, RowArchive DEF RowRefused, ReadRow

\* A failure that leaves the files as they are begins the abort.
LEMMA FailsArchive ==
  ArchiveInv /\ (RowRejected \/ ReadFails \/ HashFails \/ CloseFails) => ArchiveInv'
<1> SUFFICES ASSUME ArchiveInv, RowRejected \/ ReadFails \/ HashFails \/ CloseFails
             PROVE  ArchiveInv'
  OBVIOUS
<1>1. Converting /\ pc' = "aborting" /\ UNCHANGED <<parts, created>>
  BY DEF RowRejected, ReadRow, ReadFails, HashFails, CloseFails, Converting
<1>2. Keyed'
  BY <1>1 DEF ArchiveInv, Keyed
<1> QED BY <1>1, <1>2 DEF ArchiveInv, Owned, InOrder, Finished, Undone, Converting

LEMMA EndOfSourceArchive == ArchiveInv /\ EndOfSource => ArchiveInv'
<1> SUFFICES ASSUME ArchiveInv, EndOfSource PROVE ArchiveInv'
  OBVIOUS
<1>1. Keyed'
  BY DEF EndOfSource, ArchiveInv, Keyed
<1> QED BY <1>1 DEF EndOfSource, ArchiveInv, Owned, InOrder, Finished, Undone, Converting

LEMMA CloseFileArchive == ArchiveInv /\ CloseFile => ArchiveInv'
<1> SUFFICES ASSUME ArchiveInv, CloseFile PROVE ArchiveInv'
  OBVIOUS
<1> DEFINE open == DOMAIN parts \ closed
<1>1. /\ pc = "closing" /\ pc' = "hashing" /\ closed # DOMAIN parts
      /\ closed \subseteq DOMAIN parts /\ created = DOMAIN parts
      /\ UNCHANGED <<parts, hash, created, stuck>>
  BY DEF CloseFile, ArchiveInv, Owned, Converting
<1>2. open \in SUBSET PartitionKeys /\ open # {} /\ IsFiniteSet(open)
  BY <1>1, FS_Subset DEF ArchiveInv, Keyed
<1>3. PICK k : k = FirstKey(open)
  OBVIOUS
<1>4. k \in open /\ \A j \in open : j = k \/ Compare(k, j)
  <2> HIDE DEF open
  <2> QED BY <1>2, <1>3, FirstOfKeys
<1>5. closed' = closed \cup {k} /\ dir' = With(dir, k, [whole |-> TRUE, recs |-> parts[k]])
  BY <1>3 DEF CloseFile
<1>6. LastKey(closed') = k
  <2>1. k \in closed' /\ closed' \in SUBSET PartitionKeys
    BY <1>1, <1>4, <1>5 DEF ArchiveInv, Keyed
  <2>2. \A j \in closed' : j = k \/ Compare(j, k)
    BY <1>1, <1>4, <1>5 DEF ArchiveInv, InOrder, Converting
  <2> QED BY <2>1, <2>2, LastOfKeys
<1>7. Keyed'
  BY <1>1 DEF ArchiveInv, Keyed
<1>8. Owned'
  BY <1>1, <1>4, <1>5 DEF Owned, Converting
<1>9. InOrder'
  BY <1>1, <1>4, <1>5 DEF ArchiveInv, InOrder, Converting
<1>10. Finished'
  <2> SUFFICES ASSUME NEW j \in closed'
               PROVE  /\ j \in DOMAIN dir' /\ dir'[j] = [whole |-> TRUE, recs |-> parts[j]]
                      /\ \/ j = LastKey(closed')
                         \/ j \in DOMAIN hash /\ hash[j] = [whole |-> TRUE, of |-> parts[j]]
    BY <1>1 DEF Finished
  <2>1. CASE j = k
    BY <1>5, <1>6, <2>1 DEF With
  <2>2. CASE j # k
    <3>1. /\ j \in DOMAIN dir /\ dir[j] = [whole |-> TRUE, recs |-> parts[j]]
          /\ j \in DOMAIN hash /\ hash[j] = [whole |-> TRUE, of |-> parts[j]]
      BY <1>1, <1>5, <2>2 DEF ArchiveInv, Finished, Converting
    <3> QED BY <1>5, <2>2, <3>1 DEF With
  <2> QED BY <2>1, <2>2
<1>11. Undone'
  BY <1>1 DEF Undone
<1> QED BY <1>7, <1>8, <1>9, <1>10, <1>11 DEF ArchiveInv

LEMMA CreateHashArchive == ArchiveInv /\ CreateHash => ArchiveInv'
<1> SUFFICES ASSUME ArchiveInv, CreateHash PROVE ArchiveInv'
  OBVIOUS
<1>1. PICK k : k = LastKey(closed)
  OBVIOUS
<1>2. /\ pc = "hashing" /\ pc' = "stamping"
      /\ hash' = With(hash, k, [whole |-> FALSE, of |-> <<>>])
      /\ UNCHANGED <<parts, closed, dir, created, stuck>>
  BY <1>1 DEF CreateHash
<1>3. Keyed'
  BY <1>2 DEF ArchiveInv, Keyed
<1>4. Owned' /\ InOrder' /\ Undone'
  BY <1>2 DEF ArchiveInv, Owned, InOrder, Undone, Converting
<1>5. Finished'
  <2> SUFFICES ASSUME NEW j \in closed
               PROVE  /\ j \in DOMAIN dir /\ dir[j] = [whole |-> TRUE, recs |-> parts[j]]
                      /\ \/ j = LastKey(closed)
                         \/ j \in DOMAIN hash' /\ hash'[j] = [whole |-> TRUE, of |-> parts[j]]
    BY <1>2 DEF Finished
  <2>1. /\ j \in DOMAIN dir /\ dir[j] = [whole |-> TRUE, recs |-> parts[j]]
        /\ \/ j = k
           \/ j \in DOMAIN hash /\ hash[j] = [whole |-> TRUE, of |-> parts[j]]
    BY <1>1, <1>2 DEF ArchiveInv, Finished, Converting
  <2> QED BY <1>1, <1>2, <2>1 DEF With
<1> QED BY <1>3, <1>4, <1>5 DEF ArchiveInv

LEMMA WriteHashArchive == ArchiveInv /\ WriteArtifactHash => ArchiveInv'
<1> SUFFICES ASSUME ArchiveInv, WriteArtifactHash PROVE ArchiveInv'
  OBVIOUS
<1>1. PICK k : k = LastKey(closed)
  OBVIOUS
<1>2. /\ pc = "stamping" /\ pc' = "closing"
      /\ hash' = With(hash, k, [whole |-> TRUE, of |-> dir[k].recs])
      /\ UNCHANGED <<parts, closed, dir, created, stuck>>
  BY <1>1 DEF WriteArtifactHash
<1>3. Keyed'
  BY <1>2 DEF ArchiveInv, Keyed
<1>4. Owned' /\ InOrder' /\ Undone'
  BY <1>2 DEF ArchiveInv, Owned, InOrder, Undone, Converting
<1>5. Finished'
  <2> SUFFICES ASSUME NEW j \in closed
               PROVE  /\ j \in DOMAIN dir /\ dir[j] = [whole |-> TRUE, recs |-> parts[j]]
                      /\ j \in DOMAIN hash' /\ hash'[j] = [whole |-> TRUE, of |-> parts[j]]
    BY <1>2 DEF Finished
  <2>1. /\ j \in DOMAIN dir /\ dir[j] = [whole |-> TRUE, recs |-> parts[j]]
        /\ \/ j = k
           \/ j \in DOMAIN hash /\ hash[j] = [whole |-> TRUE, of |-> parts[j]]
    BY <1>1, <1>2 DEF ArchiveInv, Finished, Converting
  <2>2. CASE j = k
    <3>1. dir[k].recs = parts[j]
      BY <2>1, <2>2
    <3> QED BY <1>2, <2>1, <2>2, <3>1 DEF With
  <2>3. CASE j # k
    BY <1>2, <2>1, <2>3 DEF With
  <2> QED BY <2>2, <2>3
<1> QED BY <1>3, <1>4, <1>5 DEF ArchiveInv

LEMMA ReturnArchive == ArchiveInv /\ Return => ArchiveInv'
<1> SUFFICES ASSUME ArchiveInv, Return PROVE ArchiveInv'
  OBVIOUS
<1>1. Keyed'
  BY DEF Return, ArchiveInv, Keyed
<1> QED BY <1>1 DEF Return, ArchiveInv, Owned, InOrder, Finished, Undone, Converting

\* The next file abort takes.
LEMMA AbortTakes ==
  ASSUME Keyed, parts # Empty
  PROVE  FirstKey(DOMAIN parts) \in DOMAIN parts
<1>1. DOMAIN parts # {}
  BY DEF Keyed, Empty
<1> QED BY <1>1, FirstOfKeys DEF Keyed

LEMMA AbortArchive == ArchiveInv /\ Abort => ArchiveInv'
<1> SUFFICES ASSUME ArchiveInv, Abort PROVE ArchiveInv'
  OBVIOUS
<1>1. PICK k : k = FirstKey(DOMAIN parts)
  OBVIOUS
<1>2. k \in DOMAIN parts
  BY <1>1, AbortTakes DEF Abort, ArchiveInv
<1>3. /\ pc = "aborting" /\ pc' = "aborting" /\ UNCHANGED created
      /\ parts' = Without(parts, k)
      /\ \/ dir' = Without(dir, k) /\ hash' = Without(hash, k) /\ UNCHANGED stuck
         \/ /\ stuck' = stuck \cup {k}
            /\ dir' = dir \/ dir' = Without(dir, k)
            /\ hash' = hash \/ hash' = Without(hash, k)
  BY <1>1 DEF Abort, AbortPart
<1>4. Keyed'
  BY <1>3, FS_RemoveElement DEF ArchiveInv, Keyed, Without
<1>5. Undone'
  <2> SUFFICES ASSUME NEW j \in created
               PROVE  \/ j \in stuck' \/ (j \notin DOMAIN dir' /\ j \notin DOMAIN hash')
                      \/ j \in DOMAIN parts'
    BY <1>3 DEF Undone
  <2>1. \/ j \in stuck \/ (j \notin DOMAIN dir /\ j \notin DOMAIN hash)
        \/ j \in DOMAIN parts
    BY <1>3 DEF ArchiveInv, Undone
  <2>2. CASE j = k
    BY <1>3, <2>2 DEF Without
  <2>3. CASE j # k
    BY <1>3, <2>1, <2>3 DEF Without
  <2> QED BY <2>2, <2>3
<1> QED BY <1>3, <1>4, <1>5 DEF ArchiveInv, Owned, InOrder, Finished, Converting

LEMMA AbortedArchive == ArchiveInv /\ Aborted => ArchiveInv'
<1> SUFFICES ASSUME ArchiveInv, Aborted PROVE ArchiveInv'
  OBVIOUS
<1>1. Keyed'
  BY DEF Aborted, ArchiveInv, Keyed
<1>2. DOMAIN parts = {}
  BY DEF Aborted, Empty
<1> QED BY <1>1, <1>2 DEF Aborted, ArchiveInv, Owned, InOrder, Finished, Undone, Converting

LEMMA ArchiveStep == ArchiveInv /\ [Next]_vars => ArchiveInv'
<1> SUFFICES ASSUME ArchiveInv, [Next]_vars PROVE ArchiveInv'
  OBVIOUS
<1>1. CASE UNCHANGED vars
  BY <1>1 DEF vars, ArchiveInv, Keyed, Owned, InOrder, Finished, Undone, Converting
<1> QED BY <1>1, ConvertArchive, WriteRowArchive, RowRefusedArchive, FailsArchive,
           EndOfSourceArchive, CloseFileArchive, CreateHashArchive, WriteHashArchive,
           ReturnArchive, AbortArchive, AbortedArchive, CrashArchive DEF Next

LEMMA ArchiveInvariant == Spec => []ArchiveInv
BY InitArchive, ArchiveStep, PTL DEF Spec

-----------------------------------------------------------------------------
(***************************************************************************)
(* The results.                                                            *)
(***************************************************************************)

(***************************************************************************)
(* Convert is all or nothing, whatever the source holds and wherever a     *)
(* conversion before it failed or died: when it fails, no file it created  *)
(* and no sidecar is left that could be removed; when it returns, every    *)
(* file it created is whole and its sidecar is the digest of its content.  *)
(***************************************************************************)
THEOREM ConvertIsAllOrNothing == Spec => []AllOrNothing
<1>1. ArchiveInv => AllOrNothing
  BY DEF ArchiveInv, Owned, Finished, Undone, AllOrNothing, Converting
<1> QED BY <1>1, ArchiveInvariant, PTL

\* The files and sidecars a step may touch are those of open partitions, or of one it
\* opens where no file is.
LEMMA TouchesOwnFiles ==
  ASSUME ArchiveInv, [Next]_vars, NEW k \in DOMAIN dir \ DOMAIN parts
  PROVE  /\ k \in DOMAIN dir' /\ dir'[k] = dir[k]
         /\ k \in DOMAIN hash => k \in DOMAIN hash' /\ hash'[k] = hash[k]
<1>1. CASE WriteRow \/ RowRefused
  <2>1. PICK row \in Rows :
          /\ CanOpen(PartitionOf(row.venue, row.ts))
          /\ dir' = Created(PartitionOf(row.venue, row.ts)) /\ UNCHANGED hash
    BY <1>1 DEF WriteRow, RowRefused
  <2> QED BY <2>1 DEF CanOpen, Created, With
<1>2. CASE CloseFile \/ CloseFails
  <2> DEFINE open == DOMAIN parts \ closed
  <2>1. open \in SUBSET PartitionKeys /\ open # {} /\ IsFiniteSet(open)
    BY <1>2, FS_Subset DEF CloseFile, CloseFails, ArchiveInv, Keyed, Owned, Converting
  <2>2. FirstKey(open) \in open
    <3> HIDE DEF open
    <3> QED BY <2>1, FirstOfKeys
  <2>3. PICK j : j = FirstKey(open)
    OBVIOUS
  <2>4. /\ UNCHANGED hash
        /\ dir' = Without(dir, j) \/ dir' = With(dir, j, [whole |-> TRUE, recs |-> parts[j]])
    BY <1>2, <2>3 DEF CloseFile, CloseFails
  <2>5. j # k
    BY <2>2, <2>3
  <2> QED BY <2>4, <2>5 DEF With, Without
<1>3. CASE CreateHash \/ WriteArtifactHash
  <2>1. /\ closed \subseteq DOMAIN parts /\ closed # {} /\ IsFiniteSet(closed)
        /\ closed \in SUBSET PartitionKeys
    BY <1>3, FS_Subset
    DEF CreateHash, WriteArtifactHash, ArchiveInv, Keyed, Owned, Converting
  <2>2. LastKey(closed) \in closed
    BY <2>1, LastInKeys
  <2>3. PICK e : hash' = With(hash, LastKey(closed), e)
    BY <1>3 DEF CreateHash, WriteArtifactHash
  <2>4. UNCHANGED dir
    BY <1>3 DEF CreateHash, WriteArtifactHash
  <2> QED BY <2>1, <2>2, <2>3, <2>4 DEF With
<1>4. CASE Abort
  <2>1. PICK j : j = FirstKey(DOMAIN parts)
    OBVIOUS
  <2>2. j # k
    BY <1>4, <2>1, AbortTakes DEF Abort, ArchiveInv
  <2>3. /\ dir' = dir \/ dir' = Without(dir, j)
        /\ hash' = hash \/ hash' = Without(hash, j)
    BY <1>4, <2>1 DEF Abort, AbortPart
  <2> QED BY <2>2, <2>3 DEF Without
<1>5. CASE UNCHANGED <<dir, hash>>
  BY <1>5
<1> QED
  BY <1>1, <1>2, <1>3, <1>4, <1>5
  DEF Next, vars, Convert, RowRejected, ReadFails, EndOfSource, HashFails, Return, Aborted, Crash

(***************************************************************************)
(* No step of any conversion changes or removes a data file it did not     *)
(* create, nor the sidecar beside one: not when it fails and cleans up,    *)
(* and not after a crash left files of its own name behind.                *)
(***************************************************************************)
THEOREM OldFilesAreKept == Spec => OldFilesSurvive
<1> DEFINE Kept == \A k \in DOMAIN dir \ DOMAIN parts :
                     /\ k \in DOMAIN dir' /\ dir'[k] = dir[k]
                     /\ k \in DOMAIN hash => k \in DOMAIN hash' /\ hash'[k] = hash[k]
<1>1. ArchiveInv /\ [Next]_vars => [Kept]_vars
  BY TouchesOwnFiles
<1> QED BY <1>1, ArchiveInvariant, PTL DEF Spec, OldFilesSurvive

-----------------------------------------------------------------------------
(***************************************************************************)
(* A file holds one day of its venue.                                      *)
(***************************************************************************)

InDay(ts, day) == ts \in day * NanosPerDay..(day + 1) * NanosPerDay - 1

\* A sequence of records of one day.
OfDay(s, day) ==
  /\ s \in Seq(ToSet(s))
  /\ \A i \in DOMAIN s : InDay(s[i].ts, day)

VenueFields == {"lastTs", "lastSeq", "seen", "last", "books", "since", "pending"}

\* The last file of a venue is the one of its last record's time.
VenueOf(id, v) ==
  /\ DOMAIN v = VenueFields
  /\ IsFiniteSet(DOMAIN v.books)
  /\ v.seen => v.lastTs \in Int /\ v.last = PartitionOf(id, v.lastTs)

Dated == pc = "reading" => \A id \in DOMAIN venues : VenueOf(id, venues[id])

Filed ==
  Converting => \A k \in DOMAIN parts :
                  k[2] \in Days /\ OfDay(parts[k], k[2]) /\ KeysRise(parts[k])

LEMMA SeqOfItems ==
  ASSUME NEW S, NEW s \in Seq(S)
  PROVE  s \in Seq(ToSet(s))
<1>1. Len(s) \in Nat /\ DOMAIN s = 1..Len(s) /\ s = [i \in 1..Len(s) |-> s[i]]
  OBVIOUS
<1>2. \A i \in 1..Len(s) : s[i] \in ToSet(s)
  BY <1>1 DEF ToSet
<1> QED BY <1>1, <1>2

LEMMA JoinOfDay ==
  ASSUME NEW s, NEW t, NEW day, OfDay(s, day), OfDay(t, day)
  PROVE  OfDay(s \o t, day)
<1>1. s \o t \in Seq(ToSet(s) \cup ToSet(t))
  BY DEF OfDay
<1>2. \A i \in DOMAIN (s \o t) : InDay((s \o t)[i].ts, day)
  BY DEF OfDay
<1>3. s \o t \in Seq(ToSet(s \o t))
  BY <1>1, SeqOfItems
<1> QED BY <1>2, <1>3 DEF OfDay

LEMMA OneOfDay ==
  ASSUME NEW r, NEW day, InDay(r.ts, day)
  PROVE  OfDay(<<r>>, day) /\ OfDay(<<>>, day)
BY DEF OfDay, ToSet

\* An epoch is at its venue's last time.
LEMMA EpochOfDay ==
  ASSUME NEW id, NEW v, VenueOf(id, v), v.seen
  PROVE  OfDay(epoch(v), v.last[2])
<1> DEFINE n == Cardinality(DOMAIN v.books)
<1>1. n \in Nat
  BY FS_CardinalityType DEF VenueOf
<1>2. InDay(v.lastTs, v.last[2])
  <2>1. v.lastTs \in Int /\ v.last[2] = floorDiv(v.lastTs, NanosPerDay)
    BY DEF VenueOf, PartitionOf
  <2> QED BY <2>1, FloorDivFloors, ArchiveAssumption DEF InDay
<1>3. /\ DOMAIN epoch(v) = 1..n
      /\ epoch(v) = [i \in 1..n |-> epoch(v)[i]]
      /\ \A i \in 1..n : epoch(v)[i].ts = v.lastTs
  BY DEF epoch, Snapshot
<1>4. epoch(v) \in Seq(ToSet(epoch(v)))
  <2> HIDE DEF n
  <2>1. \A i \in 1..n : epoch(v)[i] \in ToSet(epoch(v))
    BY <1>3 DEF ToSet
  <2> QED BY <1>1, <1>3, <2>1
<1> QED BY <1>2, <1>3, <1>4 DEF OfDay

LEMMA VenueKnown ==
  ASSUME Dated, pc = "reading", NEW id
  PROVE  VenueOf(id, venue(id))
<1>1. VenueOf(id, NewVenue)
  BY FS_EmptySet DEF VenueOf, NewVenue, VenueFields, Empty
<1> QED BY <1>1 DEF Dated, venue

\* The venue after a row.
LEMMA VenueAdvances ==
  ASSUME Dated, pc = "reading", NEW row \in Rows
  PROVE  LET key == PartitionOf(row.venue, row.ts) rec == recordOf(row) IN
         VenueOf(row.venue, advance(applyToBook(VenueBefore(row), rec), rec, key))
<1> DEFINE key == PartitionOf(row.venue, row.ts) rec == recordOf(row)
<1>1. DOMAIN VenueBefore(row) = VenueFields /\ IsFiniteSet(DOMAIN VenueBefore(row).books)
  BY VenueKnown DEF VenueBefore, afterEpoch, VenueOf, VenueFields
<1>2. PICK v : v = VenueBefore(row)
  OBVIOUS
<1>3. PICK w : w = applyToBook(v, rec)
  OBVIOUS
<1>4. DOMAIN w = VenueFields /\ IsFiniteSet(DOMAIN w.books)
  <2>1. CASE w = v
    BY <1>1, <1>2, <2>1
  <2>2. CASE w # v
    <3>1. PICK b : w = [v EXCEPT !.books = With(@, rec.instrument, b)]
      BY <1>3, <2>2 DEF applyToBook
    <3>2. DOMAIN w = VenueFields /\ w.books = With(v.books, rec.instrument, b)
      BY <1>1, <1>2, <3>1 DEF VenueFields
    <3>3. DOMAIN w.books = DOMAIN v.books \cup {rec.instrument}
      BY <3>2 DEF With
    <3> QED BY <1>1, <1>2, <3>2, <3>3, FS_AddElement
  <2> QED BY <2>1, <2>2
<1>5. rec.ts = row.ts /\ row.ts \in Int
  BY ArchiveAssumption DEF recordOf, Snapshot
<1>6. PICK x : x = advance(w, rec, key)
  OBVIOUS
<1>7. DOMAIN x = VenueFields /\ x.books = w.books /\ x.lastTs = row.ts /\ x.last = key
  BY <1>4, <1>5, <1>6 DEF advance, VenueFields
<1>8. VenueOf(row.venue, x)
  BY <1>4, <1>5, <1>7 DEF VenueOf
<1> QED BY <1>2, <1>3, <1>6, <1>8

\* The open files with a due epoch.
LEMMA EpochFiled ==
  ASSUME Filed, Dated, pc = "reading", NEW row \in Rows, NEW k \in DOMAIN parts
  PROVE  OfDay(writeEpoch(row)[k], k[2])
<1>1. PICK v : v = venue(row.venue)
  OBVIOUS
<1>2. VenueOf(row.venue, v)
  BY <1>1, VenueKnown
<1>3. OfDay(parts[k], k[2])
  BY DEF Filed, Converting
<1>4. CASE epochDue(v, row) /\ k = v.last
  <2>1. OfDay(epoch(v), k[2])
    BY <1>2, <1>4, EpochOfDay DEF epochDue
  <2>2. writeEpoch(row)[k] = parts[k] \o epoch(v)
    BY <1>1, <1>4 DEF writeEpoch
  <2> QED BY <1>3, <2>1, <2>2, JoinOfDay
<1>5. CASE ~(epochDue(v, row) /\ k = v.last)
  <2>1. writeEpoch(row)[k] = parts[k]
    BY <1>1, <1>5 DEF writeEpoch
  <2> QED BY <1>3, <2>1
<1> QED BY <1>4, <1>5

LEMMA RowFiled ==
  ASSUME Keyed, Filed, Dated, pc = "reading", NEW row \in Rows, EpochFits(row),
         KeysRise(Appended(row)[PartitionOf(row.venue, row.ts)]),
         NEW k \in DOMAIN Appended(row)
  PROVE  k[2] \in Days /\ OfDay(Appended(row)[k], k[2]) /\ KeysRise(Appended(row)[k])
<1> DEFINE key == PartitionOf(row.venue, row.ts) f == partition(key, writeEpoch(row))
<1>1. DOMAIN writeEpoch(row) = DOMAIN parts /\ DOMAIN f = DOMAIN parts \cup {key}
  BY DEF writeEpoch, partition, With
<1>2. CASE k = key
  <2>1. Appended(row)[key] = Append(f[key], recordOf(row))
    BY <1>1 DEF Appended
  <2>2. recordOf(row).ts = row.ts /\ row.ts \in Int
    BY ArchiveAssumption DEF recordOf, Snapshot
  <2>3. InDay(recordOf(row).ts, key[2])
    BY <2>2, FloorDivFloors, ArchiveAssumption DEF PartitionOf, InDay
  <2>4. OfDay(f[key], key[2])
    <3>1. CASE key \in DOMAIN parts
      <4>1. f = writeEpoch(row)
        BY <1>1, <3>1 DEF partition
      <4>2. OfDay(writeEpoch(row)[key], key[2])
        BY <3>1, EpochFiled
      <4> QED BY <4>1, <4>2
    <3>2. CASE key \notin DOMAIN parts
      <4>1. f[key] = <<>>
        BY <1>1, <3>2 DEF partition, With
      <4> QED BY <2>3, <4>1, OneOfDay
    <3> QED BY <3>1, <3>2
  <2>5. OfDay(f[key] \o <<recordOf(row)>>, key[2])
    BY <2>3, <2>4, OneOfDay, JoinOfDay
  <2>6. Append(f[key], recordOf(row)) = f[key] \o <<recordOf(row)>>
    <3> HIDE DEF f, key
    <3>1. PICK s : s = f[key]
      OBVIOUS
    <3>2. PICK r : r = recordOf(row)
      OBVIOUS
    <3>3. s \in Seq(ToSet(s) \cup {r})
      BY <2>4, <3>1 DEF OfDay
    <3> QED BY <3>1, <3>2, <3>3
  <2>7. key[2] \in Days
    BY DEF Days
  <2> QED BY <1>2, <2>1, <2>5, <2>6, <2>7
<1>3. CASE k # key
  <2>1. k \in DOMAIN parts
    BY <1>3, AppendedKeys
  <2>2. Appended(row)[k] = f[k] /\ f[k] = writeEpoch(row)[k]
    BY <1>1, <1>3, <2>1 DEF Appended, partition, With
  <2>3. k[2] \in Days
    BY <2>1 DEF Filed, Converting
  <2> QED BY <2>1, <2>2, <2>3, EpochFiled DEF EpochFits
<1> QED BY <1>2, <1>3

LEMMA InitFiled == Init => Filed /\ Dated
BY DEF Init, Filed, Dated, Converting, Empty

LEMMA FiledStep == Keyed /\ Filed /\ Dated /\ [Next]_vars => Filed' /\ Dated'
<1> SUFFICES ASSUME Keyed, Filed, Dated, [Next]_vars PROVE Filed' /\ Dated'
  OBVIOUS
<1>1. CASE WriteRow
  <2>1. PICK row \in Rows :
          LET key == PartitionOf(row.venue, row.ts) rec == recordOf(row) IN
          /\ ReadRow(row) /\ EpochFits(row) /\ KeysRise(Appended(row)[key])
          /\ parts' = Appended(row)
          /\ venues' = With(venues, row.venue,
                            advance(applyToBook(VenueBefore(row), rec), rec, key))
    BY <1>1 DEF WriteRow
  <2>2. pc = "reading" /\ pc' = pc
    BY <1>1, <2>1 DEF WriteRow, ReadRow
  <2>3. Filed'
    <3> SUFFICES ASSUME NEW k \in DOMAIN parts'
                 PROVE  k[2] \in Days /\ OfDay(parts'[k], k[2]) /\ KeysRise(parts'[k])
      BY DEF Filed, Days, OfDay, InDay, KeysRise, ToSet, PartitionOf
    <3> QED BY <2>1, <2>2, RowFiled
  <2>4. PICK x : VenueOf(row.venue, x) /\ venues' = With(venues, row.venue, x)
    BY <2>1, <2>2, VenueAdvances
  <2>5. Dated'
    BY <2>2, <2>4 DEF Dated, With
  <2> QED BY <2>3, <2>5
<1>2. CASE Convert \/ Crash
  BY <1>2 DEF Convert, Crash, Filed, Dated, Converting, Empty
<1>3. CASE pc' \notin {"reading", "closing", "hashing", "stamping", "done"}
  BY <1>3 DEF Filed, Dated, Converting
<1>4. CASE Converting /\ pc' # "reading" /\ UNCHANGED parts
  BY <1>4 DEF Filed, Dated, Converting
<1>5. CASE UNCHANGED vars
  BY <1>5 DEF vars, Filed, Dated, Converting
<1> QED
  BY <1>1, <1>2, <1>3, <1>4, <1>5
  DEF Next, RowRejected, RowRefused, ReadFails, EndOfSource, CloseFile, CloseFails,
      CreateHash, WriteArtifactHash, HashFails, Return, Abort, Aborted, Converting

LEMMA FiledInvariant == Spec => [](Keyed /\ Filed)
<1>1. ArchiveInv => Keyed
  BY DEF ArchiveInv
<1> QED BY <1>1, ArchiveInvariant, InitFiled, FiledStep, PTL DEF Spec

-----------------------------------------------------------------------------
(***************************************************************************)
(* The keys of a venue rise across its files: Before(v, day, n) adds up    *)
(* the files of the days, which are apart.                                 *)
(***************************************************************************)

FirstDay == CHOOSE x \in Days : \A y \in Days : x <= y

\* What a day adds to the log.
Piece(v, d, day, n) ==
  IF <<v, d>> \notin DOMAIN parts THEN <<>>
  ELSE IF d = day THEN SubSeq(parts[<<v, d>>], 1, n - 1)
  ELSE parts[<<v, d>>]

\* f is the log up to each of the days, as far as the day to.
Adds(f, v, day, n, to) ==
  f = [d \in FirstDay - 1..to |->
         IF d \notin Days /\ d < FirstDay THEN <<>> ELSE f[d - 1] \o Piece(v, d, day, n)]

LEMMA DaysFinite == IsFiniteSet(Days) /\ Days \subseteq Int
<1> DEFINE g(r) == PartitionOf(r.venue, r.ts)[2]
<1>1. Days = {g(r) : r \in Rows}
  BY DEF Days
<1>2. IsFiniteSet({g(r) : r \in Rows})
  <2>1. IsFiniteSet(Rows)
    BY ArchiveAssumption
  <2> DEFINE h == [r \in Rows |-> g(r)]
  <2>2. {g(r) : r \in Rows} = {h[r] : r \in Rows}
    OBVIOUS
  <2>3. h \in Surjection(Rows, {h[r] : r \in Rows})
    BY DEF Surjection
  <2> QED BY <2>1, <2>2, <2>3, FS_Surjection
<1>3. \A r \in Rows : g(r) \in Int
  BY ArchiveAssumption, FloorDivFloors DEF PartitionOf
<1> QED BY <1>1, <1>2, <1>3

LEMMA FirstDayIsLeast ==
  ASSUME Days # {}
  PROVE  FirstDay \in Days /\ FirstDay \in Int /\ \A y \in Days : FirstDay <= y
<1> DEFINE S == {<<0, d>> : d \in Days}
<1>1. S \in SUBSET PartitionKeys /\ S # {}
  <2>1. \A d \in Days : <<0, d>> \in PartitionKeys
    BY DaysFinite DEF PartitionKeys
  <2> QED BY <2>1
<1>2. IsFiniteSet(S)
  <2> DEFINE h == [d \in Days |-> <<0, d>>]
  <2>1. h \in Surjection(Days, S)
    BY DEF Surjection
  <2> QED BY <2>1, DaysFinite, FS_Surjection
<1>3. PICK k \in S : \A j \in S : j = k \/ Compare(k, j)
  <2> HIDE DEF S
  <2> QED BY <1>1, <1>2, FirstOfKeys
<1>4. PICK x \in Days : k = <<0, x>>
  BY <1>3
<1>5. \A y \in Days : x <= y
  <2> TAKE y \in Days
  <2>1. <<0, y>> \in S
    OBVIOUS
  <2>2. <<0, y>> = k \/ Compare(k, <<0, y>>)
    BY <1>3, <2>1
  <2> QED BY <1>4, <2>2, DaysFinite DEF Compare
<1> QED BY <1>4, <1>5, DaysFinite DEF FirstDay

\* Induction over the days from the first: a set of days that has the one before the
\* first, and with each day the next, has all.
LEMMA DayInduction ==
  ASSUME NEW a \in Int, NEW b \in Int, NEW T, a \in T,
         \A d \in a + 1..b : d - 1 \in T => d \in T
  PROVE  \A d \in a..b : d \in T
<1> SUFFICES ASSUME NEW d \in a..b, d \notin T PROVE FALSE
  OBVIOUS
<1> DEFINE out == {m \in Nat : a + m <= b /\ a + m \notin T}
<1>1. d - a \in out
  <2>1. d - a \in Nat /\ a + (d - a) = d
    OBVIOUS
  <2> QED BY <2>1
<1>2. PICK m \in out : \A y \in out : m <= y
  <2>1. out \in SUBSET Nat /\ out # {}
    BY <1>1
  <2> HIDE DEF out
  <2> QED BY <2>1, LeastNumber
<1>3. m # 0
  BY <1>2
<1>4. m - 1 \notin out
  <2>1. m \in Nat
    BY <1>2
  <2>2. ~(m <= m - 1)
    BY <2>1
  <2> HIDE DEF out
  <2> QED BY <1>2, <2>2
<1>5. m \in Nat /\ m - 1 \in Nat /\ a + (m - 1) = (a + m) - 1 /\ a + m <= b /\ a + m \notin T
      /\ a + m \in a + 1..b /\ a + (m - 1) <= b
  BY <1>2, <1>3
<1>6. (a + m) - 1 \in T
  BY <1>4, <1>5
<1> QED BY <1>5, <1>6

\* The recursion of Before has a solution.
LEMMA LogExists ==
  ASSUME NEW v, NEW day \in Int, NEW n, Days # {}, day \in Days
  PROVE  \E f : Adds(f, v, day, n, day)
<1> DEFINE a == FirstDay - 1
           T == {d \in a..day : \E f : Adds(f, v, day, n, d)}
<1>1. FirstDay \in Int /\ FirstDay <= day /\ a \in Int /\ \A y \in Days : FirstDay <= y
  BY FirstDayIsLeast
<1>2. a \in T
  <2> DEFINE f == [d \in a..a |-> <<>>]
  <2>1. \A d \in a..a : d = a /\ d \notin Days /\ d < FirstDay
    BY <1>1
  <2>2. Adds(f, v, day, n, a)
    BY <1>1, <2>1 DEF Adds
  <2>3. a \in a..day
    BY <1>1
  <2> QED BY <2>2, <2>3
<1>3. ASSUME NEW d \in a + 1..day, d - 1 \in T PROVE d \in T
  <2>1. PICK f : Adds(f, v, day, n, d - 1)
    BY <1>3
  <2> DEFINE g == [e \in a..d |-> IF e = d THEN f[d - 1] \o Piece(v, d, day, n) ELSE f[e]]
  <2>2. d \in Int /\ d >= FirstDay /\ d - 1 \in a..d /\ d \in a..day /\ d - 1 # d
    BY <1>1
  <2>3. ASSUME NEW e \in a..d
        PROVE  g[e] = IF e \notin Days /\ e < FirstDay THEN <<>>
                      ELSE g[e - 1] \o Piece(v, e, day, n)
    <3>1. CASE e = d
      <4>1. g[d] = f[d - 1] \o Piece(v, d, day, n)
        BY <2>2, <3>1
      <4>2. g[d - 1] = f[d - 1]
        BY <2>2
      <4>3. ~(d < FirstDay)
        BY <1>1, <2>2
      <4> HIDE DEF g
      <4> QED BY <3>1, <4>1, <4>2, <4>3
    <3>2. CASE e # d
      <4>1. e \in a..d - 1
        BY <1>1, <2>2, <3>2
      <4>2. f[e] = IF e \notin Days /\ e < FirstDay THEN <<>>
                   ELSE f[e - 1] \o Piece(v, e, day, n)
        BY <2>1, <4>1, Zenon DEF Adds
      <4>3. g[e] = f[e]
        BY <3>2
      <4>4. CASE e = a
        <5>1. e \notin Days /\ e < FirstDay
          BY <1>1, <4>4
        <5> QED BY <4>2, <4>3, <5>1
      <4>5. CASE e # a
        <5>1. e - 1 \in a..d /\ e - 1 # d
          BY <1>1, <2>2, <4>1, <4>5
        <5>2. g[e - 1] = f[e - 1]
          BY <5>1
        <5> HIDE DEF g
        <5> QED BY <4>2, <4>3, <5>2
      <4> QED BY <4>4, <4>5
    <3> QED BY <3>1, <3>2
  <2>4. Adds(g, v, day, n, d)
    <3>1. g = [e \in a..d |-> g[e]]
      OBVIOUS
    <3> HIDE DEF g
    <3> QED BY <2>3, <3>1 DEF Adds
  <2> HIDE DEF g
  <2> QED BY <2>2, <2>4
<1>4. \A d \in a..day : d \in T
  <2> HIDE DEF T, a
  <2> QED BY <1>1, <1>2, <1>3, DayInduction
<1>5. day \in a..day
  BY <1>1
<1> QED BY <1>4, <1>5

LEMMA BeforeAdds ==
  ASSUME NEW v, NEW day \in Int, NEW n, Days # {}, day \in Days
  PROVE  \E f : Before(v, day, n) = f[day] /\ Adds(f, v, day, n, day)
<1> DEFINE Rhs(f) == [d \in FirstDay - 1..day |->
                        IF d \notin Days /\ d < FirstDay THEN <<>>
                        ELSE f[d - 1] \o Piece(v, d, day, n)]
           upTo == CHOOSE f : f = Rhs(f)
<1>1. Before(v, day, n) = upTo[day]
  BY Zenon DEF Before, FirstDay, Piece
<1>2. upTo = Rhs(upTo)
  <2>1. \E g : Adds(g, v, day, n, day)
    BY LogExists
  <2>2. \E g : g = Rhs(g)
    BY <2>1, Zenon DEF Adds
  <2> HIDE DEF Rhs
  <2> QED BY <2>2, Zenon
<1> QED BY <1>1, <1>2, Zenon DEF Adds

\* A log whose times are all before a bound, its keys rising.
RisesBefore(s, bound) ==
  /\ s \in Seq(ToSet(s))
  /\ \A i \in DOMAIN s : s[i].ts \in Int /\ s[i].ts < bound
  /\ KeysRise(s)

LEMMA NoLog == <<>> \in Seq(ToSet(<<>>)) /\ DOMAIN <<>> = {} /\ KeysRise(<<>>)
<1>1. <<>> \in Seq(ToSet(<<>>)) /\ DOMAIN <<>> = {} /\ Len(<<>>) = 0
  OBVIOUS
<1>2. 1..Len(<<>>) - 1 = {}
  BY <1>1
<1> QED BY <1>1, <1>2 DEF KeysRise

LEMMA JoinRises ==
  ASSUME NEW s, NEW t, NEW day \in Int, RisesBefore(s, day * NanosPerDay),
         OfDay(t, day), KeysRise(t)
  PROVE  RisesBefore(s \o t, (day + 1) * NanosPerDay)
<1> DEFINE u == s \o t
<1>1. /\ s \in Seq(ToSet(s)) /\ t \in Seq(ToSet(t))
      /\ Len(s) \in Nat /\ Len(t) \in Nat
      /\ DOMAIN s = 1..Len(s) /\ DOMAIN t = 1..Len(t)
  BY DEF RisesBefore, OfDay
<1>2. /\ u \in Seq(ToSet(s) \cup ToSet(t)) /\ Len(u) = Len(s) + Len(t) /\ DOMAIN u = 1..Len(u)
      /\ \A i \in 1..Len(s) : u[i] = s[i]
      /\ \A i \in 1..Len(u) : i > Len(s) => i - Len(s) \in 1..Len(t) /\ u[i] = t[i - Len(s)]
  BY <1>1
<1>3. PICK b \in Int : b = day * NanosPerDay
  BY ArchiveAssumption
<1>4. (day + 1) * NanosPerDay = b + NanosPerDay /\ NanosPerDay \in Nat \ {0}
  BY <1>3, MulDist, ArchiveAssumption
<1>5. /\ \A i \in 1..Len(s) : s[i].ts \in Int /\ s[i].ts < b
      /\ \A i \in 1..Len(t) : t[i].ts \in Int /\ b <= t[i].ts /\ t[i].ts < b + NanosPerDay
  <2>1. \A x : InDay(x, day) => x \in Int /\ b <= x /\ x < b + NanosPerDay
    BY <1>3, <1>4 DEF InDay
  <2> QED BY <1>1, <1>3, <2>1 DEF RisesBefore, OfDay
<1> HIDE DEF u
<1>6. \A i \in 1..Len(u) : u[i].ts \in Int /\ u[i].ts < b + NanosPerDay
  <2> TAKE i \in 1..Len(u)
  <2>1. CASE i \in 1..Len(s)
    BY <1>2, <1>4, <1>5, <2>1
  <2>2. CASE i > Len(s)
    BY <1>2, <1>5, <2>2
  <2> QED BY <1>1, <1>2, <2>1, <2>2
<1>7. KeysRise(u)
  <2> SUFFICES ASSUME NEW i \in 1..Len(u) - 1 PROVE KeyBefore(u[i], u[i + 1])
    BY DEF KeysRise
  <2>1. i \in 1..Len(u) /\ i + 1 \in 1..Len(u) /\ Len(u) \in Nat
    BY <1>1, <1>2
  <2>2. CASE i < Len(s)
    <3>1. i \in 1..Len(s) - 1 /\ i \in 1..Len(s) /\ i + 1 \in 1..Len(s)
      BY <1>1, <2>2
    <3>2. KeyBefore(s[i], s[i + 1])
      BY <3>1 DEF RisesBefore, KeysRise
    <3> QED BY <1>2, <3>1, <3>2
  <2>3. CASE i = Len(s)
    <3>1. u[i] = s[i] /\ i \in 1..Len(s)
      BY <1>2, <2>3
    <3>2. i + 1 - Len(s) \in 1..Len(t) /\ u[i + 1] = t[i + 1 - Len(s)]
      BY <1>1, <1>2, <2>1, <2>3
    <3>3. s[i].ts < t[i + 1 - Len(s)].ts
      BY <1>5, <3>1, <3>2
    <3> QED BY <3>1, <3>2, <3>3 DEF KeyBefore
  <2>4. CASE i > Len(s)
    <3>1. i - Len(s) \in 1..Len(t) - 1 /\ (i - Len(s)) + 1 = i + 1 - Len(s)
      BY <1>1, <1>2, <2>4
    <3>2. KeyBefore(t[i - Len(s)], t[(i - Len(s)) + 1])
      BY <3>1 DEF KeysRise
    <3>3. u[i] = t[i - Len(s)] /\ u[i + 1] = t[i + 1 - Len(s)]
      BY <1>1, <1>2, <2>1, <2>4
    <3> QED BY <3>1, <3>2, <3>3
  <2>5. \A m, l \in Int : m < l \/ m = l \/ m > l
    OBVIOUS
  <2>6. i \in Int /\ Len(s) \in Int
    BY <1>1, <2>1
  <2> QED BY <2>2, <2>3, <2>4, <2>5, <2>6, Zenon
<1>8. u \in Seq(ToSet(u))
  BY <1>2, SeqOfItems
<1>9. RisesBefore(u, (day + 1) * NanosPerDay)
  BY <1>2, <1>4, <1>6, <1>7, <1>8 DEF RisesBefore
<1> QED BY <1>9 DEF u

LEMMA LogRises ==
  ASSUME Keyed, Filed, Converting, NEW k \in DOMAIN parts
  PROVE  KeysRise(Before(k[1], k[2], Len(parts[k]) + 1))
<1>1. PICK v, day : k = <<v, day>> /\ day \in Int /\ day \in Days
  BY DaysFinite DEF Keyed, Filed, PartitionKeys
<1> DEFINE n == Len(parts[k]) + 1
           a == FirstDay - 1
<1>2. PICK f : Before(v, day, n) = f[day] /\ Adds(f, v, day, n, day)
  BY <1>1, BeforeAdds
<1>3. FirstDay \in Int /\ FirstDay <= day /\ a \in Int /\ \A y \in Days : FirstDay <= y
  BY <1>1, FirstDayIsLeast
<1>4. ASSUME NEW d \in Int PROVE OfDay(Piece(v, d, day, n), d) /\ KeysRise(Piece(v, d, day, n))
  <2>1. CASE <<v, d>> \notin DOMAIN parts
    <3>1. Piece(v, d, day, n) = <<>>
      BY <2>1 DEF Piece
    <3> QED BY <3>1, NoLog DEF OfDay
  <2>2. CASE <<v, d>> \in DOMAIN parts
    <3>1. PICK s : s = parts[<<v, d>>]
      OBVIOUS
    <3>2. OfDay(s, d) /\ KeysRise(s)
      BY <2>2, <3>1 DEF Filed
    <3>3. d = day => SubSeq(s, 1, n - 1) = s
      BY <1>1, <3>1, <3>2 DEF OfDay
    <3>4. Piece(v, d, day, n) = s
      BY <2>2, <3>1, <3>3 DEF Piece
    <3> QED BY <3>2, <3>4
  <2> QED BY <2>1, <2>2
<1> DEFINE T == {d \in a..day : RisesBefore(f[d], (d + 1) * NanosPerDay)}
<1>5. a \in T
  <2>1. a \in a..day /\ a < FirstDay /\ ~(FirstDay <= a)
    BY <1>1, <1>3
  <2>2. f[a] = <<>>
    BY <1>2, <1>3, <2>1 DEF Adds
  <2> QED BY <2>1, <2>2, NoLog DEF RisesBefore
<1>6. ASSUME NEW d \in a + 1..day, d - 1 \in T PROVE d \in T
  <2>1. d \in a..day /\ d \in Int /\ ~(d < FirstDay) /\ (d - 1) + 1 = d
    BY <1>1, <1>3
  <2>2. f[d] = f[d - 1] \o Piece(v, d, day, n)
    BY <1>2, <2>1 DEF Adds
  <2>3. RisesBefore(f[d - 1], d * NanosPerDay)
    BY <1>6, <2>1
  <2>4. RisesBefore(f[d], (d + 1) * NanosPerDay)
    <3> HIDE DEF n
    <3> QED BY <1>4, <2>1, <2>2, <2>3, JoinRises
  <2> QED BY <2>1, <2>4
<1>7. \A d \in a..day : d \in T
  <2> HIDE DEF T, a
  <2> QED BY <1>1, <1>3, <1>5, <1>6, DayInduction
<1>8. day \in T
  BY <1>1, <1>3, <1>7
<1> QED BY <1>1, <1>2, <1>8 DEF RisesBefore

(***************************************************************************)
(* Every file holds records of its own venue's day and no others, an epoch *)
(* that a record of the next day released included, and over all the days  *)
(* of a venue the keys rise strictly although each writer compares only    *)
(* within its file: the files can be merged one after the other.           *)
(***************************************************************************)
THEOREM FilesAreThePartition == Spec => []FilesPartitionTheVenue
<1>1. ASSUME Keyed, Filed PROVE FilesPartitionTheVenue
  <2> SUFFICES ASSUME Converting, NEW k \in DOMAIN parts
               PROVE  /\ \A i \in DOMAIN parts[k] :
                           parts[k][i].ts \in k[2] * NanosPerDay..(k[2] + 1) * NanosPerDay - 1
                      /\ KeysRise(Before(k[1], k[2], Len(parts[k]) + 1))
    BY DEF FilesPartitionTheVenue
  <2>1. \A i \in DOMAIN parts[k] :
          parts[k][i].ts \in k[2] * NanosPerDay..(k[2] + 1) * NanosPerDay - 1
    BY <1>1 DEF Filed, OfDay, InDay
  <2> QED BY <1>1, <2>1, LogRises
<1> QED BY <1>1, FiledInvariant, PTL

-----------------------------------------------------------------------------
(***************************************************************************)
(* The log of a venue, and how a row makes it longer.                      *)
(***************************************************************************)

IsLog(s) == s \in Seq(ToSet(s))

\* Two logs one after the other.
Joined(s, t, u) ==
  /\ IsLog(u) /\ Len(u) = Len(s) + Len(t)
  /\ \A i \in 1..Len(s) : u[i] = s[i]
  /\ \A i \in 1..Len(t) : u[Len(s) + i] = t[i]

LEMMA LogIs ==
  ASSUME NEW s, IsLog(s)
  PROVE  Len(s) \in Nat /\ DOMAIN s = 1..Len(s) /\ s = [i \in 1..Len(s) |-> s[i]]
BY DEF IsLog

LEMMA JoinIs ==
  ASSUME NEW s, NEW t, IsLog(s), IsLog(t)
  PROVE  Joined(s, t, s \o t)
<1> DEFINE u == s \o t
<1>1. /\ s \in Seq(ToSet(s)) /\ t \in Seq(ToSet(t)) /\ Len(s) \in Nat /\ Len(t) \in Nat
  BY LogIs DEF IsLog
<1>2. u \in Seq(ToSet(s) \cup ToSet(t))
  BY <1>1
<1>3. Len(u) = Len(s) + Len(t)
  BY <1>1
<1>4. \A i \in 1..Len(s) : u[i] = s[i]
  BY <1>1
<1>5. \A i \in 1..Len(t) : u[Len(s) + i] = t[i]
  <2> TAKE i \in 1..Len(t)
  <2>1. Len(s) + i \in 1..Len(s) + Len(t) /\ Len(s) + i > Len(s) /\ (Len(s) + i) - Len(s) = i
    BY <1>1
  <2> QED BY <1>1, <2>1
<1>6. IsLog(u)
  BY <1>2, SeqOfItems DEF IsLog
<1> QED BY <1>3, <1>4, <1>5, <1>6 DEF Joined

LEMMA SameLog ==
  ASSUME NEW s, NEW t, IsLog(s), IsLog(t), Len(s) = Len(t), \A i \in 1..Len(s) : s[i] = t[i]
  PROVE  s = t
BY LogIs

LEMMA OneLog ==
  ASSUME NEW r
  PROVE  IsLog(<<r>>) /\ Len(<<r>>) = 1 /\ <<r>>[1] = r /\ IsLog(<<>>) /\ Len(<<>>) = 0
BY NoLog DEF IsLog, ToSet

Associate(s, t, u) == (s \o t) \o u = s \o (t \o u)

LEMMA JoinAssociates ==
  ASSUME NEW s, NEW t, NEW u, IsLog(s), IsLog(t), IsLog(u)
  PROVE  Associate(s, t, u)
<1>1. PICK a, b, x, y : a = s \o t /\ b = t \o u /\ x = a \o u /\ y = s \o b
  OBVIOUS
<1>2. Joined(s, t, a) /\ Joined(t, u, b)
  BY <1>1, JoinIs
<1>3. IsLog(a) /\ IsLog(b)
  BY <1>2 DEF Joined
<1>4. Joined(a, u, x) /\ Joined(s, b, y)
  BY <1>1, <1>3, JoinIs
<1>5. Len(s) \in Nat /\ Len(t) \in Nat /\ Len(u) \in Nat
  BY LogIs
<1>6. Len(x) = Len(s) + Len(t) + Len(u) /\ Len(y) = Len(s) + Len(t) + Len(u)
  BY <1>2, <1>4, <1>5 DEF Joined
<1>7. ASSUME NEW i \in 1..Len(x) PROVE x[i] = y[i]
  <2>1. CASE i <= Len(s)
    <3>1. i \in 1..Len(s) /\ i \in 1..Len(a)
      BY <1>2, <1>5, <2>1 DEF Joined
    <3> QED BY <1>2, <1>4, <3>1 DEF Joined
  <2>2. CASE i > Len(s) /\ i <= Len(s) + Len(t)
    <3>1. PICK j \in 1..Len(t) : i = Len(s) + j
      <4>1. i - Len(s) \in 1..Len(t) /\ i = Len(s) + (i - Len(s))
        BY <1>5, <2>2
      <4> QED BY <4>1
    <3>2. i \in 1..Len(a) /\ j \in 1..Len(b)
      BY <1>2, <1>5, <2>2 DEF Joined
    <3>3. x[i] = a[i] /\ a[i] = t[j] /\ y[i] = b[j] /\ b[j] = t[j]
      BY <1>2, <1>4, <3>1, <3>2 DEF Joined
    <3> QED BY <3>3
  <2>3. CASE i > Len(s) + Len(t)
    <3>1. PICK j \in 1..Len(u) : i = Len(s) + Len(t) + j
      <4>1. i - (Len(s) + Len(t)) \in 1..Len(u) /\ i = Len(s) + Len(t) + (i - (Len(s) + Len(t)))
        BY <1>5, <1>6, <2>3
      <4> QED BY <4>1
    <3>2. i = Len(a) + j /\ Len(t) + j \in 1..Len(b) /\ i = Len(s) + (Len(t) + j)
      BY <1>2, <1>5, <3>1 DEF Joined
    <3>3. x[i] = u[j]
      BY <1>4, <3>2 DEF Joined
    <3>4. y[i] = b[Len(t) + j]
      BY <1>4, <3>2 DEF Joined
    <3>5. b[Len(t) + j] = u[j]
      BY <1>2 DEF Joined
    <3> QED BY <3>3, <3>4, <3>5
  <2> QED BY <1>5, <1>6, <2>1, <2>2, <2>3
<1>8. IsLog(x) /\ IsLog(y)
  BY <1>4 DEF Joined
<1>9. x = y
  BY <1>6, <1>7, <1>8, SameLog
<1> QED BY <1>1, <1>9, Zenon DEF Associate

LEMMA JoinNone ==
  ASSUME NEW s, IsLog(s)
  PROVE  s \o <<>> = s /\ <<>> \o s = s
BY DEF IsLog

\* The file of day d in p, and the logs they add up to, day after day.
FileOf(p, id, d) == IF <<id, d>> \in DOMAIN p THEN p[<<id, d>>] ELSE <<>>
Sums(f, p, id, to) ==
  \A d \in FirstDay - 1..to :
    f[d] = IF d < FirstDay THEN <<>> ELSE f[d - 1] \o FileOf(p, id, d)

LEMMA SumsAreLogs ==
  ASSUME NEW f, NEW p, NEW id, NEW to \in Int, FirstDay \in Int, Sums(f, p, id, to),
         \A d \in Int : IsLog(FileOf(p, id, d))
  PROVE  \A d \in FirstDay - 1..to : IsLog(f[d])
<1>1. CASE to < FirstDay - 1
  BY <1>1
<1>2. CASE to >= FirstDay - 1
  <2> DEFINE a == FirstDay - 1
             T == {d \in a..to : IsLog(f[d])}
  <2>1. a \in T
    <3>1. a \in a..to /\ a < FirstDay
      BY <1>2
    <3>2. f[a] = <<>>
      BY <3>1 DEF Sums
    <3> QED BY <3>1, <3>2, OneLog
  <2>2. ASSUME NEW d \in a + 1..to, d - 1 \in T PROVE d \in T
    <3>1. d \in a..to /\ ~(d < FirstDay) /\ d \in Int
      OBVIOUS
    <3>2. f[d] = f[d - 1] \o FileOf(p, id, d)
      BY <3>1 DEF Sums
    <3>3. IsLog(f[d - 1]) /\ IsLog(FileOf(p, id, d))
      BY <2>2, <3>1
    <3>4. Joined(f[d - 1], FileOf(p, id, d), f[d])
      BY <3>2, <3>3, JoinIs
    <3> QED BY <3>1, <3>4 DEF Joined
  <2>3. a \in Int
    OBVIOUS
  <2>4. \A d \in a..to : d \in T
    <3> HIDE DEF T, a
    <3> QED BY <2>1, <2>2, <2>3, DayInduction
  <2> QED BY <2>4
<1> QED BY <1>1, <1>2

\* Days without a file add nothing.
LEMMA SumsPad ==
  ASSUME NEW f, NEW p, NEW id, NEW day \in Int, NEW to \in Int, FirstDay \in Int,
         FirstDay - 1 <= day, day <= to, Sums(f, p, id, to), IsLog(f[day]),
         \A d \in day + 1..to : FileOf(p, id, d) = <<>>
  PROVE  f[to] = f[day]
<1> DEFINE T == {d \in day..to : f[d] = f[day]}
<1>1. day \in T
  OBVIOUS
<1>2. ASSUME NEW d \in day + 1..to, d - 1 \in T PROVE d \in T
  <2>1. d \in FirstDay - 1..to /\ ~(d < FirstDay) /\ d \in day..to
    OBVIOUS
  <2>2. f[d] = f[d - 1] \o FileOf(p, id, d)
    BY <2>1 DEF Sums
  <2>3. f[d - 1] = f[day] /\ FileOf(p, id, d) = <<>>
    BY <1>2
  <2>4. f[d] = f[day]
    BY <2>2, <2>3, JoinNone
  <2> QED BY <2>1, <2>4
<1>3. \A d \in day..to : d \in T
  <2> HIDE DEF T
  <2> QED BY <1>1, <1>2, DayInduction
<1>4. to \in day..to
  OBVIOUS
<1> QED BY <1>3, <1>4

\* What a row adds to the files of its venue, whose last day was last: the snapshots e
\* of an epoch there, and its record r on its own day.
Added(p, q, id, last, day, e, r) ==
  /\ \A d \in Int : d # last /\ d # day => FileOf(q, id, d) = FileOf(p, id, d)
  /\ last # day => /\ FileOf(q, id, last) = FileOf(p, id, last) \o e
                   /\ FileOf(q, id, day) = <<r>>
  /\ last = day => FileOf(q, id, day) = (FileOf(p, id, last) \o e) \o <<r>>

LogsTo(f, p, id, last, e, r, log) ==
  Sums(f, p, id, last) /\ IsLog(f[last]) /\ log = (f[last] \o e) \o <<r>>

LEMMA LogGrows ==
  ASSUME NEW p, NEW q, NEW id, NEW last \in Int, NEW day \in Int, NEW e, NEW r, NEW g,
         FirstDay \in Int, FirstDay <= last, last <= day,
         \A d \in Int : IsLog(FileOf(p, id, d)),
         \A d \in Int : d > last => FileOf(p, id, d) = <<>>,
         IsLog(e), Added(p, q, id, last, day, e, r), Sums(g, q, id, day)
  PROVE  \E f : LogsTo(f, p, id, last, e, r, g[day])
<1> DEFINE a == FirstDay - 1
           f == [d \in a..last |-> IF d = last THEN g[last - 1] \o FileOf(p, id, last) ELSE g[d]]
<1>1. ASSUME NEW d \in a..last, d < last
      PROVE  g[d] = IF d < FirstDay THEN <<>> ELSE g[d - 1] \o FileOf(p, id, d)
  <2>1. d \in FirstDay - 1..day /\ d \in Int /\ d # last /\ d # day
    BY <1>1
  <2> QED BY <2>1 DEF Sums, Added
<1>2. Sums(f, p, id, last)
  <2> SUFFICES ASSUME NEW d \in a..last
               PROVE  f[d] = IF d < FirstDay THEN <<>> ELSE f[d - 1] \o FileOf(p, id, d)
    BY DEF Sums
  <2>1. CASE d = last
    <3>1. last - 1 \in a..last /\ last - 1 # last /\ ~(d < FirstDay)
      BY <2>1
    <3>2. f[d - 1] = g[last - 1] /\ f[d] = g[last - 1] \o FileOf(p, id, last)
      BY <2>1, <3>1
    <3> HIDE DEF f
    <3> QED BY <2>1, <3>1, <3>2
  <2>2. CASE d # last
    <3>1. d < last /\ f[d] = g[d]
      BY <2>2
    <3>2. CASE d < FirstDay
      <4> HIDE DEF f
      <4> QED BY <1>1, <3>1, <3>2
    <3>3. CASE ~(d < FirstDay)
      <4>1. f[d - 1] = g[d - 1]
        BY <3>1, <3>3
      <4> HIDE DEF f
      <4> QED BY <1>1, <3>1, <3>3, <4>1
    <3> QED BY <3>2, <3>3
  <2> QED BY <2>1, <2>2
<1>3. f[last] = g[last - 1] \o FileOf(p, id, last) /\ f[last - 1] = g[last - 1]
  <2>1. last \in a..last /\ last - 1 \in a..last /\ last - 1 # last
    OBVIOUS
  <2> QED BY <2>1
<1> HIDE DEF f
<1>4. IsLog(f[last]) /\ IsLog(g[last - 1])
  <2>1. \A d \in a..last : IsLog(f[d])
    BY <1>2, SumsAreLogs
  <2>2. last \in a..last /\ last - 1 \in a..last
    OBVIOUS
  <2> QED BY <1>3, <2>1, <2>2
<1>5. PICK x, o : x = g[last - 1] /\ o = FileOf(p, id, last) /\ IsLog(x) /\ IsLog(o)
  BY <1>4
<1>6. IsLog(<<r>>) /\ IsLog(x \o o) /\ IsLog(o \o e)
  BY <1>5, OneLog, JoinIs DEF Joined
<1>7. Associate(x, o, e) /\ Associate(x, o \o e, <<r>>)
  BY <1>5, <1>6, JoinAssociates
<1>8. CASE last = day
  <2>1. g[day] = g[day - 1] \o FileOf(q, id, day)
    <3>1. day \in FirstDay - 1..day /\ ~(day < FirstDay)
      OBVIOUS
    <3> QED BY <3>1 DEF Sums
  <2>2. g[day] = x \o ((o \o e) \o <<r>>)
    BY <1>5, <1>8, <2>1 DEF Added
  <2>3. g[day] = ((x \o o) \o e) \o <<r>>
    BY <1>7, <2>2, Zenon DEF Associate
  <2> QED BY <1>2, <1>3, <1>4, <1>5, <2>3 DEF LogsTo
<1>9. CASE last # day
  <2>1. g[last] = g[last - 1] \o FileOf(q, id, last)
    <3>1. last \in FirstDay - 1..day /\ ~(last < FirstDay)
      OBVIOUS
    <3> QED BY <3>1 DEF Sums
  <2>2. g[last] = x \o (o \o e)
    BY <1>5, <1>9, <2>1 DEF Added
  <2>3. g[last] = (x \o o) \o e
    BY <1>7, <2>2, Zenon DEF Associate
  <2>4. IsLog(g[last])
    BY <1>5, <1>6, <2>3, JoinIs DEF Joined
  <2>5. g[day - 1] = g[last]
    <3>1. Sums(g, q, id, day - 1)
      <4>1. \A d \in FirstDay - 1..day - 1 : d \in FirstDay - 1..day
        OBVIOUS
      <4> QED BY <4>1 DEF Sums
    <3>2. \A d \in last + 1..day - 1 : FileOf(q, id, d) = <<>>
      BY DEF Added
    <3>3. last <= day - 1 /\ day - 1 \in Int /\ FirstDay - 1 <= last
      BY <1>9
    <3> QED BY <2>4, <3>1, <3>2, <3>3, SumsPad
  <2>6. g[day] = g[day - 1] \o <<r>>
    <3>1. day \in FirstDay - 1..day /\ ~(day < FirstDay)
      OBVIOUS
    <3> QED BY <1>9, <3>1 DEF Sums, Added
  <2>7. g[day] = (f[last] \o e) \o <<r>>
    BY <1>3, <1>5, <2>3, <2>5, <2>6, Zenon
  <2> QED BY <1>2, <1>4, <2>7 DEF LogsTo
<1> QED BY <1>8, <1>9

\* The first row of a venue.
LEMMA LogBegins ==
  ASSUME NEW q, NEW id, NEW day \in Int, NEW one, NEW g, FirstDay \in Int, FirstDay <= day,
         \A d \in Int : d # day => FileOf(q, id, d) = <<>>,
         IsLog(one), FileOf(q, id, day) = one, Sums(g, q, id, day)
  PROVE  g[day] = one
<1>1. g[FirstDay - 1] = <<>>
  <2>1. FirstDay - 1 \in FirstDay - 1..day /\ FirstDay - 1 < FirstDay
    OBVIOUS
  <2> QED BY <2>1 DEF Sums
<1>2. Sums(g, q, id, day - 1)
  <2>1. \A d \in FirstDay - 1..day - 1 : d \in FirstDay - 1..day
    OBVIOUS
  <2> QED BY <2>1 DEF Sums
<1>3. g[day - 1] = g[FirstDay - 1]
  <2>1. FirstDay - 1 \in Int /\ day - 1 \in Int /\ FirstDay - 1 <= day - 1
        /\ FirstDay - 1 <= FirstDay - 1
    OBVIOUS
  <2>2. \A d \in (FirstDay - 1) + 1..day - 1 : FileOf(q, id, d) = <<>>
    OBVIOUS
  <2>3. IsLog(g[FirstDay - 1])
    BY <1>1, OneLog
  <2> QED BY <1>2, <2>1, <2>2, <2>3, SumsPad, Zenon
<1>4. g[day] = g[day - 1] \o one
  <2>1. day \in FirstDay - 1..day /\ ~(day < FirstDay)
    OBVIOUS
  <2> QED BY <2>1 DEF Sums
<1> QED BY <1>1, <1>3, <1>4, JoinNone

\* Before adds up the files of p.
LEMMA BeforeSums ==
  ASSUME NEW id, NEW day \in Int, day \in Days, <<id, day>> \in DOMAIN parts,
         IsLog(parts[<<id, day>>])
  PROVE  \E f : /\ Before(id, day, Len(parts[<<id, day>>]) + 1) = f[day]
                /\ Sums(f, parts, id, day)
<1>1. PICK s : s = parts[<<id, day>>]
  OBVIOUS
<1>2. PICK n \in Nat : n = Len(s) + 1 /\ SubSeq(s, 1, n - 1) = s
  <2>1. Len(s) \in Nat /\ s \in Seq(ToSet(s))
    BY <1>1, LogIs DEF IsLog
  <2>2. Len(s) + 1 \in Nat /\ (Len(s) + 1) - 1 = Len(s) /\ SubSeq(s, 1, Len(s)) = s
    BY <2>1
  <2> QED BY <2>2
<1>3. PICK f : Before(id, day, n) = f[day] /\ Adds(f, id, day, n, day)
  BY BeforeAdds
<1>4. FirstDay \in Int /\ \A y \in Days : FirstDay <= y
  BY FirstDayIsLeast
<1>5. ASSUME NEW d \in FirstDay - 1..day
      PROVE  f[d] = IF d < FirstDay THEN <<>> ELSE f[d - 1] \o FileOf(parts, id, d)
  <2>1. d < FirstDay => d \notin Days
    BY <1>4
  <2>2. f[d] = IF d < FirstDay THEN <<>> ELSE f[d - 1] \o Piece(id, d, day, n)
    BY <1>3, <2>1 DEF Adds
  <2>3. Piece(id, d, day, n) = FileOf(parts, id, d)
    BY <1>1, <1>2, Zenon DEF Piece, FileOf
  <2> QED BY <2>2, <2>3
<1> QED BY <1>1, <1>2, <1>3, <1>5 DEF Sums

-----------------------------------------------------------------------------
(***************************************************************************)
(* The cadence of the epochs.                                              *)
(***************************************************************************)

\* Where a stretch without an epoch starts.
Starts(log) ==
  {i \in DOMAIN log : log[i].epoch} \cup
  {i - 1 : i \in {i \in DOMAIN log : log[i].type # Trade
                    /\ \A j \in 1..i - 1 : log[j].type = Trade}}

\* m is the last start, and what follows the EpochEvery records after it repeats one time.
LastStart(log, m) == m \in Starts(log) /\ \A j \in Starts(log) : j <= m
Even(log, m) == m + EpochEvery < Len(log) => log[m + EpochEvery].ts = log[Len(log)].ts

\* What the state of a venue says of its log.
Paced(log, v) ==
  /\ IsLog(log) /\ Len(log) > 0 /\ v.lastTs = log[Len(log)].ts
  /\ \A i \in 1..Len(log) : log[i].epoch => log[i].type # Trade
  /\ DOMAIN v.books = {} <=> \A i \in 1..Len(log) : log[i].type = Trade
  /\ v.since \in Nat /\ (v.pending <=> v.since >= EpochEvery)
  /\ DOMAIN v.books # {} =>
       \E m \in 0..Len(log) : LastStart(log, m) /\ Len(log) - m <= v.since /\ Even(log, m)

\* The log after a row, e being the epoch before it.
Grown(log, e, r, k) ==
  /\ IsLog(k) /\ Len(k) = Len(log) + Len(e) + 1 /\ k[Len(k)] = r
  /\ \A i \in 1..Len(log) : k[i] = log[i]
  /\ \A i \in 1..Len(e) : k[Len(log) + i] = e[i]

LEMMA GrownIs ==
  ASSUME NEW log, NEW e, NEW r, IsLog(log), IsLog(e)
  PROVE  Grown(log, e, r, (log \o e) \o <<r>>)
<1>1. PICK x, y, k : x = log \o e /\ y = <<r>> /\ k = x \o y
  OBVIOUS
<1>2. Joined(log, e, x)
  BY <1>1, JoinIs
<1>3. IsLog(x) /\ IsLog(y) /\ Len(y) = 1 /\ y[1] = r
  BY <1>1, <1>2, OneLog DEF Joined
<1>4. Joined(x, y, k)
  BY <1>1, <1>3, JoinIs
<1>5. Len(log) \in Nat /\ Len(e) \in Nat /\ Len(x) = Len(log) + Len(e)
  BY <1>2, LogIs DEF Joined
<1>6. IsLog(k) /\ Len(k) = Len(log) + Len(e) + 1 /\ k[Len(k)] = r
  BY <1>3, <1>4, <1>5 DEF Joined
<1>7. ASSUME NEW i \in 1..Len(log) PROVE k[i] = log[i]
  <2>1. i \in 1..Len(x)
    BY <1>5
  <2> QED BY <1>2, <1>4, <2>1 DEF Joined
<1>8. ASSUME NEW i \in 1..Len(e) PROVE k[Len(log) + i] = e[i]
  <2>1. Len(log) + i \in 1..Len(x)
    BY <1>5
  <2> QED BY <1>2, <1>4, <2>1 DEF Joined
<1> QED BY <1>1, <1>6, <1>7, <1>8, Zenon DEF Grown

\* No start is later than the last record but one.
LEMMA StartsBound ==
  ASSUME NEW k, IsLog(k), Len(k) > 0, ~k[Len(k)].epoch, NEW j \in Starts(k)
  PROVE  j \in 0..Len(k) - 1
<1>1. Len(k) \in Nat /\ DOMAIN k = 1..Len(k)
  BY LogIs
<1>2. CASE j \in DOMAIN k /\ k[j].epoch
  BY <1>1, <1>2
<1>3. CASE \E i \in DOMAIN k : j = i - 1
  BY <1>1, <1>3
<1> QED BY <1>2, <1>3 DEF Starts

LEMMA PenultimateStart ==
  ASSUME NEW k, IsLog(k), Len(k) > 0, ~k[Len(k)].epoch, Len(k) - 1 \in Starts(k)
  PROVE  \E m \in 0..Len(k) : LastStart(k, m) /\ Len(k) - m <= 1 /\ Even(k, m)
<1>1. PICK n \in Nat : n = Len(k)
  BY LogIs
<1>2. n - 1 \in 0..n /\ n - (n - 1) <= 1
  BY <1>1
<1>3. \A j \in Starts(k) : j <= n - 1
  BY <1>1, StartsBound
<1>4. Even(k, n - 1)
  <2>1. ~((n - 1) + EpochEvery < n)
    BY ArchiveAssumption
  <2> QED BY <1>1, <2>1 DEF Even
<1> QED BY <1>1, <1>2, <1>3, <1>4 DEF LastStart

\* The first record that makes a book starts a stretch.
LEMMA FirstBookStarts ==
  ASSUME NEW log, NEW r, NEW e, NEW k, Grown(log, e, r, k), IsLog(log), Len(e) = 0,
         \A i \in 1..Len(log) : log[i].type = Trade, r.type # Trade
  PROVE  Len(k) - 1 \in Starts(k)
<1>1. PICK n \in Nat : n = Len(log)
  BY LogIs
<1>2. Len(k) = n + 1 /\ DOMAIN k = 1..n + 1 /\ k[n + 1] = r
  BY <1>1, LogIs DEF Grown
<1>3. \A j \in 1..(n + 1) - 1 : k[j].type = Trade
  BY <1>1 DEF Grown
<1>4. n + 1 \in {i \in DOMAIN k : k[i].type # Trade /\ \A j \in 1..i - 1 : k[j].type = Trade}
  BY <1>2, <1>3
<1>5. (n + 1) - 1 \in {i - 1 : i \in {i \in DOMAIN k : k[i].type # Trade
                                     /\ \A j \in 1..i - 1 : k[j].type = Trade}}
  BY <1>4
<1> QED BY <1>2, <1>5 DEF Starts

\* So does an epoch.
LEMMA EpochStarts ==
  ASSUME NEW log, NEW r, NEW e, NEW k, Grown(log, e, r, k), IsLog(log), IsLog(e), Len(e) > 0,
         \A i \in 1..Len(e) : e[i].epoch
  PROVE  Len(k) - 1 \in Starts(k)
<1>1. PICK n \in Nat, m \in Nat : n = Len(log) /\ m = Len(e)
  BY LogIs
<1>2. Len(k) = n + m + 1 /\ DOMAIN k = 1..n + m + 1 /\ m > 0
  BY <1>1, LogIs DEF Grown
<1>3. m \in 1..m /\ n + m \in 1..n + m + 1
  BY <1>2
<1>4. k[n + m].epoch
  BY <1>1, <1>3 DEF Grown
<1> QED BY <1>2, <1>3, <1>4 DEF Starts

\* Any other record starts none.
LEMMA NoStart ==
  ASSUME NEW log, NEW r, NEW e, NEW k, Grown(log, e, r, k), IsLog(log), Len(e) = 0,
         \E i \in 1..Len(log) : log[i].type # Trade, ~r.epoch
  PROVE  Starts(k) = Starts(log)
<1>1. PICK n \in Nat : n = Len(log) /\ DOMAIN log = 1..n
  BY LogIs
<1>2. DOMAIN k = 1..n + 1 /\ k[n + 1] = r /\ \A i \in 1..n : k[i] = log[i]
  BY <1>1, LogIs DEF Grown
<1> DEFINE First(l) == {i \in DOMAIN l : l[i].type # Trade
                          /\ \A j \in 1..i - 1 : l[j].type = Trade}
<1>3. {i \in DOMAIN k : k[i].epoch} = {i \in DOMAIN log : log[i].epoch}
  <2>1. \A i \in 1..n + 1 : i \in 1..n \/ i = n + 1
    OBVIOUS
  <2>2. \A i \in 1..n : i \in 1..n + 1
    OBVIOUS
  <2> QED BY <1>1, <1>2, <2>1, <2>2
<1>4. First(k) = First(log)
  <2>1. ASSUME NEW i \in First(k) PROVE i \in First(log)
    <3>1. i \in 1..n + 1 /\ k[i].type # Trade /\ \A j \in 1..i - 1 : k[j].type = Trade
      BY <1>2
    <3>2. PICK x \in 1..n : log[x].type # Trade
      BY <1>1
    <3>3. i # n + 1
      BY <1>2, <3>1, <3>2
    <3>4. i \in 1..n /\ \A j \in 1..i - 1 : j \in 1..n
      BY <3>1, <3>3
    <3> QED BY <1>1, <1>2, <3>1, <3>4
  <2>2. ASSUME NEW i \in First(log) PROVE i \in First(k)
    <3>1. i \in 1..n /\ log[i].type # Trade /\ \A j \in 1..i - 1 : log[j].type = Trade
      BY <1>1
    <3>2. i \in 1..n + 1 /\ \A j \in 1..i - 1 : j \in 1..n
      BY <3>1
    <3> QED BY <1>2, <3>1, <3>2
  <2> QED BY <2>1, <2>2
<1>5. Starts(k) = {i \in DOMAIN k : k[i].epoch} \cup {i - 1 : i \in First(k)}
  BY Zenon DEF Starts
<1>6. Starts(log) = {i \in DOMAIN log : log[i].epoch} \cup {i - 1 : i \in First(log)}
  BY Zenon DEF Starts
<1> HIDE DEF First
<1> QED BY <1>3, <1>4, <1>5, <1>6, Zenon

\* What a row makes of the state v of its venue: r its record.
Booked(v, u, r) ==
  /\ u.lastTs = r.ts /\ ~r.epoch
  /\ r.type = Trade => DOMAIN u.books = DOMAIN v.books
  /\ r.type # Trade => DOMAIN u.books # {}

\* The parts of Paced that do not depend on the starts.
Marked(log, v) ==
  /\ IsLog(log)
  /\ \A i \in 1..Len(log) : log[i].epoch => log[i].type # Trade
  /\ DOMAIN v.books = {} <=> \A i \in 1..Len(log) : log[i].type = Trade

LEMMA MarkedGrows ==
  ASSUME NEW log, NEW v, NEW u, NEW r, NEW e, NEW k, Marked(log, v), Booked(v, u, r),
         IsLog(e), \A i \in 1..Len(e) : e[i].type # Trade,
         DOMAIN v.books = {} => Len(e) = 0, Grown(log, e, r, k)
  PROVE  Marked(k, u) /\ Len(k) > 0 /\ u.lastTs = k[Len(k)].ts /\ ~k[Len(k)].epoch
<1>1. PICK n \in Nat, m \in Nat : n = Len(log) /\ m = Len(e)
  BY LogIs DEF Marked
<1>2. /\ IsLog(k) /\ Len(k) = n + m + 1 /\ k[n + m + 1] = r
      /\ \A i \in 1..n : k[i] = log[i]
      /\ \A i \in 1..m : k[n + i] = e[i]
  BY <1>1 DEF Grown
<1>3. ASSUME NEW i \in 1..n + m + 1
      PROVE  i \in 1..n \/ (\E j \in 1..m : i = n + j) \/ i = n + m + 1
  <2>1. CASE i > n /\ i # n + m + 1
    <3>1. i - n \in 1..m /\ i = n + (i - n)
      BY <2>1
    <3> QED BY <3>1
  <2> QED BY <2>1
<1>4. ASSUME NEW i \in 1..n + m + 1, k[i].epoch PROVE k[i].type # Trade
  <2>1. CASE i \in 1..n
    BY <1>1, <1>2, <1>4, <2>1 DEF Marked
  <2>2. CASE \E j \in 1..m : i = n + j
    BY <1>1, <1>2, <2>2
  <2>3. CASE i = n + m + 1
    BY <1>2, <1>4, <2>3 DEF Booked
  <2> QED BY <1>3, <2>1, <2>2, <2>3
<1>5. n + m + 1 \in 1..n + m + 1 /\ \A i \in 1..n : i \in 1..n + m + 1
  OBVIOUS
<1>6. DOMAIN u.books = {} <=> \A i \in 1..n + m + 1 : k[i].type = Trade
  <2>1. CASE DOMAIN v.books = {}
    <3>1. m = 0 /\ \A i \in 1..n : log[i].type = Trade
      BY <1>1, <2>1 DEF Marked
    <3>2. \A i \in 1..n : k[i].type = Trade
      BY <1>2, <3>1
    <3>3. \A i \in 1..n + m + 1 : i \in 1..n \/ i = n + m + 1
      BY <3>1
    <3>4. CASE r.type = Trade
      BY <1>2, <2>1, <3>2, <3>3, <3>4 DEF Booked
    <3>5. CASE r.type # Trade
      BY <1>2, <1>5, <3>5 DEF Booked
    <3> QED BY <3>4, <3>5
  <2>2. CASE DOMAIN v.books # {}
    <3>1. PICK i \in 1..n : log[i].type # Trade
      BY <1>1, <2>2 DEF Marked
    <3>2. k[i].type # Trade /\ i \in 1..n + m + 1
      BY <1>2, <1>5, <3>1
    <3> QED BY <2>2, <3>2 DEF Booked
  <2> QED BY <2>1, <2>2
<1> QED BY <1>2, <1>4, <1>6 DEF Marked, Booked

\* After an epoch, or with the first row, the count starts anew.
LEMMA PacedAnew ==
  ASSUME NEW log, NEW v, NEW u, NEW r, NEW e, NEW k, Marked(log, v), Booked(v, u, r),
         IsLog(e), \A i \in 1..Len(e) : e[i].epoch /\ e[i].type # Trade,
         DOMAIN v.books = {} <=> Len(e) = 0, Grown(log, e, r, k),
         u.since = 1, u.pending <=> 1 >= EpochEvery
  PROVE  Paced(k, u)
<1>1. Marked(k, u) /\ Len(k) > 0 /\ u.lastTs = k[Len(k)].ts /\ ~k[Len(k)].epoch
  BY MarkedGrows
<1>2. ASSUME DOMAIN u.books # {} PROVE Len(k) - 1 \in Starts(k)
  <2>1. CASE DOMAIN v.books = {}
    <3>1. r.type # Trade /\ Len(e) = 0 /\ \A i \in 1..Len(log) : log[i].type = Trade
      BY <1>2, <2>1 DEF Booked, Marked
    <3> QED BY <3>1, FirstBookStarts DEF Marked
  <2>2. CASE DOMAIN v.books # {}
    <3>1. Len(e) > 0
      BY <2>2, LogIs
    <3> QED BY <3>1, EpochStarts DEF Marked
  <2> QED BY <2>1, <2>2
<1>3. ASSUME DOMAIN u.books # {}
      PROVE  \E m \in 0..Len(k) : LastStart(k, m) /\ Len(k) - m <= 1 /\ Even(k, m)
  BY <1>1, <1>2, <1>3, PenultimateStart DEF Marked
<1> QED BY <1>1, <1>3 DEF Paced, Marked

\* Without one, a record after EpochEvery others has the time of the one before.
LEMMA PacedOn ==
  ASSUME NEW log, NEW v, NEW u, NEW r, NEW e, NEW k, Paced(log, v), Booked(v, u, r),
         IsLog(e), Len(e) = 0, Grown(log, e, r, k),
         v.lastTs \in Int, r.ts \in Int, r.ts >= v.lastTs, ~(v.pending /\ r.ts > v.lastTs),
         u.since = v.since + 1, u.pending <=> (v.pending \/ v.since + 1 >= EpochEvery)
  PROVE  Paced(k, u)
<1>1. Marked(log, v)
  BY DEF Paced, Marked
<1>2. Marked(k, u) /\ Len(k) > 0 /\ u.lastTs = k[Len(k)].ts /\ ~k[Len(k)].epoch
  BY <1>1, MarkedGrows
<1>3. PICK n \in Nat, c \in Nat, E \in Nat \ {0} :
        n = Len(log) /\ c = v.since /\ E = EpochEvery
  BY LogIs, ArchiveAssumption DEF Paced
<1>4. /\ Len(k) = n + 1 /\ k[n + 1] = r /\ \A i \in 1..n : k[i] = log[i]
      /\ n > 0 /\ v.lastTs = log[n].ts
  BY <1>3 DEF Grown, Paced
<1>5. u.since \in Nat /\ (u.pending <=> u.since >= EpochEvery)
  <2>1. v.pending <=> c >= E
    BY <1>3 DEF Paced
  <2>2. c >= E \/ c + 1 >= E <=> c + 1 >= E
    OBVIOUS
  <2> QED BY <1>3, <2>1, <2>2
<1>6. ASSUME DOMAIN u.books # {}
      PROVE  \E m \in 0..Len(k) : LastStart(k, m) /\ Len(k) - m <= u.since /\ Even(k, m)
  <2>1. CASE DOMAIN v.books = {}
    <3>1. r.type # Trade /\ \A i \in 1..Len(log) : log[i].type = Trade
      BY <1>1, <1>6, <2>1 DEF Booked, Marked
    <3>2. Len(k) - 1 \in Starts(k)
      BY <1>1, <3>1, FirstBookStarts DEF Marked
    <3>3. PICK m \in 0..Len(k) : LastStart(k, m) /\ Len(k) - m <= 1 /\ Even(k, m)
      BY <1>2, <3>2, PenultimateStart DEF Marked
    <3>4. Len(k) - m <= u.since
      BY <1>3, <1>4, <3>3
    <3> QED BY <3>3, <3>4
  <2>2. CASE DOMAIN v.books # {}
    <3>1. \E i \in 1..Len(log) : log[i].type # Trade
      BY <1>1, <2>2 DEF Marked
    <3>2. Starts(k) = Starts(log)
      BY <1>1, <3>1, NoStart DEF Marked, Booked
    <3>3. PICK m \in 0..n : LastStart(log, m) /\ n - m <= c /\ Even(log, m)
      BY <1>3, <2>2 DEF Paced
    <3>4. LastStart(k, m)
      BY <3>2, <3>3 DEF LastStart
    <3>5. m \in 0..Len(k) /\ Len(k) - m <= u.since
      BY <1>3, <1>4, <3>3
    <3>6. Even(k, m)
      <4> SUFFICES ASSUME m + E < n + 1 PROVE k[m + E].ts = r.ts
        BY <1>3, <1>4 DEF Even
      <4>1. m + E \in 1..n /\ c >= E
        BY <3>3
      <4>2. v.pending
        BY <1>3, <4>1 DEF Paced
      <4>3. r.ts = v.lastTs
        BY <4>2
      <4>4. log[m + E].ts = log[n].ts
        <5>1. CASE m + E = n
          BY <5>1
        <5>2. CASE m + E # n
          BY <1>3, <3>3, <4>1, <5>2 DEF Even
        <5> QED BY <5>1, <5>2
      <4> QED BY <1>4, <4>1, <4>3, <4>4
    <3> QED BY <3>4, <3>5, <3>6
  <2> QED BY <2>1, <2>2
<1> QED BY <1>2, <1>5, <1>6 DEF Paced, Marked

\* The snapshots of an epoch.
LEMMA EpochIs ==
  ASSUME NEW v, IsFiniteSet(DOMAIN v.books)
  PROVE  /\ IsLog(epoch(v)) /\ (DOMAIN v.books = {} <=> Len(epoch(v)) = 0)
         /\ \A i \in 1..Len(epoch(v)) : epoch(v)[i].epoch /\ epoch(v)[i].type # Trade
<1> DEFINE n == Cardinality(DOMAIN v.books)
<1>1. n \in Nat /\ (n = 0 <=> DOMAIN v.books = {})
  BY FS_CardinalityType, FS_EmptySet
<1>2. /\ DOMAIN epoch(v) = 1..n
      /\ epoch(v) = [i \in 1..n |-> epoch(v)[i]]
      /\ \A i \in 1..n : epoch(v)[i].epoch = TRUE /\ epoch(v)[i].type = SnapshotPointer
  BY DEF epoch, Snapshot
<1> HIDE DEF n
<1>3. \A i \in 1..n : epoch(v)[i] \in ToSet(epoch(v))
  BY <1>2 DEF ToSet
<1>4. epoch(v) \in Seq(ToSet(epoch(v))) /\ Len(epoch(v)) = n
  BY <1>1, <1>2, <1>3
<1>5. SnapshotPointer # Trade
  BY DEF SnapshotPointer, Trade
<1> QED BY <1>1, <1>2, <1>4, <1>5 DEF IsLog

\* The state of a venue after a row.
Advanced(v, u, r, key) ==
  /\ Booked(v, u, r) /\ u.since = v.since + 1 /\ u.last = key /\ u.seen = TRUE
  /\ u.pending <=> (v.pending \/ v.since + 1 >= EpochEvery)

\* The books of u are the ones of v with the record r applied.
BookedIn(v, u, r) ==
  u.books = IF r.type = Trade THEN v.books
            ELSE With(v.books, r.instrument, Apply(bookOf(v, r.instrument), r))

LEMMA AdvanceIs ==
  ASSUME NEW v, NEW r, NEW key, NEW u, DOMAIN v = VenueFields, ~r.epoch,
         u = advance(applyToBook(v, r), r, key)
  PROVE  Advanced(v, u, r, key) /\ BookedIn(v, u, r)
<1>1. PICK x : x = applyToBook(v, r)
  OBVIOUS
<1>2. /\ DOMAIN x = VenueFields /\ x.since = v.since /\ x.pending = v.pending
      /\ r.type = Trade => DOMAIN x.books = DOMAIN v.books
      /\ r.type # Trade => DOMAIN x.books # {}
      /\ BookedIn(v, x, r)
  <2>1. CASE r.type = Trade
    BY <1>1, <2>1 DEF applyToBook, BookedIn
  <2>2. CASE r.type # Trade
    <3>1. PICK b : b = Apply(bookOf(v, r.instrument), r) /\ x = [v EXCEPT !.books = With(@, r.instrument, b)]
      BY <1>1, <2>2 DEF applyToBook
    <3>2. x.books = With(v.books, r.instrument, b)
      BY <3>1 DEF VenueFields
    <3>3. r.instrument \in DOMAIN x.books
      BY <3>2 DEF With
    <3>4. BookedIn(v, x, r)
      BY <2>2, <3>1, <3>2 DEF BookedIn
    <3> QED BY <2>2, <3>1, <3>3, <3>4 DEF VenueFields
  <2> QED BY <2>1, <2>2
<1>3. PICK c, t : c = x.since + 1 /\ t = (x.pending \/ x.since + 1 >= EpochEvery)
  OBVIOUS
<1>4. u = [x EXCEPT !.lastTs = r.ts, !.lastSeq = r.seq, !.seen = TRUE, !.last = key,
                    !.since = c, !.pending = t]
  BY <1>1, <1>3, Zenon DEF advance
<1>5. u.lastTs = r.ts /\ u.seen = TRUE /\ u.last = key /\ u.since = c /\ u.pending = t
      /\ u.books = x.books
  BY <1>2, <1>4 DEF VenueFields
<1>6. u.pending <=> (v.pending \/ v.since + 1 >= EpochEvery)
  BY <1>2, <1>3, <1>5, Zenon
<1>7. BookedIn(v, u, r)
  BY <1>2, <1>5 DEF BookedIn
<1> QED BY <1>2, <1>3, <1>5, <1>6, <1>7 DEF Booked, Advanced

\* The epoch a row releases in front of it.
Released(v, row) == IF epochDue(v, row) THEN epoch(v) ELSE <<>>

\* What becomes of file k of the files p, with the epoch e of the venue v and the record r.
Files(p, q, k, v, key, e, r) ==
  /\ k \in DOMAIN q <=> k \in DOMAIN p \/ k = key
  /\ k \in DOMAIN p /\ k # key /\ k # v.last => q[k] = p[k]
  /\ k \in DOMAIN p /\ k # key /\ k = v.last => q[k] = p[k] \o e
  /\ k \in DOMAIN p /\ k = key /\ k = v.last => q[k] = (p[k] \o e) \o <<r>>
  /\ k \notin DOMAIN p /\ k = key => q[k] = <<r>>

\* What Appended does, file by file.
LEMMA AppendedIs ==
  ASSUME Keyed, Filed, Dated, pc = "reading", NEW row \in Rows, NEW v, v = venue(row.venue),
         NEW key, key = PartitionOf(row.venue, row.ts), NEW r, r = recordOf(row),
         NEW k \in PartitionKeys
  PROVE  Files(parts, Appended(row), k, v, key, Released(v, row), r)
<1> DEFINE f == partition(key, writeEpoch(row))
<1>1. DOMAIN writeEpoch(row) = DOMAIN parts /\ DOMAIN f = DOMAIN parts \cup {key}
  BY DEF writeEpoch, partition, With
<1>2. VenueOf(row.venue, v)
  BY VenueKnown
<1>3. IsLog(Released(v, row))
  BY <1>2, EpochIs, OneLog DEF Released, VenueOf
<1>4. ASSUME k \in DOMAIN parts
      PROVE  /\ IsLog(parts[k]) /\ f[k] = writeEpoch(row)[k]
             /\ writeEpoch(row)[k] = IF k = v.last THEN parts[k] \o Released(v, row) ELSE parts[k]
  <2>1. IsLog(parts[k])
    BY <1>4 DEF Filed, Converting, OfDay, IsLog
  <2>2. f[k] = writeEpoch(row)[k]
    BY <1>1, <1>4 DEF partition, With
  <2>3. CASE epochDue(v, row)
    BY <1>4, <2>1, <2>2, <2>3 DEF writeEpoch, Released
  <2>4. CASE ~epochDue(v, row)
    BY <1>4, <2>1, <2>2, <2>4, JoinNone DEF writeEpoch, Released
  <2> QED BY <2>3, <2>4
<1>5. key \notin DOMAIN parts => f[key] = <<>>
  BY <1>1 DEF partition, With
<1>6. PICK g : g = f /\ DOMAIN g = DOMAIN parts \cup {key}
  BY <1>1
<1>7. Appended(row) = [g EXCEPT ![key] = Append(g[key], r)]
  BY <1>6 DEF Appended
<1>8. /\ k \in DOMAIN Appended(row) <=> k \in DOMAIN parts \/ k = key
      /\ k \in DOMAIN parts /\ k # key => Appended(row)[k] = g[k]
      /\ k = key => Appended(row)[k] = Append(g[k], r)
  BY <1>6, <1>7
<1>9. ASSUME NEW s, IsLog(s) PROVE Append(s, r) = s \o <<r>>
  <2>1. s \in Seq(ToSet(s) \cup {r})
    BY <1>9 DEF IsLog
  <2> QED BY <2>1
<1>10. ASSUME k \in DOMAIN parts, k = key, k = v.last
       PROVE  Appended(row)[k] = (parts[k] \o Released(v, row)) \o <<r>>
  <2>1. PICK s : s = parts[k] \o Released(v, row) /\ IsLog(s)
    BY <1>3, <1>4, <1>10, JoinIs DEF Joined
  <2>2. g[k] = s
    BY <1>4, <1>6, <1>10, <2>1
  <2> QED BY <1>8, <1>9, <1>10, <2>1, <2>2
<1>11. ASSUME k \notin DOMAIN parts, k = key PROVE Appended(row)[k] = <<r>>
  <2>1. g[k] = <<>>
    BY <1>5, <1>6, <1>11
  <2> QED BY <1>8, <1>11, <2>1
<1> QED BY <1>4, <1>6, <1>8, <1>10, <1>11 DEF Files

\* Every way to add up the files of a venue gives a log that its state tells the truth of.
OnPace(p, id, v) == \A f : Sums(f, p, id, v.last[2]) => Paced(f[v.last[2]], v)

\* A venue's last file is the latest of its files.
Latest(p, vs) ==
  /\ \A id \in DOMAIN vs : vs[id].last \in DOMAIN p
  /\ \A k \in DOMAIN p : k[1] \in DOMAIN vs /\ k[2] <= vs[k[1]].last[2]

\* The states of the venues, with what their files hold.
Tracked(p, vs) ==
  /\ Latest(p, vs)
  /\ \A id \in DOMAIN vs : VenueOf(id, vs[id]) /\ vs[id].seen = TRUE /\ OnPace(p, id, vs[id])
Cadence == Converting => Tracked(parts, venues)

LEMMA FloorDivRises ==
  ASSUME NEW a \in Int, NEW c \in Int, a <= c
  PROVE  floorDiv(a, NanosPerDay) <= floorDiv(c, NanosPerDay)
<1>1. PICK b \in Nat \ {0} : b = NanosPerDay
  BY ArchiveAssumption
<1>2. PICK x \in Int, y \in Int : x = floorDiv(a, b) /\ y = floorDiv(c, b)
  BY FloorDivFloors
<1>3. x * b <= a /\ c < (y + 1) * b
  BY <1>2, FloorDivFloors
<1>4. x * b < (y + 1) * b
  <2>1. x * b \in Int /\ (y + 1) * b \in Int
    OBVIOUS
  <2> QED BY <1>3, <2>1
<1>5. ASSUME x > y PROVE FALSE
  <2>1. x >= y + 1
    BY <1>5
  <2>2. x * b >= (y + 1) * b
    BY <2>1
  <2> QED BY <1>4, <2>2
<1> QED BY <1>1, <1>2, <1>5

\* The files of a venue are logs.
LEMMA FilesAreLogs ==
  ASSUME Filed, Converting, NEW id, NEW d
  PROVE  IsLog(FileOf(parts, id, d))
BY OneLog DEF Filed, OfDay, IsLog, FileOf

\* A row adds to the files of its venue from the last day on.
Extended(p, q, id, last, day, e, r) ==
  /\ FirstDay \in Int /\ FirstDay <= last /\ last <= day
  /\ \A d \in Int : IsLog(FileOf(p, id, d)) /\ (d > last => FileOf(p, id, d) = <<>>)
  /\ IsLog(e) /\ Added(p, q, id, last, day, e, r)

\* A row of a venue that has records: what it does to the files.
LEMMA LaterFiles ==
  ASSUME Keyed, Filed, Dated, pc = "reading", Tracked(parts, venues), NEW row \in Rows,
         row.venue \in DOMAIN venues, NEW v, v = venues[row.venue],
         row.ts >= v.lastTs, NEW r, r = recordOf(row), NEW key,
         key = PartitionOf(row.venue, row.ts)
  PROVE  \E last, day \in Int :
           /\ v.last = <<row.venue, last>> /\ key = <<row.venue, day>>
           /\ Extended(parts, Appended(row), row.venue, last, day, Released(v, row), r)
<1>1. PICK id, q : id = row.venue /\ q = Appended(row)
  OBVIOUS
<1>2. /\ VenueOf(id, v) /\ v.seen = TRUE /\ v = venue(id)
      /\ v.last \in DOMAIN parts /\ \A k \in DOMAIN parts : k[1] = id => k[2] <= v.last[2]
  BY <1>1 DEF Tracked, Latest, venue
<1>3. v.lastTs \in Int /\ row.ts \in Int /\ r.ts = row.ts /\ ~r.epoch
  BY <1>2, ArchiveAssumption DEF VenueOf, recordOf, Snapshot
<1>4. PICK last \in Int, day \in Int :
        /\ last = floorDiv(v.lastTs, NanosPerDay) /\ day = floorDiv(row.ts, NanosPerDay)
        /\ v.last = <<id, last>> /\ key = <<id, day>>
  BY <1>1, <1>2, <1>3, FloorDivFloors, ArchiveAssumption DEF VenueOf, PartitionOf
<1>5. last <= day
  BY <1>3, <1>4, FloorDivRises
<1>6. PICK e : e = Released(v, row)
  OBVIOUS
<1>7. IsLog(epoch(v))
  BY <1>2, EpochIs DEF VenueOf
<1>8. IsLog(e)
  BY <1>6, <1>7, OneLog DEF Released
<1>9. id \in Nat
  BY <1>1, ArchiveAssumption
<1>10. ASSUME NEW d \in Int
       PROVE  /\ <<id, d>> \in PartitionKeys /\ (d = day <=> <<id, d>> = key)
              /\ (d = last <=> <<id, d>> = v.last)
              /\ <<id, d>> \in DOMAIN parts => d <= last
  BY <1>2, <1>4, <1>9 DEF PartitionKeys
<1>16. ASSUME NEW k \in PartitionKeys
       PROVE  Files(parts, q, k, v, key, e, r)
  <2>1. v = venue(row.venue)
    BY <1>1, <1>2
  <2>2. Files(parts, Appended(row), k, v, key, Released(v, row), r)
    BY <1>16, <2>1, AppendedIs
  <2> QED BY <1>1, <1>6, <2>2
<1>11. Added(parts, q, id, last, day, e, r)
  <2>1. ASSUME NEW d \in Int, d # last, d # day PROVE FileOf(q, id, d) = FileOf(parts, id, d)
    <3>1. PICK k : k = <<id, d>> /\ k \in PartitionKeys /\ k # key /\ k # v.last
      BY <1>10, <2>1
    <3>2. /\ k \in DOMAIN q <=> k \in DOMAIN parts
          /\ k \in DOMAIN parts => q[k] = parts[k]
      BY <1>16, <3>1 DEF Files
    <3> QED BY <3>1, <3>2 DEF FileOf
  <2>2. ASSUME last # day
        PROVE  FileOf(q, id, last) = FileOf(parts, id, last) \o e /\ FileOf(q, id, day) = <<r>>
    <3>1. PICK k : k = <<id, last>> /\ k \in PartitionKeys /\ k # key /\ k = v.last
                   /\ k \in DOMAIN parts
      BY <1>2, <1>10, <2>2
    <3>2. k \in DOMAIN q /\ q[k] = parts[k] \o e
      BY <1>16, <3>1 DEF Files
    <3>3. key \in PartitionKeys /\ key \notin DOMAIN parts /\ key = <<id, day>>
      BY <1>4, <1>5, <1>10, <2>2
    <3>4. key \in DOMAIN q /\ q[key] = <<r>>
      BY <1>16, <3>3 DEF Files
    <3> QED BY <3>1, <3>2, <3>3, <3>4 DEF FileOf
  <2>3. ASSUME last = day PROVE FileOf(q, id, day) = (FileOf(parts, id, last) \o e) \o <<r>>
    <3>1. PICK k : k = <<id, last>> /\ k \in PartitionKeys /\ k = key /\ k = v.last
                   /\ k \in DOMAIN parts
      BY <1>2, <1>10, <2>3
    <3>2. k \in DOMAIN q /\ q[k] = (parts[k] \o e) \o <<r>>
      BY <1>16, <3>1 DEF Files
    <3> QED BY <2>3, <3>1, <3>2 DEF FileOf
  <2> QED BY <2>1, <2>2, <2>3 DEF Added
<1>12. last \in Days /\ FirstDay \in Int /\ FirstDay <= last
  <2>1. last \in Days
    BY <1>2, <1>4 DEF Filed, Converting
  <2> QED BY <2>1, FirstDayIsLeast
<1>13. ASSUME NEW d \in Int PROVE IsLog(FileOf(parts, id, d)) /\ (d > last => FileOf(parts, id, d) = <<>>)
  <2>1. IsLog(FileOf(parts, id, d))
    BY FilesAreLogs DEF Converting
  <2>2. d > last => FileOf(parts, id, d) = <<>>
    BY <1>10 DEF FileOf
  <2> QED BY <2>1, <2>2
<1>14. Extended(parts, q, id, last, day, e, r)
  BY <1>5, <1>8, <1>11, <1>12, <1>13 DEF Extended
<1> QED BY <1>1, <1>4, <1>6, <1>14

\* What it does to the log of the venue.
LEMMA LaterLog ==
  ASSUME NEW p, NEW q, NEW id, NEW last \in Int, NEW day \in Int, NEW e, NEW r,
         Extended(p, q, id, last, day, e, r), NEW g, Sums(g, q, id, day)
  PROVE  \E f : LogsTo(f, p, id, last, e, r, g[day])
BY LogGrows DEF Extended

LEMMA LaterRow ==
  ASSUME Keyed, Filed, Dated, pc = "reading", Tracked(parts, venues), NEW row \in Rows,
         row.venue \in DOMAIN venues, NEW v, v = venues[row.venue],
         row.ts >= v.lastTs, NEW u, NEW r, r = recordOf(row), NEW key,
         key = PartitionOf(row.venue, row.ts),
         u = advance(applyToBook(IF epochDue(v, row) THEN afterEpoch(v) ELSE v, r), r, key)
  PROVE  OnPace(Appended(row), row.venue, u) /\ v.last[2] <= key[2]
<1>1. PICK id, q : id = row.venue /\ q = Appended(row)
  OBVIOUS
<1>2. VenueOf(id, v) /\ v.seen = TRUE /\ OnPace(parts, id, v)
  BY <1>1 DEF Tracked
<1>3. v.lastTs \in Int /\ row.ts \in Int /\ r.ts = row.ts /\ ~r.epoch
  BY <1>2, ArchiveAssumption DEF VenueOf, recordOf, Snapshot
<1>6. PICK e : e = Released(v, row)
  OBVIOUS
<1>4. PICK last \in Int, day \in Int :
        v.last = <<id, last>> /\ key = <<id, day>> /\ Extended(parts, q, id, last, day, e, r)
  BY <1>1, <1>6, LaterFiles
<1>5. last <= day /\ IsLog(e)
  BY <1>4 DEF Extended
<1>7. /\ IsLog(epoch(v)) /\ (DOMAIN v.books = {} <=> Len(epoch(v)) = 0)
      /\ \A i \in 1..Len(epoch(v)) : epoch(v)[i].epoch /\ epoch(v)[i].type # Trade
  BY <1>2, EpochIs DEF VenueOf
<1>8. IsLog(e)
  BY <1>5
<1>13. DOMAIN v = VenueFields
  BY <1>2 DEF VenueOf
<1>14. ASSUME NEW g, Sums(g, q, id, day) PROVE Paced(g[day], u)
  <2>3. PICK f : Sums(f, parts, id, last) /\ IsLog(f[last]) /\ g[day] = (f[last] \o e) \o <<r>>
    <3>1. \E f : LogsTo(f, parts, id, last, e, r, g[day])
      BY <1>4, <1>14, LaterLog
    <3> QED BY <3>1, Zenon DEF LogsTo
  <2>4. PICK log, k : log = f[last] /\ k = g[day]
    OBVIOUS
  <2>5. Paced(log, v) /\ IsLog(log)
    BY <1>2, <1>4, <2>3, <2>4 DEF OnPace
  <2>6. Grown(log, e, r, k)
    BY <1>8, <2>3, <2>4, <2>5, GrownIs
  <2>7. v.since \in Nat
    BY <2>5 DEF Paced
  <2>8. CASE epochDue(v, row)
    <3>1. PICK x : x = afterEpoch(v)
      OBVIOUS
    <3>2. DOMAIN x = VenueFields /\ x.since = 0 /\ x.pending = FALSE /\ x.books = v.books
      BY <1>13, <3>1 DEF afterEpoch, VenueFields
    <3>3. u = advance(applyToBook(x, r), r, key)
      BY <2>8, <3>1
    <3>4. /\ Booked(x, u, r) /\ u.since = x.since + 1
          /\ u.pending <=> (x.pending \/ x.since + 1 >= EpochEvery)
      BY <1>3, <3>2, <3>3, AdvanceIs DEF Advanced
    <3>5. u.since = 1 /\ (u.pending <=> 1 >= EpochEvery)
      BY <3>2, <3>4
    <3>6. Marked(log, x)
      BY <2>5, <3>2 DEF Paced, Marked
    <3>7. e = epoch(v)
      BY <1>6, <2>8 DEF Released
    <3> QED BY <1>7, <2>4, <2>6, <3>2, <3>4, <3>5, <3>6, <3>7, PacedAnew
  <2>9. CASE ~epochDue(v, row)
    <3>1. u = advance(applyToBook(v, r), r, key)
      BY <2>9
    <3>2. /\ Booked(v, u, r) /\ u.since = v.since + 1
          /\ u.pending <=> (v.pending \/ v.since + 1 >= EpochEvery)
      <4>1. Advanced(v, u, r, key)
        BY <1>3, <1>13, <3>1, AdvanceIs, Zenon
      <4> QED BY <4>1, Zenon DEF Advanced
    <3>3. ~(v.pending /\ r.ts > v.lastTs)
      BY <1>2, <1>3, <2>9 DEF epochDue
    <3>4. Len(e) = 0
      BY <1>6, <2>9, OneLog DEF Released
    <3> QED BY <1>3, <1>8, <2>4, <2>5, <2>6, <3>2, <3>3, <3>4, PacedOn
  <2> QED BY <2>8, <2>9
<1>15. u.last = key
  <2>1. PICK x : x = IF epochDue(v, row) THEN afterEpoch(v) ELSE v
    OBVIOUS
  <2>2. DOMAIN x = VenueFields
    BY <1>13, <2>1 DEF afterEpoch, VenueFields
  <2>3. u = advance(applyToBook(x, r), r, key)
    BY <2>1
  <2>4. Advanced(x, u, r, key)
    BY <1>3, <2>2, <2>3, AdvanceIs, Zenon
  <2> QED BY <2>4, Zenon DEF Advanced
<1> QED BY <1>1, <1>4, <1>5, <1>14, <1>15 DEF OnPace

\* The first row of a venue begins its one file.
Begun(q, id, day, r) ==
  /\ FirstDay \in Int /\ FirstDay <= day
  /\ \A d \in Int : FileOf(q, id, d) = IF d = day THEN <<r>> ELSE <<>>

LEMMA FirstFile ==
  ASSUME Keyed, Filed, Dated, pc = "reading", Tracked(parts, venues), NEW row \in Rows,
         row.venue \notin DOMAIN venues, NEW r, r = recordOf(row), NEW key,
         key = PartitionOf(row.venue, row.ts)
  PROVE  \E day \in Int : key = <<row.venue, day>> /\ Begun(Appended(row), row.venue, day, r)
<1>1. PICK id, q, v : id = row.venue /\ q = Appended(row) /\ v = venue(row.venue)
  OBVIOUS
<1>2. row.ts \in Int /\ id \in Nat
  BY <1>1, ArchiveAssumption
<1>3. PICK day \in Int : day = floorDiv(row.ts, NanosPerDay) /\ key = <<id, day>>
  BY <1>1, <1>2, FloorDivFloors, ArchiveAssumption DEF PartitionOf
<1>5. ASSUME NEW d \in Int
      PROVE  /\ <<id, d>> \in PartitionKeys /\ <<id, d>> \notin DOMAIN parts
             /\ (d = day <=> <<id, d>> = key)
  BY <1>1, <1>2, <1>3 DEF PartitionKeys, Tracked, Latest
<1>6. ASSUME NEW d \in Int PROVE FileOf(q, id, d) = IF d = day THEN <<r>> ELSE <<>>
  <2>1. PICK k : k = <<id, d>> /\ k \in PartitionKeys /\ k \notin DOMAIN parts
                 /\ (d = day <=> k = key)
    BY <1>5
  <2>2. Files(parts, Appended(row), k, v, key, Released(v, row), r)
    BY <1>1, <2>1, AppendedIs
  <2>3. (k \in DOMAIN q <=> k = key) /\ (k = key => q[k] = <<r>>)
    BY <1>1, <2>1, <2>2 DEF Files
  <2> QED BY <2>1, <2>3 DEF FileOf
<1>10. FirstDay \in Int /\ FirstDay <= day
  <2>1. day \in Days
    BY <1>3 DEF Days, PartitionOf
  <2> QED BY <2>1, FirstDayIsLeast
<1> QED BY <1>1, <1>3, <1>6, <1>10 DEF Begun

LEMMA FirstLog ==
  ASSUME NEW q, NEW id, NEW day \in Int, NEW r, Begun(q, id, day, r), NEW g, Sums(g, q, id, day)
  PROVE  g[day] = <<r>>
<1>1. PICK one : one = <<r>> /\ IsLog(one)
  BY OneLog
<1>2. /\ FirstDay \in Int /\ FirstDay <= day /\ FileOf(q, id, day) = one
      /\ \A d \in Int : d # day => FileOf(q, id, d) = <<>>
  BY <1>1 DEF Begun
<1>3. g[day] = one
  BY <1>1, <1>2, LogBegins
<1> QED BY <1>1, <1>3

LEMMA FirstRow ==
  ASSUME Keyed, Filed, Dated, pc = "reading", Tracked(parts, venues), NEW row \in Rows,
         row.venue \notin DOMAIN venues, NEW u, NEW r, r = recordOf(row), NEW key,
         key = PartitionOf(row.venue, row.ts), NEW v, v = NewVenue,
         u = advance(applyToBook(v, r), r, key)
  PROVE  OnPace(Appended(row), row.venue, u)
<1>1. PICK id, q : id = row.venue /\ q = Appended(row)
  OBVIOUS
<1>2. ~r.epoch
  BY DEF recordOf, Snapshot
<1>3. PICK day \in Int : key = <<id, day>> /\ Begun(q, id, day, r)
  BY <1>1, FirstFile
<1>7. DOMAIN v = VenueFields /\ v.since = 0 /\ v.pending = FALSE /\ DOMAIN v.books = {}
  BY DEF NewVenue, VenueFields, Empty
<1>8. Advanced(v, u, r, key)
  BY <1>2, <1>7, AdvanceIs, Zenon
<1>9. Booked(v, u, r) /\ u.since = 1 /\ (u.pending <=> 1 >= EpochEvery) /\ u.last = key
  BY <1>7, <1>8 DEF Advanced
<1>11. ASSUME NEW g, Sums(g, q, id, day) PROVE Paced(g[day], u)
  <2>3. g[day] = <<r>>
    BY <1>3, <1>11, FirstLog
  <2>4. PICK none : none = <<>> /\ IsLog(none) /\ Len(none) = 0
    BY OneLog
  <2>5. IsLog(<<r>>) /\ (none \o none) \o <<r>> = <<r>>
    BY <2>4, OneLog, JoinNone
  <2>6. Grown(none, none, r, g[day])
    BY <2>3, <2>4, <2>5, GrownIs
  <2>7. 1..Len(none) = {}
    BY <2>4
  <2>8. Marked(none, v)
    BY <1>7, <2>4, <2>7 DEF Marked
  <2> QED BY <1>7, <1>9, <2>4, <2>6, <2>7, <2>8, PacedAnew
<1> QED BY <1>1, <1>3, <1>9, <1>11 DEF OnPace

\* The other venues keep their files.
LEMMA OtherFiles ==
  ASSUME Keyed, Filed, Dated, pc = "reading", Tracked(parts, venues), NEW row \in Rows,
         NEW id \in DOMAIN venues, id # row.venue
  PROVE  /\ \A d \in Int : FileOf(Appended(row), id, d) = FileOf(parts, id, d)
         /\ \A f : Sums(f, Appended(row), id, venues[id].last[2]) =>
                     Sums(f, parts, id, venues[id].last[2])
<1>1. PICK v, key, r : v = venue(row.venue) /\ key = PartitionOf(row.venue, row.ts)
                       /\ r = recordOf(row)
  OBVIOUS
<1>2. PICK q : q = Appended(row)
  OBVIOUS
<1>3. key[1] = row.venue
  BY <1>1 DEF PartitionOf
<1>4. v.last = <<row.venue, v.last[2]>> \/ Released(v, row) = <<>>
  BY <1>1, VenueKnown DEF VenueOf, PartitionOf, Released, epochDue
<1>5. ASSUME NEW k \in DOMAIN parts, k[1] = id PROVE k \in DOMAIN q /\ q[k] = parts[k]
  <2>1. k \in PartitionKeys /\ k # key
    BY <1>3, <1>5 DEF Keyed
  <2>2. Files(parts, Appended(row), k, v, key, Released(v, row), r)
    BY <1>1, <2>1, AppendedIs
  <2>3. k = v.last => parts[k] \o Released(v, row) = parts[k]
    <3>1. IsLog(parts[k])
      BY DEF Filed, Converting, OfDay, IsLog
    <3>2. k = v.last => Released(v, row) = <<>>
      BY <1>4, <1>5
    <3> QED BY <3>1, <3>2, JoinNone
  <2> QED BY <1>2, <2>1, <2>2, <2>3 DEF Files
<1>6. ASSUME NEW d \in Int PROVE FileOf(q, id, d) = FileOf(parts, id, d)
  <2>1. PICK k : k = <<id, d>>
    OBVIOUS
  <2>4. k[1] = id /\ k # key
    BY <1>3, <2>1
  <2>2. CASE k \in DOMAIN parts
    BY <1>5, <2>1, <2>2, <2>4 DEF FileOf
  <2>3. CASE k \notin DOMAIN parts
    <3>1. k \notin DOMAIN q
      BY <1>1, <1>2, <2>3, <2>4, AppendedKeys
    <3> QED BY <2>1, <2>3, <3>1 DEF FileOf
  <2> QED BY <2>2, <2>3
<1>7. PICK last \in Int : last = venues[id].last[2] /\ last \in Days
  BY DaysFinite DEF Tracked, Latest, Filed, Converting
<1>8. FirstDay \in Int
  BY <1>7, FirstDayIsLeast
<1>9. ASSUME NEW f, Sums(f, q, id, last) PROVE Sums(f, parts, id, last)
  BY <1>6, <1>7, <1>8, <1>9 DEF Sums
<1> QED BY <1>2, <1>6, <1>7, <1>9

LEMMA OtherVenues ==
  ASSUME Keyed, Filed, Dated, pc = "reading", Tracked(parts, venues), NEW row \in Rows,
         NEW id \in DOMAIN venues, id # row.venue
  PROVE  OnPace(Appended(row), id, venues[id])
BY OtherFiles DEF Tracked, OnPace

LEMMA RowTracked ==
  ASSUME Keyed, Filed, Dated, pc = "reading", Tracked(parts, venues), NEW row \in Rows,
         Admissible(row), NEW u, NEW vs, vs = With(venues, row.venue, u),
         u = advance(applyToBook(VenueBefore(row), recordOf(row)), recordOf(row),
                     PartitionOf(row.venue, row.ts))
  PROVE  Tracked(Appended(row), vs)
<1>1. PICK id, key, r, v : id = row.venue /\ key = PartitionOf(row.venue, row.ts)
                           /\ r = recordOf(row) /\ v = venue(row.venue)
  OBVIOUS
<1>2. VenueOf(id, u)
  BY <1>1, VenueAdvances
<1>3. /\ DOMAIN vs = DOMAIN venues \cup {id} /\ vs[id] = u
      /\ \A i \in DOMAIN venues : i # id => vs[i] = venues[i]
  BY <1>1 DEF With
<1>4. u.seen = TRUE /\ u.last = key
  <2>1. PICK x : x = VenueBefore(row)
    OBVIOUS
  <2>2. DOMAIN x = VenueFields
    BY <2>1, VenueKnown DEF VenueBefore, afterEpoch, VenueOf, VenueFields
  <2>3. ~r.epoch
    BY <1>1 DEF recordOf, Snapshot
  <2>4. u = advance(applyToBook(x, r), r, key)
    BY <1>1, <2>1
  <2>5. Advanced(x, u, r, key)
    BY <2>2, <2>3, <2>4, AdvanceIs, Zenon
  <2> QED BY <2>5, Zenon DEF Advanced
<1>5. OnPace(Appended(row), id, u) /\ (id \in DOMAIN venues => venues[id].last[2] <= key[2])
  <2>1. CASE id \in DOMAIN venues
    <3>1. v = venues[id] /\ v.seen = TRUE
      BY <1>1, <2>1 DEF venue, Tracked
    <3>2. row.ts >= v.lastTs
      BY <1>1, <3>1 DEF Admissible
    <3>3. u = advance(applyToBook(IF epochDue(v, row) THEN afterEpoch(v) ELSE v, r), r, key)
      BY <1>1, Zenon DEF VenueBefore
    <3> QED BY <1>1, <2>1, <3>1, <3>2, <3>3, LaterRow
  <2>2. CASE id \notin DOMAIN venues
    <3>1. v = NewVenue
      BY <1>1, <2>2 DEF venue
    <3>2. ~epochDue(v, row)
      BY <3>1 DEF epochDue, NewVenue
    <3>3. u = advance(applyToBook(v, r), r, key)
      BY <1>1, <3>2, Zenon DEF VenueBefore
    <3> QED BY <1>1, <2>2, <3>1, <3>3, FirstRow
  <2> QED BY <2>1, <2>2
<1>6. DOMAIN Appended(row) = DOMAIN parts \cup {key} /\ key[1] = id /\ key \in PartitionKeys
  BY <1>1, AppendedKeys, PartitionIsKey DEF PartitionOf
<1>7. Latest(Appended(row), vs)
  <2>1. ASSUME NEW i \in DOMAIN vs PROVE vs[i].last \in DOMAIN Appended(row)
    BY <1>3, <1>4, <1>6 DEF Tracked, Latest
  <2>2. ASSUME NEW k \in DOMAIN Appended(row)
        PROVE  k[1] \in DOMAIN vs /\ k[2] <= vs[k[1]].last[2]
    <3>1. CASE k = key
      BY <1>3, <1>4, <1>6, <3>1 DEF PartitionKeys
    <3>2. CASE k \in DOMAIN parts /\ k[1] # id
      BY <1>3, <3>2 DEF Tracked, Latest
    <3>3. CASE k \in DOMAIN parts /\ k[1] = id
      <4>1. k[2] <= venues[id].last[2] /\ id \in DOMAIN venues
        BY <3>3 DEF Tracked, Latest
      <4>2. venues[id].last[2] <= key[2]
        BY <1>5, <4>1
      <4>3. k[2] \in Int /\ key[2] \in Int /\ venues[id].last[2] \in Int
        BY <1>6, <3>3, <4>1 DEF Keyed, PartitionKeys, Tracked, Latest
      <4> QED BY <1>3, <1>4, <3>3, <4>1, <4>2, <4>3
    <3> QED BY <1>6, <3>1, <3>2, <3>3
  <2> QED BY <2>1, <2>2 DEF Latest
<1>8. ASSUME NEW i \in DOMAIN vs
      PROVE  VenueOf(i, vs[i]) /\ vs[i].seen = TRUE /\ OnPace(Appended(row), i, vs[i])
  <2>1. CASE i = id
    BY <1>2, <1>3, <1>4, <1>5, <2>1
  <2>2. CASE i # id
    <3>1. i \in DOMAIN venues /\ vs[i] = venues[i]
      BY <1>3, <2>2
    <3> QED BY <1>1, <2>2, <3>1, OtherVenues DEF Tracked
  <2> QED BY <2>1, <2>2
<1> QED BY <1>7, <1>8 DEF Tracked

LEMMA InitCadence == Init => Cadence
BY DEF Init, Cadence, Converting

LEMMA CadenceStep == Keyed /\ Filed /\ Dated /\ Cadence /\ [Next]_vars => Cadence'
<1> SUFFICES ASSUME Keyed, Filed, Dated, Cadence, [Next]_vars PROVE Cadence'
  OBVIOUS
<1>1. CASE WriteRow
  <2>1. PICK row \in Rows :
          LET key == PartitionOf(row.venue, row.ts) rec == recordOf(row) IN
          /\ ReadRow(row) /\ Admissible(row)
          /\ parts' = Appended(row)
          /\ venues' = With(venues, row.venue,
                            advance(applyToBook(VenueBefore(row), rec), rec, key))
    BY <1>1 DEF WriteRow
  <2>2. pc = "reading" /\ pc' = pc
    BY <1>1, <2>1 DEF WriteRow, ReadRow
  <2>3. Tracked(parts, venues)
    BY <2>2 DEF Cadence, Converting
  <2>4. PICK p, vs, u : /\ p = parts' /\ vs = venues' /\ p = Appended(row)
                        /\ vs = With(venues, row.venue, u)
                        /\ u = advance(applyToBook(VenueBefore(row), recordOf(row)), recordOf(row),
                                       PartitionOf(row.venue, row.ts))
    BY <2>1
  <2>5. Tracked(p, vs)
    BY <2>1, <2>2, <2>3, <2>4, RowTracked
  <2> QED BY <2>4, <2>5 DEF Cadence
<1>2. CASE Convert
  <2>1. parts' = Empty /\ venues' = Empty
    BY <1>2 DEF Convert
  <2> QED BY <2>1 DEF Cadence, Tracked, Latest, Empty
<1>3. CASE ~Converting'
  BY <1>3 DEF Cadence
<1>4. CASE Converting /\ UNCHANGED <<parts, venues>>
  <2>1. Tracked(parts, venues)
    BY <1>4 DEF Cadence
  <2> QED BY <1>4, <2>1 DEF Cadence
<1> QED
  BY <1>1, <1>2, <1>3, <1>4
  DEF Next, vars, RowRejected, RowRefused, ReadFails, EndOfSource, CloseFile, CloseFails,
      CreateHash, WriteArtifactHash, HashFails, Return, Abort, Aborted, Crash, Converting

\* What the state of a venue says of its log bounds the stretches of the log.
LEMMA PacedIsEven ==
  ASSUME NEW log, NEW v, Paced(log, v), Starts(log) # {}
  PROVE  LET n == (CHOOSE i \in Starts(log) : \A j \in Starts(log) : j <= i) + EpochEvery
         IN  n < Len(log) => log[n].ts = log[Len(log)].ts
<1>1. DOMAIN log = 1..Len(log)
  BY LogIs DEF Paced
<1>2. DOMAIN v.books # {}
  <2>1. SUFFICES ASSUME \A i \in 1..Len(log) : log[i].type = Trade PROVE FALSE
    BY DEF Paced
  <2>2. \A i \in 1..Len(log) : ~log[i].epoch
    BY <2>1 DEF Paced
  <2> QED BY <1>1, <2>1, <2>2 DEF Starts
<1>3. PICK m \in 0..Len(log) : LastStart(log, m) /\ Even(log, m)
  BY <1>2 DEF Paced
<1>4. Starts(log) \subseteq Int
  BY <1>1 DEF Starts
<1>5. PICK S : S = Starts(log)
  OBVIOUS
<1>6. PICK c : c = CHOOSE i \in S : \A j \in S : j <= i
  OBVIOUS
<1>7. m \in S /\ \A j \in S : j <= m
  BY <1>3, <1>5 DEF LastStart
<1>8. c \in S /\ \A j \in S : j <= c
  BY <1>6, <1>7
<1>9. c = m
  BY <1>4, <1>5, <1>7, <1>8
<1>10. c + EpochEvery < Len(log) => log[c + EpochEvery].ts = log[Len(log)].ts
  BY <1>3, <1>9 DEF Even
<1> QED BY <1>5, <1>6, <1>10

(***************************************************************************)
(* Once a venue has a book, more than EpochEvery of its records follow an  *)
(* epoch only while they repeat one timestamp, over any number of day      *)
(* files: the pending flag and the count of advance, the reset of          *)
(* writeEpoch and the times writeRow admits together bound every stretch   *)
(* that a seek has to replay.                                              *)
(***************************************************************************)
THEOREM EpochsKeepTheirCadence == Spec => []CadenceHolds
<1>1. ASSUME Keyed, Filed, Cadence PROVE CadenceHolds
  <2> SUFFICES ASSUME Converting, NEW v \in DOMAIN venues
               PROVE  LET log == Before(v, venues[v].last[2], Len(parts[venues[v].last]) + 1)
                          n   == (CHOOSE i \in Starts(log) : \A j \in Starts(log) : j <= i)
                                   + EpochEvery
                      IN  (Starts(log) # {} /\ n < Len(log)) => log[n].ts = log[Len(log)].ts
    BY Zenon DEF CadenceHolds, Starts
  <2>1. /\ VenueOf(v, venues[v]) /\ venues[v].seen = TRUE /\ OnPace(parts, v, venues[v])
        /\ venues[v].last \in DOMAIN parts
    BY <1>1 DEF Cadence, Tracked, Latest
  <2>2. PICK day \in Int : venues[v].last = <<v, day>> /\ day \in Days
    <3>1. venues[v].last[2] \in Days
      BY <1>1, <2>1 DEF Filed
    <3>2. PICK day \in Int : venues[v].last = <<v, day>>
      BY <2>1, FloorDivFloors, ArchiveAssumption DEF VenueOf, PartitionOf
    <3> QED BY <3>1, <3>2
  <2>3. IsLog(parts[<<v, day>>]) /\ <<v, day>> \in DOMAIN parts
    BY <1>1, <2>1, <2>2 DEF Filed, OfDay, IsLog
  <2>4. PICK f : Before(v, day, Len(parts[<<v, day>>]) + 1) = f[day] /\ Sums(f, parts, v, day)
    BY <2>2, <2>3, BeforeSums
  <2>5. PICK log : log = Before(v, venues[v].last[2], Len(parts[venues[v].last]) + 1)
    OBVIOUS
  <2>6. Paced(log, venues[v])
    BY <2>1, <2>2, <2>4, <2>5 DEF OnPace
  <2> QED BY <2>5, <2>6, PacedIsEven
<1> QED
  BY <1>1, ArchiveInvariant, InitFiled, FiledStep, InitCadence, CadenceStep, PTL
  DEF Spec, ArchiveInv

-----------------------------------------------------------------------------
(***************************************************************************)
(* A side of the book: search halves to the place of a price.              *)
(***************************************************************************)

\* The levels of a side, in strictly ascending price.
IsLevel(l) == l = [price |-> l.price, size |-> l.size]
Ladder(s) ==
  /\ IsLog(s)
  /\ \A i \in 1..Len(s) : IsLevel(s[i])
  /\ \A i \in 1..Len(s) : s[i].price \in Prices
  /\ \A i, j \in 1..Len(s) : i < j => s[i].price < s[j].price

\* One step of search, from the range r.
Halve(f, s, price, r) ==
  LET lo == r[1] hi == r[2] mid == (lo + hi) \div 2 IN
  IF lo >= hi THEN lo
  ELSE IF s[mid].price < price THEN f[<<mid + 1, hi>>] ELSE f[<<lo, mid>>]
Halves(f, s, price) ==
  f = [r \in (1..Len(s) + 1) \X (1..Len(s) + 1) |-> Halve(f, s, price, r)]

LEMMA SearchHalves ==
  ASSUME NEW s, NEW price, NEW g, Halves(g, s, price)
  PROVE  \E f : search(s, price) = f[<<1, Len(s) + 1>>] /\ Halves(f, s, price)
<1> DEFINE Rhs(f) == [r \in (1..Len(s) + 1) \X (1..Len(s) + 1) |-> Halve(f, s, price, r)]
           at == CHOOSE f : f = Rhs(f)
<1>1. search(s, price) = at[<<1, Len(s) + 1>>]
  BY Zenon DEF search, Halve
<1>2. at = Rhs(at)
  <2>1. \E h : h = Rhs(h)
    BY Zenon DEF Halves
  <2> HIDE DEF Rhs
  <2> QED BY <2>1, Zenon
<1> QED BY <1>1, <1>2, Zenon DEF Halves

\* p is the first place whose level is not below the price.
Place(s, price, p) ==
  /\ p \in 1..Len(s) + 1
  /\ \A i \in 1..Len(s) : s[i].price < price <=> i < p

LEMMA PlaceExists ==
  ASSUME NEW s, Ladder(s), NEW price \in Int, Prices \subseteq Int
  PROVE  \E p : Place(s, price, p)
<1>1. PICK n \in Nat : n = Len(s)
  BY LogIs DEF Ladder
<1> DEFINE T == {i \in 1..n + 1 : i = n + 1 \/ ~(s[i].price < price)}
<1>2. PICK p \in T : \A y \in T : p <= y
  <2>1. T \in SUBSET Nat /\ n + 1 \in T
    OBVIOUS
  <2> HIDE DEF T
  <2> QED BY <2>1, LeastNumber
<1>3. p \in 1..n + 1 /\ (p = n + 1 \/ ~(s[p].price < price))
  BY <1>2
<1>4. ASSUME NEW i \in 1..n, i < p PROVE s[i].price < price
  BY <1>2, <1>3, <1>4
<1>5. ASSUME NEW i \in 1..n, ~(i < p) PROVE ~(s[i].price < price)
  <2>1. p \in 1..n /\ ~(s[p].price < price) /\ (p = i \/ p < i)
    BY <1>3, <1>5
  <2>2. s[p].price \in Int /\ s[i].price \in Int /\ (p < i => s[p].price < s[i].price)
    BY <1>1, <2>1 DEF Ladder
  <2> QED BY <2>1, <2>2
<1> QED BY <1>1, <1>3, <1>4, <1>5 DEF Place

\* The place as seen from a range: the nearest the range allows.
Clamp(p, lo, hi) == IF lo >= hi THEN lo ELSE IF p < lo THEN lo ELSE IF p > hi THEN hi ELSE p

\* The middle of a range.
LEMMA Middle ==
  ASSUME NEW lo \in Nat, NEW hi \in Nat, lo < hi
  PROVE  (lo + hi) \div 2 \in Nat /\ lo <= (lo + hi) \div 2 /\ (lo + hi) \div 2 < hi
OBVIOUS

Halfway(s, price, p, lo, hi, mid) ==
  /\ mid \in lo..hi - 1
  /\ s[mid].price < price => Clamp(p, lo, hi) = Clamp(p, mid + 1, hi)
  /\ ~(s[mid].price < price) => Clamp(p, lo, hi) = Clamp(p, lo, mid)

LEMMA ClampHalves ==
  ASSUME NEW s, NEW price \in Int, NEW n \in Nat, n = Len(s), NEW p, Place(s, price, p),
         NEW lo \in 1..n + 1, NEW hi \in 1..n + 1, lo < hi
  PROVE  Halfway(s, price, p, lo, hi, (lo + hi) \div 2)
<1> DEFINE mid == (lo + hi) \div 2
<1>1. mid \in lo..hi - 1 /\ mid \in 1..n
  BY Middle
<1>2. p \in 1..n + 1 /\ (s[mid].price < price <=> mid < p)
  BY <1>1 DEF Place
<1> HIDE DEF mid
<1> QED BY <1>1, <1>2 DEF Clamp, Halfway, mid

LEMMA SearchFinds ==
  ASSUME NEW s, Ladder(s), NEW price \in Int, Prices \subseteq Int, NEW p, Place(s, price, p)
  PROVE  search(s, price) = p
<1>1. PICK n \in Nat : n = Len(s)
  BY LogIs DEF Ladder
<1> DEFINE D == (1..n + 1) \X (1..n + 1)
           g == [r \in D |-> Clamp(p, r[1], r[2])]
<1>2. p \in 1..n + 1
  BY <1>1 DEF Place
<1>3. ASSUME NEW f, NEW lo \in 1..n + 1, NEW hi \in 1..n + 1,
             lo < hi => \A m \in lo..hi - 1 :
                          /\ f[<<m + 1, hi>>] = Clamp(p, m + 1, hi)
                          /\ f[<<lo, m>>] = Clamp(p, lo, m)
      PROVE  Halve(f, s, price, <<lo, hi>>) = Clamp(p, lo, hi)
  <2>1. CASE lo >= hi
    BY <2>1 DEF Halve, Clamp
  <2>2. CASE lo < hi
    <3>1. PICK mid : mid = (lo + hi) \div 2
      OBVIOUS
    <3>2. /\ mid \in lo..hi - 1
          /\ s[mid].price < price => Clamp(p, lo, hi) = Clamp(p, mid + 1, hi)
          /\ ~(s[mid].price < price) => Clamp(p, lo, hi) = Clamp(p, lo, mid)
      <4>1. Halfway(s, price, p, lo, hi, mid)
        BY <1>1, <2>2, <3>1, ClampHalves
      <4> QED BY <4>1 DEF Halfway
    <3>3. Halve(f, s, price, <<lo, hi>>) =
            IF s[mid].price < price THEN f[<<mid + 1, hi>>] ELSE f[<<lo, mid>>]
      BY <2>2, <3>1 DEF Halve
    <3> QED BY <1>3, <2>2, <3>2, <3>3
  <2> QED BY <2>1, <2>2
<1>4. Halves(g, s, price)
  <2>1. ASSUME NEW r \in D PROVE g[r] = Halve(g, s, price, r)
    <3>1. PICK lo \in 1..n + 1, hi \in 1..n + 1 : r = <<lo, hi>>
      OBVIOUS
    <3>2. \A m \in lo..hi - 1 : <<m + 1, hi>> \in D /\ <<lo, m>> \in D
      OBVIOUS
    <3>3. \A m \in lo..hi - 1 : /\ g[<<m + 1, hi>>] = Clamp(p, m + 1, hi)
                                /\ g[<<lo, m>>] = Clamp(p, lo, m)
      BY <3>2
    <3>4. g[r] = Clamp(p, lo, hi)
      BY <3>1
    <3> HIDE DEF g
    <3> QED BY <1>3, <3>1, <3>3, <3>4
  <2>2. g = [r \in D |-> g[r]]
    OBVIOUS
  <2> HIDE DEF g
  <2> QED BY <1>1, <2>1, <2>2 DEF Halves
<1>5. PICK f : search(s, price) = f[<<1, Len(s) + 1>>] /\ Halves(f, s, price)
  <2> HIDE DEF g
  <2> QED BY <1>4, SearchHalves
<1>6. \A r \in D : f[r] = Halve(f, s, price, r)
  BY <1>1, <1>5, Zenon DEF Halves
<1> DEFINE T == {d \in Nat : \A lo, hi \in 1..n + 1 : hi - lo <= d => f[<<lo, hi>>] = Clamp(p, lo, hi)}
<1>7. 0 \in T
  <2> SUFFICES ASSUME NEW lo \in 1..n + 1, NEW hi \in 1..n + 1, hi - lo <= 0
               PROVE  f[<<lo, hi>>] = Clamp(p, lo, hi)
    OBVIOUS
  <2>1. ~(lo < hi)
    OBVIOUS
  <2>2. <<lo, hi>> \in D
    OBVIOUS
  <2> QED BY <1>3, <1>6, <2>1, <2>2
<1>8. ASSUME NEW d \in 0 + 1..n, d - 1 \in T PROVE d \in T
  <2> SUFFICES ASSUME NEW lo \in 1..n + 1, NEW hi \in 1..n + 1, hi - lo <= d
               PROVE  f[<<lo, hi>>] = Clamp(p, lo, hi)
    OBVIOUS
  <2>1. \A a, b \in 1..n + 1 : b - a <= d - 1 => f[<<a, b>>] = Clamp(p, a, b)
    BY <1>8
  <2>2. ASSUME NEW m \in lo..hi - 1
        PROVE  /\ f[<<m + 1, hi>>] = Clamp(p, m + 1, hi)
               /\ f[<<lo, m>>] = Clamp(p, lo, m)
    <3>1. m + 1 \in 1..n + 1 /\ m \in 1..n + 1 /\ hi - (m + 1) <= d - 1 /\ m - lo <= d - 1
      OBVIOUS
    <3> QED BY <2>1, <3>1
  <2>3. <<lo, hi>> \in D
    OBVIOUS
  <2> QED BY <1>3, <1>6, <2>2, <2>3
<1>9. \A d \in 0..n : d \in T
  <2> HIDE DEF T
  <2> QED BY <1>7, <1>8, DayInduction
<1>10. f[<<1, n + 1>>] = Clamp(p, 1, n + 1)
  <2>1. n \in T
    BY <1>9
  <2>2. (n + 1) - 1 <= n /\ 1 \in 1..n + 1 /\ n + 1 \in 1..n + 1
    OBVIOUS
  <2> QED BY <2>1, <2>2
<1>11. Clamp(p, 1, n + 1) = p
  BY <1>2 DEF Clamp
<1> QED BY <1>1, <1>5, <1>10, <1>11

-----------------------------------------------------------------------------
(* What upsert does to a side, level by level. *)

\* t is s without its p-th level, and with one more there.
Removed(s, p, t) ==
  /\ IsLog(t) /\ Len(t) = Len(s) - 1
  /\ \A i \in 1..Len(t) : t[i] = IF i < p THEN s[i] ELSE s[i + 1]
Inserted(s, p, l, t) ==
  /\ IsLog(t) /\ Len(t) = Len(s) + 1
  /\ \A i \in 1..Len(t) : t[i] = IF i < p THEN s[i] ELSE IF i = p THEN l ELSE s[i - 1]
Replaced(s, p, l, t) ==
  /\ IsLog(t) /\ Len(t) = Len(s)
  /\ \A i \in 1..Len(t) : t[i] = IF i = p THEN l ELSE s[i]

\* A part of a log.
Part(s, a, b, t) ==
  /\ IsLog(t) /\ Len(t) = IF a <= b THEN b - a + 1 ELSE 0
  /\ \A i \in 1..Len(t) : t[i] = s[a + i - 1]

LEMMA PartIs ==
  ASSUME NEW s, IsLog(s), NEW a \in Nat, NEW b \in Nat, 1 <= a, b <= Len(s)
  PROVE  Part(s, a, b, SubSeq(s, a, b))
<1>1. PICK n, S : n \in Nat /\ n = Len(s) /\ S = ToSet(s) /\ s \in Seq(S)
  BY LogIs DEF IsLog
<1>2. PICK t : t = SubSeq(s, a, b)
  OBVIOUS
<1>3. t \in Seq(S)
  BY <1>1, <1>2
<1>4. Len(t) = IF a <= b THEN b - a + 1 ELSE 0
  BY <1>1, <1>2
<1>5. \A i \in 1..Len(t) : t[i] = s[a + i - 1]
  BY <1>1, <1>2, <1>4
<1>6. IsLog(t)
  BY <1>3, SeqOfItems DEF IsLog
<1> QED BY <1>2, <1>4, <1>5, <1>6 DEF Part

LEMMA RemoveIs ==
  ASSUME NEW s, IsLog(s), NEW p \in 1..Len(s)
  PROVE  Removed(s, p, RemoveAt(s, p))
<1>1. PICK n \in Nat : n = Len(s)
  BY LogIs
<1>2. PICK a, b, t : a = SubSeq(s, 1, p - 1) /\ b = SubSeq(s, p + 1, n) /\ t = a \o b
  OBVIOUS
<1>3. t = RemoveAt(s, p)
  BY <1>1, <1>2 DEF RemoveAt
<1>4. Part(s, 1, p - 1, a) /\ Part(s, p + 1, n, b)
  <2>1. 1 \in Nat /\ p - 1 \in Nat /\ 1 <= 1 /\ p - 1 <= n /\ p + 1 \in Nat /\ 1 <= p + 1 /\ n <= n
    BY <1>1
  <2> QED BY <1>1, <1>2, <2>1, PartIs
<1>5. Joined(a, b, t)
  BY <1>2, <1>4, JoinIs DEF Part
<1>6. Len(a) = p - 1 /\ Len(b) = n - p /\ Len(t) = n - 1
  <2>1. Len(a) = IF 1 <= p - 1 THEN p - 1 - 1 + 1 ELSE 0
    BY <1>4 DEF Part
  <2>2. Len(b) = IF p + 1 <= n THEN n - (p + 1) + 1 ELSE 0
    BY <1>4 DEF Part
  <2>3. Len(t) = Len(a) + Len(b)
    BY <1>5 DEF Joined
  <2>4. Len(a) = p - 1
    BY <1>1, <2>1
  <2>5. Len(b) = n - p
    BY <1>1, <2>2
  <2> QED BY <1>1, <2>3, <2>4, <2>5
<1>7. ASSUME NEW i \in 1..n - 1 PROVE t[i] = IF i < p THEN s[i] ELSE s[i + 1]
  <2>1. CASE i < p
    <3>1. i \in 1..Len(a) /\ 1 + i - 1 = i
      BY <1>1, <1>6, <2>1
    <3>2. t[i] = a[i] /\ a[i] = s[1 + i - 1]
      BY <1>4, <1>5, <3>1 DEF Joined, Part
    <3> QED BY <2>1, <3>1, <3>2
  <2>2. CASE ~(i < p)
    <3>1. PICK j \in 1..Len(b) : i = Len(a) + j /\ (p + 1) + j - 1 = i + 1
      <4>1. i - (p - 1) \in 1..n - p /\ i = (p - 1) + (i - (p - 1)) /\ (p + 1) + (i - (p - 1)) - 1 = i + 1
        BY <1>1, <2>2
      <4> QED BY <1>6, <4>1
    <3>2. t[i] = b[j] /\ b[j] = s[(p + 1) + j - 1]
      BY <1>4, <1>5, <3>1 DEF Joined, Part
    <3> QED BY <2>2, <3>1, <3>2
  <2> QED BY <2>1, <2>2
<1> QED BY <1>1, <1>3, <1>5, <1>6, <1>7 DEF Removed, Joined

LEMMA InsertIs ==
  ASSUME NEW s, IsLog(s), NEW p \in 1..Len(s) + 1, NEW l
  PROVE  Inserted(s, p, l, InsertAt(s, p, l))
<1>1. PICK n \in Nat : n = Len(s)
  BY LogIs
<1>2. PICK a, b, o, c, t : /\ a = SubSeq(s, 1, p - 1) /\ b = SubSeq(s, p, n)
                           /\ o = <<l>> /\ c = a \o o /\ t = c \o b
  OBVIOUS
<1>3. t = InsertAt(s, p, l)
  BY <1>1, <1>2, Zenon DEF InsertAt
<1>4. Part(s, 1, p - 1, a) /\ Part(s, p, n, b)
  <2>1. 1 \in Nat /\ p - 1 \in Nat /\ 1 <= 1 /\ p - 1 <= n /\ p \in Nat /\ 1 <= p /\ n <= n
    BY <1>1
  <2> QED BY <1>1, <1>2, <2>1, PartIs
<1>5. IsLog(o) /\ Len(o) = 1 /\ o[1] = l
  BY <1>2, OneLog
<1>6. Joined(a, o, c)
  BY <1>2, <1>4, <1>5, JoinIs DEF Part
<1>7. Joined(c, b, t)
  BY <1>2, <1>4, <1>6, JoinIs DEF Part, Joined
<1>8. Len(a) = p - 1 /\ Len(b) = n - p + 1 /\ Len(c) = p /\ Len(t) = n + 1
  <2>1. Len(a) = IF 1 <= p - 1 THEN p - 1 - 1 + 1 ELSE 0
    BY <1>4 DEF Part
  <2>2. Len(b) = IF p <= n THEN n - p + 1 ELSE 0
    BY <1>4 DEF Part
  <2>3. Len(c) = Len(a) + Len(o) /\ Len(t) = Len(c) + Len(b)
    BY <1>6, <1>7 DEF Joined
  <2>4. Len(a) = p - 1
    BY <1>1, <2>1
  <2>5. Len(b) = n - p + 1
    BY <1>1, <2>2
  <2> QED BY <1>1, <1>5, <2>3, <2>4, <2>5
<1>9. ASSUME NEW i \in 1..n + 1 PROVE t[i] = IF i < p THEN s[i] ELSE IF i = p THEN l ELSE s[i - 1]
  <2>1. CASE i < p
    <3>1. i \in 1..Len(a) /\ 1 + i - 1 = i /\ i \in 1..Len(c)
      BY <1>1, <1>8, <2>1
    <3>2. t[i] = c[i] /\ c[i] = a[i] /\ a[i] = s[1 + i - 1]
      BY <1>4, <1>6, <1>7, <3>1 DEF Joined, Part
    <3> QED BY <2>1, <3>1, <3>2
  <2>2. CASE i = p
    <3>1. i \in 1..Len(c) /\ i = Len(a) + 1 /\ 1 \in 1..Len(o)
      BY <1>1, <1>5, <1>8, <2>2
    <3>2. t[i] = c[i] /\ c[i] = o[1]
      BY <1>6, <1>7, <3>1 DEF Joined
    <3> QED BY <1>5, <2>2, <3>1, <3>2
  <2>3. CASE i > p
    <3>1. PICK j \in 1..Len(b) : i = Len(c) + j /\ p + j - 1 = i - 1
      <4>1. i - p \in 1..n - p + 1 /\ i = p + (i - p) /\ p + (i - p) - 1 = i - 1
        BY <1>1, <2>3
      <4> QED BY <1>8, <4>1
    <3>2. t[i] = b[j] /\ b[j] = s[p + j - 1]
      BY <1>4, <1>7, <3>1 DEF Joined, Part
    <3> QED BY <2>3, <3>1, <3>2
  <2> QED BY <1>1, <2>1, <2>2, <2>3
<1> QED BY <1>1, <1>3, <1>7, <1>8, <1>9 DEF Inserted, Joined

LEMMA ReplaceIs ==
  ASSUME NEW s, IsLog(s), NEW p \in 1..Len(s), NEW l
  PROVE  Replaced(s, p, l, ReplaceAt(s, p, l))
<1>1. PICK n \in Nat : n = Len(s) /\ DOMAIN s = 1..n
  BY LogIs
<1>2. PICK t : t = ReplaceAt(s, p, l)
  OBVIOUS
<1>3. DOMAIN t = 1..n /\ t = [i \in 1..n |-> t[i]]
      /\ \A i \in 1..n : t[i] = IF i = p THEN l ELSE s[i]
  BY <1>1, <1>2 DEF ReplaceAt
<1>4. t \in Seq(ToSet(t)) /\ Len(t) = n
  <2>1. \A i \in 1..n : t[i] \in ToSet(t)
    BY <1>3 DEF ToSet
  <2> QED BY <1>3, <2>1
<1> QED BY <1>1, <1>2, <1>3, <1>4 DEF Replaced, IsLog

\* The level's price has the level's size in t, and nothing else changed.
Upserted(s, level, t) ==
  /\ Ladder(t)
  /\ \A l : l \in Range(t) <=> \/ l \in Range(s) /\ l.price # level.price
                               \/ level.size # 0 /\ l = level

LEMMA LadderRange ==
  ASSUME NEW s, Ladder(s), NEW l
  PROVE  l \in Range(s) <=> \E i \in 1..Len(s) : s[i] = l
BY LogIs DEF Ladder, Range

\* The place of the price, and what is above and below it.
LEMMA LadderAt ==
  ASSUME NEW s, Ladder(s), NEW price \in Int, Prices \subseteq Int, NEW p, Place(s, price, p)
  PROVE  /\ Found(s, price) <=> p <= Len(s) /\ s[p].price = price
         /\ \A i \in 1..Len(s) : i < p => s[i].price < price
         /\ \A i \in 1..Len(s) : i > p => s[i].price > price
         /\ \A i \in 1..Len(s) : s[i].price = price => i = p
<1>1. PICK n \in Nat : n = Len(s)
  BY LogIs DEF Ladder
<1>2. p \in 1..n + 1 /\ \A i \in 1..n : s[i].price < price <=> i < p
  BY <1>1 DEF Place
<1>3. Found(s, price) <=> p <= Len(s) /\ s[p].price = price
  BY SearchFinds DEF Found
<1>4. ASSUME NEW i \in 1..n, i > p PROVE s[i].price > price
  <2>1. p \in 1..n /\ p < i
    BY <1>2, <1>4
  <2>2. s[p].price \in Int /\ s[i].price \in Int /\ s[p].price < s[i].price
    BY <1>1, <2>1 DEF Ladder
  <2>3. ~(s[p].price < price)
    BY <1>2, <2>1
  <2> QED BY <2>2, <2>3
<1>5. ASSUME NEW i \in 1..n, s[i].price = price PROVE i = p
  <2>1. ~(s[i].price < price) /\ ~(s[i].price > price)
    BY <1>5
  <2>2. ~(i < p) /\ ~(i > p)
    BY <1>2, <1>4, <2>1
  <2> QED BY <1>2, <2>2
<1> QED BY <1>1, <1>2, <1>3, <1>4, <1>5

LEMMA UpsertRemoves ==
  ASSUME NEW s, Ladder(s), NEW level, IsLevel(level), level.price \in Prices, Prices \subseteq Int,
         level.size = 0, Found(s, level.price)
  PROVE  Upserted(s, level, upsert(s, level))
<1>1. PICK price \in Int : price = level.price
  OBVIOUS
<1>2. PICK p : Place(s, price, p)
  BY PlaceExists
<1>3. PICK n \in Nat : n = Len(s)
  BY LogIs DEF Ladder
<1>4. search(s, price) = p
  BY <1>2, SearchFinds
<1>5. PICK t : t = upsert(s, level)
  OBVIOUS
<1>6. p \in 1..n /\ s[p].price = price /\ \A i \in 1..n : s[i].price = price => i = p
  <2>1. p \in 1..n + 1
    BY <1>2, <1>3 DEF Place
  <2> QED BY <1>1, <1>2, <1>3, <2>1, LadderAt
<1>7. t = RemoveAt(s, p)
  BY <1>1, <1>4, <1>5 DEF upsert
<1>8. Removed(s, p, t)
  BY <1>3, <1>6, <1>7, RemoveIs DEF Ladder
<1>9. IsLog(t) /\ Len(t) = n - 1 /\ \A i \in 1..n - 1 : t[i] = IF i < p THEN s[i] ELSE s[i + 1]
  BY <1>3, <1>8 DEF Removed
<1>10. \A i \in 1..n - 1 : i \in 1..n /\ i + 1 \in 1..n
  OBVIOUS
<1>11. /\ \A i \in 1..n : IsLevel(s[i]) /\ s[i].price \in Prices
       /\ \A i, j \in 1..n : i < j => s[i].price < s[j].price
  BY <1>3 DEF Ladder
<1>12. Ladder(t)
  <2>1. \A i \in 1..n - 1 : IsLevel(t[i]) /\ t[i].price \in Prices
    BY <1>9, <1>10, <1>11
  <2>2. ASSUME NEW i \in 1..n - 1, NEW j \in 1..n - 1, i < j PROVE t[i].price < t[j].price
    <3>1. PICK a \in 1..n : t[i] = s[a] /\ (a = IF i < p THEN i ELSE i + 1)
      BY <1>9, <1>10
    <3>2. PICK b \in 1..n : t[j] = s[b] /\ (b = IF j < p THEN j ELSE j + 1)
      BY <1>9, <1>10
    <3>3. a < b
      BY <1>6, <2>2, <3>1, <3>2
    <3> QED BY <1>11, <3>1, <3>2, <3>3
  <2> QED BY <1>9, <2>1, <2>2 DEF Ladder
<1>13. ASSUME NEW l PROVE l \in Range(t) <=> l \in Range(s) /\ l.price # price
  <2>1. ASSUME NEW i \in 1..n - 1, t[i] = l PROVE l \in Range(s) /\ l.price # price
    <3>1. PICK a \in 1..n : t[i] = s[a] /\ (a = IF i < p THEN i ELSE i + 1)
      BY <1>9, <1>10
    <3>2. a # p
      BY <1>6, <3>1
    <3> QED BY <1>3, <1>6, <2>1, <3>1, <3>2, LadderRange
  <2>2. ASSUME NEW a \in 1..n, s[a] = l, l.price # price PROVE \E i \in 1..n - 1 : t[i] = l
    <3>1. a # p
      BY <1>6, <2>2
    <3>2. CASE a < p
      <4>1. a \in 1..n - 1
        BY <1>6, <3>2
      <4> QED BY <1>9, <2>2, <3>2, <4>1
    <3>3. CASE a > p
      <4>1. a - 1 \in 1..n - 1 /\ ~(a - 1 < p) /\ (a - 1) + 1 = a
        BY <1>6, <3>3
      <4>2. t[a - 1] = s[(a - 1) + 1]
        BY <1>9, <4>1
      <4> QED BY <2>2, <4>1, <4>2
    <3> QED BY <1>6, <3>1, <3>2, <3>3
  <2>3. l \in Range(t) <=> \E i \in 1..n - 1 : t[i] = l
    BY <1>9, <1>12, LadderRange
  <2>4. l \in Range(s) <=> \E i \in 1..n : s[i] = l
    BY <1>3, LadderRange
  <2> QED BY <2>1, <2>2, <2>3, <2>4
<1> QED BY <1>1, <1>5, <1>12, <1>13 DEF Upserted

LEMMA UpsertReplaces ==
  ASSUME NEW s, Ladder(s), NEW level, IsLevel(level), level.price \in Prices, Prices \subseteq Int,
         level.size # 0, Found(s, level.price)
  PROVE  Upserted(s, level, upsert(s, level))
<1>1. PICK price \in Int : price = level.price
  OBVIOUS
<1>2. PICK p : Place(s, price, p)
  BY PlaceExists
<1>3. PICK n \in Nat : n = Len(s)
  BY LogIs DEF Ladder
<1>4. search(s, price) = p
  BY <1>2, SearchFinds
<1>5. PICK t : t = upsert(s, level)
  OBVIOUS
<1>6. p \in 1..n /\ s[p].price = price /\ \A i \in 1..n : s[i].price = price => i = p
  <2>1. p \in 1..n + 1
    BY <1>2, <1>3 DEF Place
  <2> QED BY <1>1, <1>2, <1>3, <2>1, LadderAt
<1>7. t = ReplaceAt(s, p, level)
  BY <1>1, <1>4, <1>5 DEF upsert
<1>8. Replaced(s, p, level, t)
  BY <1>3, <1>6, <1>7, ReplaceIs DEF Ladder
<1>9. IsLog(t) /\ Len(t) = n /\ \A i \in 1..n : t[i] = IF i = p THEN level ELSE s[i]
  BY <1>3, <1>8 DEF Replaced
<1>10. \A i \in 1..n : t[i].price = s[i].price
  BY <1>1, <1>6, <1>9
<1>11. Ladder(t)
  BY <1>3, <1>9, <1>10 DEF Ladder
<1>12. ASSUME NEW l PROVE l \in Range(t) <=> (l \in Range(s) /\ l.price # price) \/ l = level
  <2>1. l \in Range(t) <=> \E i \in 1..n : t[i] = l
    BY <1>9, <1>11, LadderRange
  <2>2. l \in Range(s) <=> \E i \in 1..n : s[i] = l
    BY <1>3, LadderRange
  <2> QED BY <1>6, <1>9, <2>1, <2>2
<1> QED BY <1>1, <1>5, <1>11, <1>12 DEF Upserted

LEMMA UpsertInserts ==
  ASSUME NEW s, Ladder(s), NEW level, IsLevel(level), level.price \in Prices, Prices \subseteq Int,
         level.size # 0, ~Found(s, level.price)
  PROVE  Upserted(s, level, upsert(s, level))
<1>1. PICK price \in Int : price = level.price
  OBVIOUS
<1>2. PICK p : Place(s, price, p)
  BY PlaceExists
<1>3. PICK n \in Nat : n = Len(s)
  BY LogIs DEF Ladder
<1>4. search(s, price) = p
  BY <1>2, SearchFinds
<1>5. PICK t : t = upsert(s, level)
  OBVIOUS
<1>6. /\ p \in 1..n + 1
      /\ \A i \in 1..n : i < p => s[i].price < price
      /\ \A i \in 1..n : ~(i < p) => s[i].price > price
      /\ \A i \in 1..n : s[i].price # price
  <2>1. p \in 1..n + 1
    BY <1>2, <1>3 DEF Place
  <2>2. ~(p <= n /\ s[p].price = price)
    BY <1>1, <1>2, <1>3, LadderAt
  <2>3. /\ \A i \in 1..n : i < p => s[i].price < price
        /\ \A i \in 1..n : i > p => s[i].price > price
        /\ \A i \in 1..n : s[i].price = price => i = p
    BY <1>2, <1>3, LadderAt
  <2>4. \A i \in 1..n : s[i].price # price
    BY <2>1, <2>2, <2>3
  <2>5. ASSUME NEW i \in 1..n, ~(i < p) PROVE s[i].price > price
    <3>1. CASE i > p
      BY <2>3, <3>1
    <3>2. CASE i = p
      <4>1. ~(s[i].price < price) /\ s[i].price # price /\ s[i].price \in Int
        BY <1>2, <1>3, <2>4, <2>5 DEF Place, Ladder
      <4> QED BY <4>1
    <3> QED BY <2>1, <2>5, <3>1, <3>2
  <2> QED BY <2>1, <2>3, <2>4, <2>5
<1>7. t = InsertAt(s, p, level)
  BY <1>1, <1>4, <1>5 DEF upsert
<1>8. Inserted(s, p, level, t)
  BY <1>3, <1>6, <1>7, InsertIs DEF Ladder
<1>9. IsLog(t) /\ Len(t) = n + 1
      /\ \A i \in 1..n + 1 : t[i] = IF i < p THEN s[i] ELSE IF i = p THEN level ELSE s[i - 1]
  BY <1>3, <1>8 DEF Inserted
<1>10. /\ \A i \in 1..n : IsLevel(s[i]) /\ s[i].price \in Prices
       /\ \A i, j \in 1..n : i < j => s[i].price < s[j].price
  BY <1>3 DEF Ladder
<1>11. ASSUME NEW i \in 1..n + 1
       PROVE  \/ i < p /\ i \in 1..n /\ t[i] = s[i]
              \/ i = p /\ t[i] = level
              \/ i > p /\ i - 1 \in 1..n /\ ~(i - 1 < p) /\ t[i] = s[i - 1]
  BY <1>6, <1>9
<1>12. Ladder(t)
  <2>1. \A i \in 1..n + 1 : IsLevel(t[i]) /\ t[i].price \in Prices
    BY <1>1, <1>10, <1>11
  <2>2. ASSUME NEW i \in 1..n + 1, NEW j \in 1..n + 1, i < j PROVE t[i].price < t[j].price
    <3>1. CASE i = p
      BY <1>1, <1>6, <1>11, <2>2, <3>1
    <3>2. CASE j = p
      BY <1>1, <1>6, <1>11, <2>2, <3>2
    <3>3. CASE i # p /\ j # p
      <4>1. PICK a \in 1..n : t[i] = s[a] /\ (a = IF i < p THEN i ELSE i - 1)
        BY <1>6, <1>11, <3>3
      <4>2. PICK b \in 1..n : t[j] = s[b] /\ (b = IF j < p THEN j ELSE j - 1)
        BY <1>6, <1>11, <3>3
      <4>3. a < b
        BY <1>6, <2>2, <3>3, <4>1, <4>2
      <4> QED BY <1>10, <4>1, <4>2, <4>3
    <3> QED BY <3>1, <3>2, <3>3
  <2> QED BY <1>9, <2>1, <2>2 DEF Ladder
<1>13. ASSUME NEW l PROVE l \in Range(t) <=> (l \in Range(s) /\ l.price # price) \/ l = level
  <2>1. l \in Range(t) <=> \E i \in 1..n + 1 : t[i] = l
    BY <1>9, <1>12, LadderRange
  <2>2. l \in Range(s) <=> \E i \in 1..n : s[i] = l
    BY <1>3, LadderRange
  <2>3. ASSUME NEW i \in 1..n + 1, t[i] = l PROVE (l \in Range(s) /\ l.price # price) \/ l = level
    BY <1>6, <1>11, <2>2, <2>3
  <2>4. ASSUME NEW a \in 1..n, s[a] = l PROVE \E i \in 1..n + 1 : t[i] = l
    <3>1. CASE a < p
      BY <1>9, <2>4, <3>1
    <3>2. CASE ~(a < p)
      <4>1. a + 1 \in 1..n + 1 /\ ~(a + 1 < p) /\ a + 1 # p /\ (a + 1) - 1 = a
        BY <1>6, <3>2
      <4>2. t[a + 1] = s[(a + 1) - 1]
        BY <1>9, <4>1
      <4> QED BY <2>4, <4>1, <4>2
    <3> QED BY <3>1, <3>2
  <2>5. t[p] = level
    BY <1>6, <1>9
  <2> QED BY <1>6, <2>1, <2>2, <2>3, <2>4, <2>5
<1> QED BY <1>1, <1>5, <1>12, <1>13 DEF Upserted

LEMMA UpsertIs ==
  ASSUME NEW s, Ladder(s), NEW level, IsLevel(level), level.price \in Prices, Prices \subseteq Int,
         CanUpsert(s, level)
  PROVE  Upserted(s, level, upsert(s, level))
BY UpsertRemoves, UpsertReplaces, UpsertInserts DEF CanUpsert

-----------------------------------------------------------------------------
(***************************************************************************)
(* Sorting by rank: c[i] are the elements up to i in a total order.        *)
(***************************************************************************)

Orders(c, S) ==
  /\ IsFiniteSet(S)
  /\ \A i \in S : c[i] \in SUBSET S /\ i \in c[i]
  /\ \A i, j \in S : i \in c[j] => c[i] \subseteq c[j]
  /\ \A i, j \in S : i \in c[j] \/ j \in c[i]
  /\ \A i, j \in S : i \in c[j] /\ j \in c[i] => i = j

\* f lists S in the order.
Lists(f, c, S) ==
  /\ \A n \in 1..Cardinality(S) : f[n] \in S /\ Cardinality(c[f[n]]) = n
  /\ \A i \in S : \E n \in 1..Cardinality(S) : f[n] = i
  /\ \A m, n \in 1..Cardinality(S) : f[m] = f[n] => m = n
  /\ \A m, n \in 1..Cardinality(S) : m < n => f[m] \in c[f[n]]

LEMMA RankLess ==
  ASSUME NEW S, NEW c, Orders(c, S), NEW i \in S, NEW j \in S, i \in c[j], i # j
  PROVE  Cardinality(c[i]) < Cardinality(c[j])
<1>1. c[i] \subseteq c[j] /\ j \notin c[i] /\ j \in c[j] /\ c[j] \in SUBSET S
  BY DEF Orders
<1>2. IsFiniteSet(c[j])
  BY <1>1, FS_Subset DEF Orders
<1>3. IsFiniteSet(c[i]) /\ Cardinality(c[i]) <= Cardinality(c[j])
      /\ (Cardinality(c[j]) = Cardinality(c[i]) => c[j] = c[i])
  BY <1>1, <1>2, FS_Subset
<1>4. Cardinality(c[i]) \in Nat /\ Cardinality(c[j]) \in Nat
  BY <1>2, <1>3, FS_CardinalityType
<1>5. Cardinality(c[i]) # Cardinality(c[j])
  BY <1>1, <1>3
<1> QED BY <1>3, <1>4, <1>5

LEMMA RankListed ==
  ASSUME NEW S, NEW c, Orders(c, S), NEW f,
         \A n \in 1..Cardinality(S) : f[n] = CHOOSE i \in S : Cardinality(c[i]) = n
  PROVE  Lists(f, c, S)
<1>1. PICK N \in Nat : N = Cardinality(S)
  BY FS_CardinalityType DEF Orders
<1> DEFINE rank == [i \in S |-> Cardinality(c[i])]
<1>2. \A i \in S : rank[i] \in 1..N
  <2> TAKE i \in S
  <2>1. c[i] \in SUBSET S /\ c[i] # {} /\ IsFiniteSet(S)
    BY DEF Orders
  <2>2. IsFiniteSet(c[i]) /\ Cardinality(c[i]) <= N
    BY <1>1, <2>1, FS_Subset
  <2>3. Cardinality(c[i]) \in Nat /\ Cardinality(c[i]) # 0
    BY <2>1, <2>2, FS_CardinalityType, FS_EmptySet
  <2> QED BY <2>2, <2>3
<1>3. ASSUME NEW i \in S, NEW j \in S, i # j PROVE rank[i] # rank[j]
  <2>1. i \in c[j] \/ j \in c[i]
    BY DEF Orders
  <2>2. i \in c[j] => Cardinality(c[i]) < Cardinality(c[j])
    BY <1>3, RankLess
  <2>3. j \in c[i] => Cardinality(c[j]) < Cardinality(c[i])
    BY <1>3, RankLess
  <2>4. rank[i] \in Int /\ rank[j] \in Int /\ rank[i] = Cardinality(c[i]) /\ rank[j] = Cardinality(c[j])
    BY <1>2
  <2> QED BY <2>1, <2>2, <2>3, <2>4
<1>4. ASSUME NEW n \in 1..N PROVE \E i \in S : Cardinality(c[i]) = n
  <2>1. rank \in [S -> 1..N]
    BY <1>2
  <2>2. \A i, j \in S : rank[i] = rank[j] => i = j
    BY <1>3
  <2>3. rank \in Injection(S, 1..N)
    <3> HIDE DEF rank
    <3> QED BY <2>1, <2>2 DEF Injection, IsInjective
  <2>4. IsFiniteSet(1..N) /\ Cardinality(1..N) = N
    BY FS_Interval
  <2>5. rank \in Surjection(S, 1..N)
    <3> HIDE DEF rank
    <3> QED BY <1>1, <2>3, <2>4, FS_Injection
  <2>6. \E i \in S : rank[i] = n
    <3> HIDE DEF rank
    <3> QED BY <2>5 DEF Surjection
  <2> QED BY <2>6
<1>5. ASSUME NEW n \in 1..N PROVE f[n] \in S /\ Cardinality(c[f[n]]) = n
  <2>1. f[n] = CHOOSE i \in S : Cardinality(c[i]) = n
    BY <1>1
  <2> QED BY <1>4, <2>1
<1>6. ASSUME NEW i \in S PROVE \E n \in 1..N : f[n] = i
  <2>1. PICK n \in 1..N : n = Cardinality(c[i])
    BY <1>2
  <2>2. f[n] \in S /\ Cardinality(c[f[n]]) = n
    BY <1>5
  <2>3. rank[f[n]] = rank[i]
    BY <2>1, <2>2
  <2> QED BY <1>3, <2>2, <2>3
<1>7. ASSUME NEW m \in 1..N, NEW n \in 1..N, m < n PROVE f[m] \in c[f[n]]
  <2>1. f[m] \in S /\ f[n] \in S /\ Cardinality(c[f[m]]) = m /\ Cardinality(c[f[n]]) = n
    BY <1>5
  <2>2. f[n] # f[m]
    BY <1>7, <2>1
  <2>3. f[m] \in c[f[n]] \/ f[n] \in c[f[m]]
    BY <2>1 DEF Orders
  <2>4. f[n] \in c[f[m]] => n < m
    BY <2>1, <2>2, RankLess
  <2> QED BY <1>7, <2>3, <2>4
<1>8. \A m, n \in 1..N : f[m] = f[n] => m = n
  BY <1>5
<1> QED BY <1>1, <1>5, <1>6, <1>7, <1>8 DEF Lists

-----------------------------------------------------------------------------
(* ByPrice sorts. *)

\* Level i of s is sorted before level j, or is it.
Ahead(s, up, i, j) ==
  IF s[i].price = s[j].price THEN i <= j
  ELSE IF up THEN s[i].price < s[j].price ELSE s[i].price > s[j].price

Upto(s, at, up) == [j \in at |-> {i \in at : Ahead(s, up, i, j)}]

\* t is the levels at those places, f says which is where.
Sorts(f, s, at, up, t) ==
  /\ IsLog(t) /\ Len(t) = Cardinality(at)
  /\ \A n \in 1..Len(t) : f[n] \in at /\ t[n] = [price |-> s[f[n]].price, size |-> s[f[n]].size]
  /\ \A i \in at : \E n \in 1..Len(t) : f[n] = i
  /\ \A m, n \in 1..Len(t) : f[m] = f[n] => m = n
  /\ \A m, n \in 1..Len(t) : m < n => Ahead(s, up, f[m], f[n])

LEMMA UptoOrders ==
  ASSUME NEW s, IsLog(s), NEW at \in SUBSET (1..Len(s)), NEW up \in BOOLEAN,
         \A i \in at : s[i].price \in Int
  PROVE  Orders(Upto(s, at, up), at) /\ IsFiniteSet(at)
<1> DEFINE c == Upto(s, at, up)
<1>1. Len(s) \in Nat
  BY LogIs
<1>2. IsFiniteSet(at)
  <2>1. IsFiniteSet(1..Len(s))
    BY <1>1, FS_Interval
  <2> QED BY <2>1, FS_Subset
<1>3. \A j \in at : c[j] = {i \in at : Ahead(s, up, i, j)}
  BY DEF Upto
<1>4. \A i \in at : i \in Int
  BY <1>1
<1>5. \A i \in at : Ahead(s, up, i, i)
  BY <1>4 DEF Ahead
<1>6. ASSUME NEW i \in at, NEW j \in at, NEW k \in at, Ahead(s, up, i, j), Ahead(s, up, j, k)
      PROVE  Ahead(s, up, i, k)
  BY <1>4, <1>6 DEF Ahead
<1>7. \A i, j \in at : Ahead(s, up, i, j) \/ Ahead(s, up, j, i)
  BY <1>4 DEF Ahead
<1>8. \A i, j \in at : Ahead(s, up, i, j) /\ Ahead(s, up, j, i) => i = j
  BY <1>4 DEF Ahead
<1> HIDE DEF c
<1>9. Orders(c, at)
  <2>1. \A i \in at : c[i] \in SUBSET at /\ i \in c[i]
    BY <1>3, <1>5
  <2>2. ASSUME NEW i \in at, NEW j \in at, i \in c[j] PROVE c[i] \subseteq c[j]
    <3>1. \A k \in c[i] : k \in at /\ Ahead(s, up, k, i)
      BY <1>3
    <3>2. Ahead(s, up, i, j)
      BY <1>3, <2>2
    <3>3. \A k \in c[i] : Ahead(s, up, k, j)
      BY <1>6, <3>1, <3>2
    <3> QED BY <1>3, <3>1, <3>3
  <2>3. \A i, j \in at : i \in c[j] \/ j \in c[i]
    BY <1>3, <1>7
  <2>4. \A i, j \in at : i \in c[j] /\ j \in c[i] => i = j
    BY <1>3, <1>8
  <2> QED BY <1>2, <2>1, <2>2, <2>3, <2>4 DEF Orders
<1> QED BY <1>2, <1>9 DEF c

LEMMA ByPriceSorts ==
  ASSUME NEW s, IsLog(s), NEW at \in SUBSET (1..Len(s)), NEW up \in BOOLEAN,
         \A i \in at : s[i].price \in Int
  PROVE  \E f : Sorts(f, s, at, up, ByPrice(s, at, up))
<1>1. PICK c : c = Upto(s, at, up) /\ Orders(c, at) /\ IsFiniteSet(at)
  BY UptoOrders
<1>2. PICK N \in Nat : N = Cardinality(at)
  BY <1>1, FS_CardinalityType
<1> DEFINE f == [n \in 1..N |-> CHOOSE j \in at : Cardinality(c[j]) = n]
<1>3. Lists(f, c, at)
  <2>1. \A n \in 1..Cardinality(at) : f[n] = CHOOSE j \in at : Cardinality(c[j]) = n
    BY <1>2
  <2> HIDE DEF f
  <2> QED BY <1>1, <2>1, RankListed
<1>4. PICK t : t = ByPrice(s, at, up)
  OBVIOUS
<1>5. ASSUME NEW n \in 1..N
      PROVE  f[n] = CHOOSE j \in at : Cardinality({i \in at : Ahead(s, up, i, j)}) = n
  <2>1. \A j \in at : c[j] = {i \in at : Ahead(s, up, i, j)}
    BY <1>1 DEF Upto
  <2>2. \A j \in at : Cardinality(c[j]) = n <=> Cardinality({i \in at : Ahead(s, up, i, j)}) = n
    BY <2>1, Zenon
  <2>3. f[n] = CHOOSE j \in at : Cardinality(c[j]) = n
    OBVIOUS
  <2> QED BY <2>2, <2>3, Zenon
<1>6. t = [n \in 1..N |-> LET l == s[CHOOSE j \in at : Cardinality({i \in at : Ahead(s, up, i, j)}) = n]
                          IN  [price |-> l.price, size |-> l.size]]
  BY <1>2, <1>4, Zenon DEF ByPrice, Ahead
<1>7. \A n \in 1..N : t[n] = [price |-> s[f[n]].price, size |-> s[f[n]].size]
  <2> TAKE n \in 1..N
  <2>1. PICK l : l = s[CHOOSE j \in at : Cardinality({i \in at : Ahead(s, up, i, j)}) = n]
    OBVIOUS
  <2>2. t[n] = [price |-> l.price, size |-> l.size]
    BY <1>6, <2>1, Zenon
  <2>3. l = s[f[n]]
    BY <1>5, <2>1, Zenon
  <2> HIDE DEF f
  <2> QED BY <2>2, <2>3
<1>8. DOMAIN t = 1..N /\ t = [n \in 1..N |-> t[n]]
  BY <1>6
<1>9. IsLog(t) /\ Len(t) = N
  <2>1. \A n \in 1..N : t[n] \in ToSet(t)
    BY <1>8 DEF ToSet
  <2>2. t \in Seq(ToSet(t)) /\ Len(t) = N
    BY <1>8, <2>1
  <2> QED BY <2>2 DEF IsLog
<1> HIDE DEF f
<1>10. \A m, n \in 1..N : m < n => Ahead(s, up, f[m], f[n])
  <2>1. \A j \in at : c[j] = {i \in at : Ahead(s, up, i, j)}
    BY <1>1 DEF Upto
  <2> QED BY <1>2, <1>3, <2>1 DEF Lists
<1>11. Sorts(f, s, at, up, t)
  BY <1>2, <1>3, <1>7, <1>9, <1>10 DEF Lists, Sorts
<1> QED BY <1>4, <1>11

\* The levels of a snapshot, as splitLevels makes them.
Levels(t) == IsLog(t) /\ \A i \in 1..Len(t) : IsLevel(t[i]) /\ t[i].price \in Prices

LEMMA LevelIs ==
  ASSUME NEW p, NEW z
  PROVE  /\ IsLevel([price |-> p, size |-> z])
         /\ [price |-> p, size |-> z].price = p /\ [price |-> p, size |-> z].size = z
BY DEF IsLevel

LEMMA PricesAreNumbers == Prices \subseteq Int
<1>1. \A r \in Rows : r.price \in Int /\ r.levels \in Seq([side : Nat, price : Int, size : Int])
  BY ArchiveAssumption
<1>2. ASSUME NEW r \in Rows, NEW i \in DOMAIN r.levels PROVE r.levels[i].price \in Int
  <2>1. PICK S : S = [side : Nat, price : Int, size : Int]
    OBVIOUS
  <2>2. PICK s \in Seq(S) : s = r.levels
    BY <1>1, <2>1
  <2>3. i \in DOMAIN s
    BY <2>2
  <2>4. s[i] \in S
    BY <2>3
  <2> QED BY <2>1, <2>2, <2>4
<1> QED BY <1>1, <1>2 DEF Prices

LEMMA SplitLevels ==
  ASSUME NEW row \in Rows, NEW side
  PROVE  Levels(splitLevels(row.levels, side))
<1>1. PICK s : s = row.levels /\ s \in Seq([side : Nat, price : Int, size : Int])
  BY ArchiveAssumption
<1>2. IsLog(s)
  BY <1>1, SeqOfItems DEF IsLog
<1>3. DOMAIN s = 1..Len(s)
  BY <1>1
<1> DEFINE at == {i \in DOMAIN s : LevelSide(s[i]) = side}
<1>4. \A i \in 1..Len(s) : s[i].price \in Int /\ s[i].price \in Prices
  BY <1>1, <1>3, PricesAreNumbers DEF Prices
<1>5. PICK up \in BOOLEAN : up = (side # SideBid)
  OBVIOUS
<1>6. PICK t : t = splitLevels(row.levels, side)
  OBVIOUS
<1>7. t = ByPrice(s, at, up)
  BY <1>1, <1>5, <1>6, Zenon DEF splitLevels
<1>8. at \in SUBSET (1..Len(s))
  BY <1>3
<1> HIDE DEF at
<1>9. PICK f : Sorts(f, s, at, up, t)
  BY <1>2, <1>4, <1>7, <1>8, ByPriceSorts
<1>10. ASSUME NEW n \in 1..Len(t) PROVE IsLevel(t[n]) /\ t[n].price \in Prices
  <2>1. PICK i \in at : t[n] = [price |-> s[i].price, size |-> s[i].size]
    BY <1>9 DEF Sorts
  <2>2. IsLevel(t[n]) /\ t[n].price = s[i].price
    BY <2>1, LevelIs
  <2> QED BY <1>4, <1>8, <2>2
<1> QED BY <1>6, <1>9, <1>10 DEF Levels, Sorts

LEMMA AscendingIs ==
  ASSUME NEW s, Levels(s), CanReset(s)
  PROVE  Ladder(Ascending(s)) /\ Range(Ascending(s)) = Range(s)
<1>1. PICK n \in Nat : n = Len(s) /\ DOMAIN s = 1..n
  BY LogIs DEF Levels
<1>2. PICK t : t = Ascending(s)
  OBVIOUS
<1>3. t = ByPrice(s, DOMAIN s, TRUE)
  BY <1>2 DEF Ascending
<1>4. \A i \in 1..n : IsLevel(s[i]) /\ s[i].price \in Prices /\ s[i].price \in Int
  BY <1>1, PricesAreNumbers DEF Levels
<1>5. PICK f : Sorts(f, s, DOMAIN s, TRUE, t)
  <2>1. DOMAIN s \in SUBSET (1..Len(s)) /\ TRUE \in BOOLEAN
    BY <1>1
  <2> QED BY <1>1, <1>3, <1>4, <2>1, ByPriceSorts DEF Levels
<1>6. Len(t) = n
  <2>1. Cardinality(1..n) = n
    BY FS_Interval
  <2> QED BY <1>1, <1>5, <2>1 DEF Sorts
<1>7. ASSUME NEW m \in 1..n PROVE f[m] \in 1..n /\ t[m] = s[f[m]]
  <2>1. f[m] \in 1..n /\ t[m] = [price |-> s[f[m]].price, size |-> s[f[m]].size]
    BY <1>1, <1>5, <1>6 DEF Sorts
  <2>2. IsLevel(s[f[m]])
    BY <1>4, <2>1
  <2> QED BY <2>1, <2>2 DEF IsLevel
<1>8. ASSUME NEW i \in 1..n, NEW j \in 1..n, i < j PROVE t[i].price < t[j].price
  <2>1. f[i] # f[j] /\ Ahead(s, TRUE, f[i], f[j])
    <3>1. i \in 1..Len(t) /\ j \in 1..Len(t) /\ i # j
      BY <1>6, <1>8
    <3> QED BY <1>5, <1>8, <3>1 DEF Sorts
  <2>2. s[f[i]].price # s[f[j]].price
    BY <1>1, <1>7, <2>1 DEF CanReset
  <2> QED BY <1>7, <2>1, <2>2 DEF Ahead
<1>9. Ladder(t)
  <2>1. \A m \in 1..n : IsLevel(t[m]) /\ t[m].price \in Prices
    BY <1>4, <1>7
  <2>2. IsLog(t)
    BY <1>5 DEF Sorts
  <2> QED BY <1>6, <1>8, <2>1, <2>2 DEF Ladder
<1>10. DOMAIN t = 1..n
  BY <1>5, <1>6, LogIs DEF Sorts
<1>11. \A i \in 1..n : \E m \in 1..n : f[m] = i
  BY <1>1, <1>5, <1>6 DEF Sorts
<1>12. Range(t) = Range(s)
  <2>1. \A l : l \in Range(t) <=> \E m \in 1..n : l = t[m]
    BY <1>10 DEF Range
  <2>2. \A l : l \in Range(s) <=> \E m \in 1..n : l = s[m]
    BY <1>1 DEF Range
  <2>3. \A l : l \in Range(t) <=> l \in Range(s)
    BY <1>7, <1>11, <2>1, <2>2
  <2> QED BY <2>3
<1> QED BY <1>2, <1>9, <1>12

-----------------------------------------------------------------------------
(***************************************************************************)
(* The levels a log adds up to: the last word on each price.               *)
(***************************************************************************)

Word(log, i, side, p) ==
  LET at == {n \in DOMAIN log : Touches(log[n], i, side, p)}
  IN  IF at = {} THEN {} ELSE Says(log[CHOOSE n \in at : \A j \in at : j <= n], side, p)

\* Record n is the last to touch the level.
LastTouch(log, i, side, p, n) ==
  /\ n \in 1..Len(log) /\ Touches(log[n], i, side, p)
  /\ \A j \in 1..Len(log) : Touches(log[j], i, side, p) => j <= n
Untouched(log, i, side, p) == \A j \in 1..Len(log) : ~Touches(log[j], i, side, p)

LEMMA LastTouchExists ==
  ASSUME NEW log, IsLog(log), NEW i, NEW side, NEW p
  PROVE  Untouched(log, i, side, p) \/ \E n : LastTouch(log, i, side, p, n)
<1>1. PICK N \in Nat : N = Len(log)
  BY LogIs
<1>2. SUFFICES ASSUME NEW a \in 1..N, Touches(log[a], i, side, p)
               PROVE  \E n : LastTouch(log, i, side, p, n)
  BY <1>1 DEF Untouched
<1> DEFINE T == {m \in Nat : m < N /\ Touches(log[N - m], i, side, p)}
<1>3. N - a \in T
  <2>1. N - a \in Nat /\ N - a < N /\ N - (N - a) = a
    BY <1>2
  <2> QED BY <1>2, <2>1
<1>4. PICK m \in T : \A y \in T : m <= y
  <2>1. T \in SUBSET Nat /\ T # {}
    BY <1>3
  <2> HIDE DEF T
  <2> QED BY <2>1, LeastNumber
<1>5. PICK n \in 1..N : n = N - m /\ Touches(log[n], i, side, p)
  BY <1>4
<1>6. ASSUME NEW j \in 1..N, Touches(log[j], i, side, p) PROVE j <= n
  <2>1. N - j \in Nat /\ N - j < N /\ N - (N - j) = j
    OBVIOUS
  <2>2. N - j \in T
    BY <1>6, <2>1
  <2>3. m <= N - j
    BY <1>4, <2>2
  <2> QED BY <1>4, <1>5, <2>3
<1> QED BY <1>1, <1>5, <1>6 DEF LastTouch

LEMMA WordIs ==
  ASSUME NEW log, IsLog(log), NEW i, NEW side, NEW p
  PROVE  /\ Untouched(log, i, side, p) => Word(log, i, side, p) = {}
         /\ \A n : LastTouch(log, i, side, p, n) => Word(log, i, side, p) = Says(log[n], side, p)
<1>1. PICK N \in Nat : N = Len(log) /\ DOMAIN log = 1..N
  BY LogIs
<1> DEFINE at == {n \in DOMAIN log : Touches(log[n], i, side, p)}
<1>3. Word(log, i, side, p) =
        IF at = {} THEN {} ELSE Says(log[CHOOSE n \in at : \A j \in at : j <= n], side, p)
  BY Zenon DEF Word
<1>4. Untouched(log, i, side, p) => at = {}
  BY <1>1 DEF Untouched
<1>5. ASSUME NEW n, LastTouch(log, i, side, p, n)
      PROVE  at # {} /\ (CHOOSE x \in at : \A j \in at : j <= x) = n
  <2>1. n \in at /\ n \in Int /\ \A j \in at : j \in Int /\ j <= n
    BY <1>1, <1>5 DEF LastTouch
  <2> HIDE DEF at
  <2>2. PICK x : x = CHOOSE m \in at : \A j \in at : j <= m
    OBVIOUS
  <2>3. x \in at /\ \A j \in at : j <= x
    BY <2>1, <2>2
  <2> QED BY <2>1, <2>2, <2>3
<1> HIDE DEF at
<1> QED BY <1>3, <1>4, <1>5

\* The word on a price is about that price.
LEMMA WordPrice ==
  ASSUME NEW log, IsLog(log), NEW i, NEW side, NEW p, NEW l \in Word(log, i, side, p)
  PROVE  l.price = p
<1>1. PICK n : LastTouch(log, i, side, p, n)
  BY LastTouchExists, WordIs
<1>2. l \in Says(log[n], side, p) /\ Touches(log[n], i, side, p)
  BY <1>1, WordIs DEF LastTouch
<1>3. CASE log[n].type = Delta
  BY <1>2, <1>3 DEF Says, Touches, Delta, SnapshotPointer
<1>4. CASE log[n].type # Delta
  BY <1>2, <1>4 DEF Says
<1> QED BY <1>3, <1>4

LEMMA LevelsAre ==
  ASSUME NEW log, IsLog(log), NEW i, NEW side, NEW l
  PROVE  l \in LevelsAfter(log, i, side) <=> l.price \in Prices /\ l \in Word(log, i, side, l.price)
<1>1. LevelsAfter(log, i, side) = UNION {Word(log, i, side, p) : p \in Prices}
  BY Zenon DEF LevelsAfter, Word
<1>2. l \in LevelsAfter(log, i, side) <=> \E p \in Prices : l \in Word(log, i, side, p)
  BY <1>1
<1> QED BY <1>2, WordPrice

SameLevels(log, k, i, side) == LevelsAfter(k, i, side) = LevelsAfter(log, i, side)

LEMMA SameWords ==
  ASSUME NEW log, NEW k, IsLog(log), IsLog(k), NEW i, NEW side,
         \A p \in Prices : Word(k, i, side, p) = Word(log, i, side, p)
  PROVE  SameLevels(log, k, i, side)
<1>1. \A l : l \in LevelsAfter(k, i, side) <=> l \in LevelsAfter(log, i, side)
  BY LevelsAre
<1> QED BY <1>1 DEF SameLevels

\* k is log and more, none of it about the level.
Quiet(log, k, i, side, p) ==
  /\ IsLog(log) /\ IsLog(k) /\ Len(log) <= Len(k)
  /\ \A j \in 1..Len(log) : k[j] = log[j]
  /\ \A j \in 1..Len(k) : j > Len(log) => ~Touches(k[j], i, side, p)

LEMMA QuietWord ==
  ASSUME NEW log, NEW k, NEW i, NEW side, NEW p, Quiet(log, k, i, side, p)
  PROVE  Word(k, i, side, p) = Word(log, i, side, p)
<1>1. PICK n \in Nat, m \in Nat : n = Len(log) /\ m = Len(k) /\ n <= m
  BY LogIs DEF Quiet
<1>2. /\ \A j \in 1..n : k[j] = log[j]
      /\ \A j \in 1..m : j > n => ~Touches(k[j], i, side, p)
      /\ IsLog(k) /\ IsLog(log)
  BY <1>1 DEF Quiet
<1>3. CASE Untouched(log, i, side, p)
  <2>1. Untouched(k, i, side, p)
    BY <1>1, <1>2, <1>3 DEF Untouched
  <2> QED BY <1>2, <1>3, <2>1, WordIs
<1>4. CASE \E x : LastTouch(log, i, side, p, x)
  <2>1. PICK x : LastTouch(log, i, side, p, x)
    BY <1>4
  <2>2. LastTouch(k, i, side, p, x) /\ k[x] = log[x]
    BY <1>1, <1>2, <2>1 DEF LastTouch
  <2> QED BY <1>2, <2>1, <2>2, WordIs
<1> QED BY <1>2, <1>3, <1>4, LastTouchExists

\* The log with one more record.
Longer(log, r, k) ==
  /\ IsLog(log) /\ IsLog(k) /\ Len(k) = Len(log) + 1 /\ k[Len(k)] = r
  /\ \A j \in 1..Len(log) : k[j] = log[j]

LEMMA LongerWord ==
  ASSUME NEW log, NEW r, NEW k, Longer(log, r, k), NEW i, NEW side, NEW p
  PROVE  Word(k, i, side, p) = IF Touches(r, i, side, p) THEN Says(r, side, p)
                               ELSE Word(log, i, side, p)
<1>1. PICK n \in Nat : n = Len(log) /\ Len(k) = n + 1 /\ k[n + 1] = r /\ IsLog(k) /\ IsLog(log)
  BY LogIs DEF Longer
<1>2. CASE Touches(r, i, side, p)
  <2>1. LastTouch(k, i, side, p, n + 1)
    BY <1>1, <1>2 DEF LastTouch
  <2>2. Word(k, i, side, p) = Says(k[n + 1], side, p)
    BY <1>1, <2>1, WordIs
  <2> QED BY <1>1, <1>2, <2>2
<1>3. CASE ~Touches(r, i, side, p)
  <2>1. n <= n + 1 /\ \A j \in 1..n + 1 : j > n => j = n + 1
    BY <1>1
  <2>2. Quiet(log, k, i, side, p)
    BY <1>1, <1>3, <2>1 DEF Quiet, Longer
  <2> QED BY <1>3, <2>2, QuietWord
<1> QED BY <1>2, <1>3

\* A record of another instrument, of another side, or a trade.
LEMMA OtherLevels ==
  ASSUME NEW log, NEW r, NEW k, Longer(log, r, k), NEW i, NEW side,
         r.instrument # i \/ r.type = Trade \/ (r.type = Delta /\ r.side # side)
  PROVE  SameLevels(log, k, i, side)
<1>1. \A p : ~Touches(r, i, side, p)
  BY DEF Touches, Trade, Delta, SnapshotPointer
<1>2. \A p : Word(k, i, side, p) = Word(log, i, side, p)
  BY <1>1, LongerWord
<1> QED BY <1>2, SameWords DEF Longer

DeltaLevels(log, level, k, i, side) ==
  \A l : l \in LevelsAfter(k, i, side) <=>
           \/ l \in LevelsAfter(log, i, side) /\ l.price # level.price
           \/ level.size # 0 /\ l = level

LEMMA LevelsOfDelta ==
  ASSUME NEW log, NEW r, NEW k, Longer(log, r, k), NEW i, NEW side,
         r.instrument = i, r.type = Delta, r.side = side, r.level.price \in Prices
  PROVE  DeltaLevels(log, r.level, k, i, side)
<1>1. \A p : Touches(r, i, side, p) <=> p = r.level.price
  BY DEF Touches, Delta, SnapshotPointer
<1>2. \A p : Says(r, side, p) = IF r.level.size = 0 THEN {} ELSE {r.level}
  BY DEF Says
<1>3. ASSUME NEW l
      PROVE  l \in LevelsAfter(k, i, side) <=>
               \/ l \in LevelsAfter(log, i, side) /\ l.price # r.level.price
               \/ r.level.size # 0 /\ l = r.level
  <2>1. l \in LevelsAfter(k, i, side) <=> l.price \in Prices /\ l \in Word(k, i, side, l.price)
    BY LevelsAre DEF Longer
  <2>2. l \in LevelsAfter(log, i, side) <=> l.price \in Prices /\ l \in Word(log, i, side, l.price)
    BY LevelsAre DEF Longer
  <2>3. Word(k, i, side, l.price) =
          IF l.price = r.level.price THEN Says(r, side, l.price) ELSE Word(log, i, side, l.price)
    BY <1>1, LongerWord
  <2> QED BY <1>2, <2>1, <2>2, <2>3
<1> QED BY <1>3 DEF DeltaLevels

\* The levels of one side of a snapshot.
SideOf(r, side) == IF side = SideAsk THEN r.asks ELSE r.bids

LEMMA LevelsOfSnapshot ==
  ASSUME NEW log, NEW r, NEW k, Longer(log, r, k), NEW i, NEW side,
         r.instrument = i, r.type = SnapshotPointer,
         \A l \in Range(SideOf(r, side)) : l.price \in Prices
  PROVE  LevelsAfter(k, i, side) = Range(SideOf(r, side))
<1>1. \A p : Touches(r, i, side, p)
  BY DEF Touches
<1>2. \A p : Says(r, side, p) = {l \in Range(SideOf(r, side)) : l.price = p}
  BY DEF Says, SideOf, SnapshotPointer, Delta
<1>3. \A l : l \in LevelsAfter(k, i, side) <=> l.price \in Prices /\ l \in Says(r, side, l.price)
  BY <1>1, LevelsAre, LongerWord DEF Longer
<1>4. \A l : l \in LevelsAfter(k, i, side) <=> l \in Range(SideOf(r, side))
  BY <1>2, <1>3
<1> QED BY <1>4

\* The snapshots of an epoch say what the log before them adds up to.
Retells(log, e) ==
  /\ \A n \in 1..Len(e) : e[n].type = SnapshotPointer
  /\ \A m, n \in 1..Len(e) : e[m].instrument = e[n].instrument => m = n
  /\ \A n \in 1..Len(e) : \A side \in {SideBid, SideAsk} :
       Range(SideOf(e[n], side)) = LevelsAfter(log, e[n].instrument, side)

LEMMA EpochKeepsLevels ==
  ASSUME NEW log, NEW e, NEW k, IsLog(log), IsLog(e), Joined(log, e, k), Retells(log, e),
         NEW i, NEW side \in {SideBid, SideAsk}
  PROVE  SameLevels(log, k, i, side)
<1>1. PICK n \in Nat, m \in Nat : n = Len(log) /\ m = Len(e)
  BY LogIs
<1>2. /\ IsLog(k) /\ Len(k) = n + m /\ \A j \in 1..n : k[j] = log[j]
      /\ \A j \in 1..m : k[n + j] = e[j]
  BY <1>1 DEF Joined
<1>3. ASSUME NEW j \in 1..n + m, j > n PROVE j - n \in 1..m /\ k[j] = e[j - n]
  <2>1. j - n \in 1..m /\ n + (j - n) = j
    BY <1>3
  <2> QED BY <1>2, <2>1
<1>4. CASE \A j \in 1..m : e[j].instrument # i
  <2>1. ASSUME NEW p PROVE Word(k, i, side, p) = Word(log, i, side, p)
    <3>1. \A j \in 1..n + m : j > n => ~Touches(k[j], i, side, p)
      BY <1>3, <1>4 DEF Touches
    <3>2. Quiet(log, k, i, side, p)
      BY <1>1, <1>2, <3>1 DEF Quiet
    <3> QED BY <3>2, QuietWord
  <2> QED BY <1>2, <2>1, SameWords
<1>5. ASSUME NEW j \in 1..m, e[j].instrument = i PROVE SameLevels(log, k, i, side)
  <2>1. e[j].type = SnapshotPointer /\ Range(SideOf(e[j], side)) = LevelsAfter(log, i, side)
    BY <1>1, <1>5 DEF Retells
  <2>2. ASSUME NEW p PROVE LastTouch(k, i, side, p, n + j)
    <3>1. n + j \in 1..n + m /\ k[n + j] = e[j]
      BY <1>2
    <3>2. Touches(k[n + j], i, side, p)
      BY <1>5, <2>1, <3>1 DEF Touches
    <3>3. ASSUME NEW x \in 1..n + m, Touches(k[x], i, side, p) PROVE x <= n + j
      <4>1. CASE x > n
        <5>1. x - n \in 1..m /\ e[x - n].instrument = i
          BY <1>3, <3>3, <4>1 DEF Touches
        <5>2. x - n = j
          BY <1>1, <1>5, <5>1 DEF Retells
        <5> QED BY <5>2
      <4>2. CASE ~(x > n)
        BY <4>2
      <4> QED BY <4>1, <4>2
    <3> QED BY <1>2, <3>1, <3>2, <3>3 DEF LastTouch
  <2>3. \A p : Word(k, i, side, p) = Says(e[j], side, p)
    BY <1>2, <2>2, WordIs
  <2>4. \A p : Says(e[j], side, p) = {l \in LevelsAfter(log, i, side) : l.price = p}
    BY <2>1 DEF Says, SideOf, SnapshotPointer, Delta
  <2>5. \A l : l \in LevelsAfter(k, i, side) <=> l.price \in Prices /\ l \in LevelsAfter(log, i, side)
    BY <1>2, <2>3, <2>4, LevelsAre
  <2>6. \A l : l \in LevelsAfter(log, i, side) => l.price \in Prices
    BY LevelsAre
  <2>7. \A l : l \in LevelsAfter(k, i, side) <=> l \in LevelsAfter(log, i, side)
    BY <2>5, <2>6
  <2> QED BY <2>7 DEF SameLevels
<1> QED BY <1>4, <1>5

-----------------------------------------------------------------------------
(***************************************************************************)
(* The books of a venue are what its log adds up to.                       *)
(***************************************************************************)

\* The instruments that have a book.
Known(log) == {log[j].instrument : j \in {j \in DOMAIN log : log[j].type # Trade}}

\* One side of a book holds the levels of the log.
HoldsSide(s, log, i, side) == Ladder(s) /\ Range(s) = LevelsAfter(log, i, side)
Holds(b, log, i) ==
  /\ b = [bids |-> b.bids, asks |-> b.asks]
  /\ HoldsSide(b.bids, log, i, SideBid) /\ HoldsSide(b.asks, log, i, SideAsk)

Kept(log, v) ==
  /\ IsLog(log) /\ DOMAIN v.books = Known(log) /\ Known(log) \subseteq Nat
  /\ \A i \in DOMAIN v.books : Holds(v.books[i], log, i)

\* What recordOf makes of a row it does not reject.
IsRecord(r) ==
  /\ r.instrument \in Nat /\ r.type \in {Trade, Delta, SnapshotPointer} /\ r.epoch = FALSE
  /\ r.type = Delta => /\ r.side \in {SideBid, SideAsk}
                       /\ IsLevel(r.level) /\ r.level.price \in Prices
  /\ r.type = SnapshotPointer => Levels(r.bids) /\ Levels(r.asks)

LEMMA RecordIs ==
  ASSUME NEW row \in Rows, Converts(row)
  PROVE  IsRecord(recordOf(row))
<1>1. row.instrument \in Nat /\ row.side \in {SideBid, SideAsk} /\ row.price \in Prices
      /\ row.type \in {Trade, Delta, SnapshotPointer}
  BY ArchiveAssumption DEF Converts, SideBid, SideAsk, Prices
<1>2. PICK r : r = recordOf(row)
  OBVIOUS
<1>3. CASE row.type = SnapshotPointer
  <2>1. r.instrument = row.instrument /\ r.type = SnapshotPointer /\ r.epoch = FALSE
        /\ r.bids = splitLevels(row.levels, SideBid) /\ r.asks = splitLevels(row.levels, SideAsk)
    BY <1>2, <1>3 DEF recordOf, Snapshot
  <2>2. Levels(r.bids) /\ Levels(r.asks)
    BY <2>1, SplitLevels
  <2>3. r.type # Delta
    BY <2>1 DEF SnapshotPointer, Delta
  <2> QED BY <1>1, <1>2, <2>1, <2>2, <2>3 DEF IsRecord
<1>4. CASE row.type # SnapshotPointer
  <2>1. r.instrument = row.instrument /\ r.type = row.type /\ r.epoch = FALSE
        /\ r.side = row.side /\ r.level = [price |-> row.price, size |-> row.size]
    BY <1>2, <1>4 DEF recordOf
  <2>2. IsLevel(r.level) /\ r.level.price = row.price
    BY <2>1, LevelIs
  <2> QED BY <1>1, <1>2, <1>4, <2>1, <2>2 DEF IsRecord
<1> QED BY <1>3, <1>4

LEMMA NoLadder == Ladder(<<>>) /\ Range(<<>>) = {}
<1>1. IsLog(<<>>) /\ Len(<<>>) = 0
  BY OneLog
<1>2. 1..0 = {}
  OBVIOUS
<1> QED BY <1>1, <1>2, NoLog DEF Ladder, Range

\* bookOf, for an instrument that has none also.
LEMMA BookHolds ==
  ASSUME NEW log, NEW v, Kept(log, v), NEW i
  PROVE  Holds(bookOf(v, i), log, i)
<1>1. CASE i \in DOMAIN v.books
  BY <1>1 DEF bookOf, Kept
<1>2. CASE i \notin DOMAIN v.books
  <2>1. bookOf(v, i) = NewBook
    BY <1>2 DEF bookOf
  <2>2. IsLog(log) /\ i \notin Known(log) /\ DOMAIN log = 1..Len(log)
    BY <1>2, LogIs DEF Kept
  <2>3. ASSUME NEW side PROVE LevelsAfter(log, i, side) = {}
    <3>1. \A p : Untouched(log, i, side, p)
      BY <2>2 DEF Untouched, Touches, Known, Trade, Delta, SnapshotPointer
    <3>2. \A p : Word(log, i, side, p) = {}
      BY <2>2, <3>1, WordIs
    <3>3. \A l : l \notin LevelsAfter(log, i, side)
      BY <2>2, <3>2, LevelsAre
    <3> QED BY <3>3
  <2>4. NewBook.bids = <<>> /\ NewBook.asks = <<>> /\ NewBook = [bids |-> NewBook.bids, asks |-> NewBook.asks]
    BY DEF NewBook
  <2> QED BY <2>1, <2>3, <2>4, NoLadder DEF Holds, HoldsSide
<1> QED BY <1>1, <1>2

\* upsert makes of a side what the delta makes of its levels.
LEMMA DeltaHolds ==
  ASSUME NEW log, NEW r, NEW k, Longer(log, r, k), NEW i, NEW side, NEW s,
         HoldsSide(s, log, i, side), IsRecord(r), r.instrument = i, r.type = Delta, r.side = side,
         CanUpsert(s, r.level)
  PROVE  HoldsSide(upsert(s, r.level), k, i, side)
<1>1. PICK level : level = r.level /\ IsLevel(level) /\ level.price \in Prices
  BY DEF IsRecord
<1>2. PICK t : t = upsert(s, level)
  OBVIOUS
<1>3. Upserted(s, level, t)
  BY <1>1, <1>2, UpsertIs, PricesAreNumbers DEF HoldsSide
<1>4. DeltaLevels(log, level, k, i, side)
  BY <1>1, LevelsOfDelta
<1>5. \A l : l \in Range(t) <=> l \in LevelsAfter(k, i, side)
  BY <1>3, <1>4 DEF Upserted, DeltaLevels, HoldsSide
<1>6. Ladder(t) /\ Range(t) = LevelsAfter(k, i, side)
  BY <1>3, <1>5 DEF Upserted
<1> QED BY <1>1, <1>2, <1>6 DEF HoldsSide

LEMMA OtherSideHolds ==
  ASSUME NEW log, NEW r, NEW k, Longer(log, r, k), NEW i, NEW side, NEW s,
         HoldsSide(s, log, i, side),
         r.instrument # i \/ r.type = Trade \/ (r.type = Delta /\ r.side # side)
  PROVE  HoldsSide(s, k, i, side)
BY OtherLevels DEF SameLevels, HoldsSide

LEMMA SnapshotHolds ==
  ASSUME NEW log, NEW r, NEW k, Longer(log, r, k), NEW i, NEW side, NEW s, s = SideOf(r, side),
         r.instrument = i, r.type = SnapshotPointer, Levels(s), CanReset(s)
  PROVE  HoldsSide(Ascending(s), k, i, side)
<1>1. Ladder(Ascending(s)) /\ Range(Ascending(s)) = Range(s)
  BY AscendingIs
<1>2. \A l \in Range(s) : l.price \in Prices
  BY LogIs DEF Levels, Range
<1>3. LevelsAfter(k, i, side) = Range(s)
  BY <1>2, LevelsOfSnapshot
<1> QED BY <1>1, <1>3 DEF HoldsSide

\* Apply makes of the book of a record's instrument what the record makes of the log.
LEMMA ApplyHolds ==
  ASSUME NEW log, NEW r, NEW k, Longer(log, r, k), NEW i, NEW b, Holds(b, log, i),
         IsRecord(r), r.instrument = i, r.type # Trade, CanApply(b, r)
  PROVE  Holds(Apply(b, r), k, i)
<1>1. /\ b = [bids |-> b.bids, asks |-> b.asks]
      /\ HoldsSide(b.bids, log, i, SideBid) /\ HoldsSide(b.asks, log, i, SideAsk)
  BY DEF Holds
<1>2. PICK x, y : x = b.bids /\ y = b.asks /\ b = [bids |-> x, asks |-> y]
  BY <1>1
<1>3. PICK c : c = Apply(b, r)
  OBVIOUS
<1>4. SideBid # SideAsk /\ Delta # SnapshotPointer
  BY DEF SideBid, SideAsk, Delta, SnapshotPointer
<1>5. CASE r.type = SnapshotPointer
  <2>1. c = [bids |-> Ascending(r.bids), asks |-> Ascending(r.asks)]
    BY <1>3, <1>4, <1>5 DEF Apply
  <2>2. CanReset(r.bids) /\ CanReset(r.asks)
    BY <1>4, <1>5 DEF CanApply
  <2>3. SideOf(r, SideBid) = r.bids /\ SideOf(r, SideAsk) = r.asks
    BY <1>4 DEF SideOf
  <2>4. HoldsSide(Ascending(r.bids), k, i, SideBid) /\ HoldsSide(Ascending(r.asks), k, i, SideAsk)
    BY <1>5, <2>2, <2>3, SnapshotHolds DEF IsRecord
  <2> QED BY <1>3, <2>1, <2>4 DEF Holds
<1>6. CASE r.type = Delta /\ r.side = SideAsk
  <2>1. PICK t : t = upsert(y, r.level)
    OBVIOUS
  <2>2. c = [b EXCEPT !.asks = t]
    BY <1>2, <1>3, <1>4, <1>6, <2>1 DEF Apply
  <2>3. c.bids = x /\ c.asks = t /\ c = [bids |-> x, asks |-> t]
    BY <1>2, <2>2
  <2>4. CanUpsert(y, r.level)
    BY <1>2, <1>4, <1>6 DEF CanApply
  <2>5. HoldsSide(t, k, i, SideAsk)
    BY <1>1, <1>2, <1>6, <2>1, <2>4, DeltaHolds
  <2>6. HoldsSide(x, k, i, SideBid)
    BY <1>1, <1>2, <1>4, <1>6, OtherSideHolds
  <2> QED BY <1>3, <2>3, <2>5, <2>6 DEF Holds
<1>7. CASE r.type = Delta /\ r.side # SideAsk
  <2>1. PICK t : t = upsert(x, r.level)
    OBVIOUS
  <2>2. c = [b EXCEPT !.bids = t]
    BY <1>2, <1>3, <1>4, <1>7, <2>1 DEF Apply
  <2>3. c.bids = t /\ c.asks = y /\ c = [bids |-> t, asks |-> y]
    BY <1>2, <2>2
  <2>4. CanUpsert(x, r.level) /\ r.side = SideBid
    <3>1. CanUpsert(x, r.level)
      BY <1>2, <1>4, <1>7 DEF CanApply
    <3>2. r.side = SideBid
      BY <1>7 DEF IsRecord
    <3> QED BY <3>1, <3>2
  <2>5. HoldsSide(t, k, i, SideBid)
    BY <1>1, <1>2, <1>7, <2>1, <2>4, DeltaHolds
  <2>6. HoldsSide(y, k, i, SideAsk)
    BY <1>1, <1>2, <1>7, OtherSideHolds
  <2> QED BY <1>3, <2>3, <2>5, <2>6 DEF Holds
<1> QED BY <1>5, <1>6, <1>7 DEF IsRecord

LEMMA OtherHolds ==
  ASSUME NEW log, NEW r, NEW k, Longer(log, r, k), NEW i, NEW b, Holds(b, log, i),
         r.instrument # i \/ r.type = Trade
  PROVE  Holds(b, k, i)
BY OtherSideHolds DEF Holds

LEMMA KnownGrows ==
  ASSUME NEW log, NEW r, NEW k, Longer(log, r, k)
  PROVE  Known(k) = IF r.type = Trade THEN Known(log) ELSE Known(log) \cup {r.instrument}
<1>1. PICK n \in Nat : /\ n = Len(log) /\ DOMAIN log = 1..n /\ DOMAIN k = 1..n + 1 /\ k[n + 1] = r
                       /\ \A j \in 1..n : k[j] = log[j]
  BY LogIs DEF Longer
<1>2. \A x : x \in Known(log) <=> \E j \in 1..n : log[j].type # Trade /\ log[j].instrument = x
  BY <1>1 DEF Known
<1>3. \A x : x \in Known(k) <=> \E j \in 1..n + 1 : k[j].type # Trade /\ k[j].instrument = x
  BY <1>1 DEF Known
<1>4. \A j \in 1..n + 1 : j \in 1..n \/ j = n + 1
  OBVIOUS
<1>5. n + 1 \in 1..n + 1 /\ \A j \in 1..n : j \in 1..n + 1
  OBVIOUS
<1>6. \A x : x \in Known(k) <=> x \in Known(log) \/ (r.type # Trade /\ x = r.instrument)
  BY <1>1, <1>2, <1>3, <1>4, <1>5
<1> QED BY <1>6

\* A row keeps the books true to the log.
LEMMA KeptRow ==
  ASSUME NEW log, NEW r, NEW k, Longer(log, r, k), NEW v, Kept(log, v), IsRecord(r),
         CanApply(bookOf(v, r.instrument), r), NEW u,
         u.books = IF r.type = Trade THEN v.books
                   ELSE With(v.books, r.instrument, Apply(bookOf(v, r.instrument), r))
  PROVE  Kept(k, u)
<1>1. IsLog(k)
  BY DEF Longer
<1>2. Known(k) = IF r.type = Trade THEN Known(log) ELSE Known(log) \cup {r.instrument}
  BY KnownGrows
<1>3. CASE r.type = Trade
  <2>1. u.books = v.books /\ Known(k) = Known(log)
    BY <1>2, <1>3
  <2>2. \A i \in DOMAIN v.books : Holds(v.books[i], k, i)
    BY <1>3, OtherHolds DEF Kept
  <2> QED BY <1>1, <2>1, <2>2 DEF Kept
<1>4. CASE r.type # Trade
  <2>1. PICK x, c : x = r.instrument /\ c = Apply(bookOf(v, x), r)
    OBVIOUS
  <2>2. u.books = With(v.books, x, c)
    BY <1>4, <2>1
  <2>3. /\ DOMAIN u.books = DOMAIN v.books \cup {x} /\ u.books[x] = c
        /\ \A i \in DOMAIN v.books : i # x => u.books[i] = v.books[i]
    BY <2>2 DEF With
  <2>4. Holds(c, k, x)
    <3>1. Holds(bookOf(v, x), log, x)
      BY BookHolds
    <3> QED BY <1>4, <2>1, <3>1, ApplyHolds
  <2>5. \A i \in DOMAIN v.books : i # x => Holds(v.books[i], k, i)
    BY <2>1, OtherHolds DEF Kept
  <2>6. \A i \in DOMAIN u.books : Holds(u.books[i], k, i)
    BY <2>3, <2>4, <2>5
  <2>7. DOMAIN u.books = Known(k) /\ Known(k) \subseteq Nat
    BY <1>2, <1>4, <2>1, <2>3 DEF Kept, IsRecord
  <2> QED BY <1>1, <2>6, <2>7 DEF Kept
<1> QED BY <1>3, <1>4

-----------------------------------------------------------------------------
(***************************************************************************)
(* An epoch tells the books: each once, and what the log adds up to.       *)
(***************************************************************************)

\* The levels of a snapshot that a book accepts.
Stored(t) == Levels(t) /\ CanReset(t)

Told(log, e) ==
  /\ IsLog(e) /\ Retells(log, e)
  /\ \A n \in 1..Len(e) : Stored(e[n].bids) /\ Stored(e[n].asks)
  /\ \A n \in 1..Len(e) : e[n].epoch = TRUE /\ IsInjective(e[n].bids) /\ IsInjective(e[n].asks)
  /\ \A x : x \in Known(log) <=> \E n \in 1..Len(e) : e[n].instrument = x

\* A side read from its end has the same levels, and none twice.
LEMMA ReverseIs ==
  ASSUME NEW s, Ladder(s)
  PROVE  /\ Range(Reverse(s)) = Range(s) /\ IsInjective(Reverse(s)) /\ IsInjective(s)
         /\ Stored(Reverse(s)) /\ Stored(s)
<1>1. PICK n \in Nat : n = Len(s) /\ DOMAIN s = 1..n
  BY LogIs DEF Ladder
<1>2. PICK t : t = Reverse(s)
  OBVIOUS
<1>3. t = [i \in 1..n |-> s[(n - i) + 1]]
  BY <1>1, <1>2 DEF Reverse
<1>4. DOMAIN t = 1..n /\ \A i \in 1..n : t[i] = s[(n - i) + 1]
  BY <1>3
<1>5. \A i \in 1..n : (n - i) + 1 \in 1..n /\ (n - ((n - i) + 1)) + 1 = i
  OBVIOUS
<1>6. ASSUME NEW x PROVE x \in Range(t) <=> x \in Range(s)
  <2>1. x \in Range(t) <=> \E i \in 1..n : t[i] = x
    BY <1>4 DEF Range
  <2>2. x \in Range(s) <=> \E i \in 1..n : s[i] = x
    BY <1>1 DEF Range
  <2>3. \A i \in 1..n : \E j \in 1..n : t[i] = s[j]
    BY <1>4, <1>5
  <2>4. \A i \in 1..n : \E j \in 1..n : t[j] = s[i]
    BY <1>4, <1>5
  <2> QED BY <2>1, <2>2, <2>3, <2>4
<1>7. ASSUME NEW i \in 1..n, NEW j \in 1..n, s[i].price = s[j].price PROVE i = j
  <2>1. /\ s[i].price \in Int /\ s[j].price \in Int
        /\ i < j => s[i].price < s[j].price
        /\ j < i => s[j].price < s[i].price
    BY <1>1, PricesAreNumbers DEF Ladder
  <2> QED BY <1>7, <2>1
<1>8. ASSUME NEW i \in 1..n, NEW j \in 1..n, t[i].price = t[j].price PROVE i = j
  <2>1. PICK a \in 1..n, b \in 1..n : a = (n - i) + 1 /\ b = (n - j) + 1
    BY <1>5
  <2>2. t[i] = s[a] /\ t[j] = s[b]
    BY <1>4, <2>1
  <2>3. a = b
    BY <1>7, <1>8, <2>2
  <2> QED BY <2>1, <2>3
<1>9. Range(t) = Range(s)
  BY <1>6
<1>10. IsInjective(t) /\ IsInjective(s)
  BY <1>1, <1>4, <1>7, <1>8 DEF IsInjective
<1>11. Levels(s) /\ \A i \in 1..n : IsLevel(s[i]) /\ s[i].price \in Prices
  BY <1>1 DEF Ladder, Levels
<1>12. IsLog(t) /\ Len(t) = n
  <2>1. \A i \in 1..n : t[i] \in ToSet(t)
    BY <1>4 DEF ToSet
  <2>2. t = [i \in 1..n |-> t[i]]
    BY <1>3, <1>4
  <2>3. t \in Seq(ToSet(t)) /\ Len(t) = n
    BY <2>1, <2>2
  <2> QED BY <2>3 DEF IsLog
<1>13. \A i \in 1..n : IsLevel(t[i]) /\ t[i].price \in Prices
  BY <1>4, <1>5, <1>11
<1>14. Levels(t)
  BY <1>12, <1>13 DEF Levels
<1>15. CanReset(t) /\ CanReset(s)
  BY <1>1, <1>4, <1>7, <1>8 DEF CanReset
<1> QED BY <1>2, <1>9, <1>10, <1>11, <1>14, <1>15 DEF Stored

\* Snapshot n of an epoch is the book of the instrument f[n].
Snapped(v, f, e, n) ==
  /\ e[n].type = SnapshotPointer /\ e[n].epoch = TRUE /\ e[n].instrument = f[n]
  /\ e[n].bids = Reverse(v.books[f[n]].bids) /\ e[n].asks = v.books[f[n]].asks

LEMMA EpochLists ==
  ASSUME NEW v, IsFiniteSet(DOMAIN v.books), DOMAIN v.books \subseteq Nat
  PROVE  \E f, c : /\ Lists(f, c, DOMAIN v.books) /\ Len(epoch(v)) = Cardinality(DOMAIN v.books)
                   /\ \A n \in 1..Cardinality(DOMAIN v.books) : Snapped(v, f, epoch(v), n)
<1> DEFINE S == DOMAIN v.books
           N == Cardinality(S)
           c == [i \in S |-> {j \in S : j <= i}]
           f == [n \in 1..N |-> CHOOSE i \in S : Cardinality({j \in S : j <= i}) = n]
<1>7. epoch(v) = [n \in DOMAIN f |->
                    Snapshot(v.lastTs, (v.lastSeq + n) % (MaxSeq + 1), f[n],
                             Reverse(v.books[f[n]].bids), v.books[f[n]].asks, TRUE)]
  BY Zenon DEF epoch
<1>1. S = DOMAIN v.books /\ IsFiniteSet(S) /\ S \subseteq Nat
  OBVIOUS
<1>2. N \in Nat /\ N = Cardinality(S)
  BY <1>1, FS_CardinalityType
<1> HIDE DEF S, N
<1>3. \A i \in S : c[i] = {j \in S : j <= i}
  OBVIOUS
<1>4. Orders(c, S)
  <2> HIDE DEF c
  <2>1. \A i \in S : i \in Int
    BY <1>1
  <2>2. \A i \in S : c[i] \in SUBSET S /\ i \in c[i]
    BY <1>3, <2>1
  <2>3. ASSUME NEW i \in S, NEW j \in S, i \in c[j] PROVE c[i] \subseteq c[j]
    <3>1. i <= j
      BY <1>3, <2>3
    <3>2. \A k \in S : k <= i => k <= j
      BY <2>1, <3>1
    <3> QED BY <1>3, <3>2
  <2>4. \A i, j \in S : i \in c[j] \/ j \in c[i]
    BY <1>3, <2>1
  <2>5. \A i, j \in S : i \in c[j] /\ j \in c[i] => i = j
    BY <1>3, <2>1
  <2> QED BY <1>1, <2>2, <2>3, <2>4, <2>5 DEF Orders
<1>5. ASSUME NEW n \in 1..N PROVE f[n] = CHOOSE i \in S : Cardinality(c[i]) = n
  <2>1. \A i \in S : Cardinality(c[i]) = n <=> Cardinality({j \in S : j <= i}) = n
    BY <1>3, Zenon
  <2>2. f[n] = CHOOSE i \in S : Cardinality({j \in S : j <= i}) = n
    OBVIOUS
  <2> QED BY <2>1, <2>2, Zenon
<1>6. Lists(f, c, S)
  <2> HIDE DEF f, c
  <2> QED BY <1>2, <1>4, <1>5, RankListed
<1>8. DOMAIN f = 1..N
  OBVIOUS
<1> HIDE DEF f, c
<1>9. ASSUME NEW n \in 1..N PROVE Snapped(v, f, epoch(v), n)
  <2>1. epoch(v)[n] = Snapshot(v.lastTs, (v.lastSeq + n) % (MaxSeq + 1), f[n],
                               Reverse(v.books[f[n]].bids), v.books[f[n]].asks, TRUE)
    BY <1>7, <1>8
  <2>2. PICK a, b, x, y, z : /\ a = v.lastTs /\ b = (v.lastSeq + n) % (MaxSeq + 1) /\ x = f[n]
                             /\ y = Reverse(v.books[f[n]].bids) /\ z = v.books[f[n]].asks
    OBVIOUS
  <2>3. epoch(v)[n] = Snapshot(a, b, x, y, z, TRUE)
    BY <2>1, <2>2, Zenon
  <2>4. PICK r : r = epoch(v)[n]
    OBVIOUS
  <2>5. r = [ts |-> a, seq |-> b, instrument |-> x, type |-> SnapshotPointer,
             bids |-> y, asks |-> z, epoch |-> TRUE]
    BY <2>3, <2>4, Zenon DEF Snapshot
  <2>6. r.type = SnapshotPointer /\ r.epoch = TRUE /\ r.instrument = x /\ r.bids = y /\ r.asks = z
    BY <2>5
  <2> QED BY <2>2, <2>4, <2>6, Zenon DEF Snapped
<1>10. Len(epoch(v)) = N
  <2>1. PICK e : e = epoch(v)
    OBVIOUS
  <2>2. DOMAIN e = 1..N
    BY <1>7, <1>8, <2>1
  <2>3. IsLog(e)
    BY <1>1, <2>1, EpochIs
  <2>4. Len(e) \in Nat /\ 1..N = 1..Len(e) /\ N \in Nat
    BY <1>2, <2>2, <2>3, LogIs
  <2>5. Len(e) = N
    BY <2>4
  <2> QED BY <2>1, <2>5
<1> QED BY <1>1, <1>2, <1>6, <1>9, <1>10

LEMMA EpochTold ==
  ASSUME NEW log, NEW v, Kept(log, v), IsFiniteSet(DOMAIN v.books)
  PROVE  Told(log, epoch(v))
<1>1. PICK S, e : S = DOMAIN v.books /\ e = epoch(v)
  OBVIOUS
<1>2. S = Known(log) /\ S \subseteq Nat /\ \A i \in S : Holds(v.books[i], log, i)
  BY <1>1 DEF Kept
<1>3. PICK f, c : /\ Lists(f, c, S) /\ Len(e) = Cardinality(S)
                  /\ \A n \in 1..Cardinality(S) : Snapped(v, f, e, n)
  BY <1>1, <1>2, EpochLists
<1>4. PICK N \in Nat : N = Cardinality(S) /\ N = Len(e)
  BY <1>1, <1>3, FS_CardinalityType
<1>5. ASSUME NEW n \in 1..N
      PROVE  /\ e[n].type = SnapshotPointer /\ e[n].epoch = TRUE /\ e[n].instrument = f[n] /\ f[n] \in S
             /\ Range(e[n].bids) = LevelsAfter(log, f[n], SideBid) /\ IsInjective(e[n].bids)
             /\ Range(e[n].asks) = LevelsAfter(log, f[n], SideAsk) /\ IsInjective(e[n].asks)
             /\ Stored(e[n].bids) /\ Stored(e[n].asks)
  <2>1. Snapped(v, f, e, n) /\ f[n] \in S
    BY <1>3, <1>4 DEF Lists
  <2>2. PICK b : b = v.books[f[n]]
    OBVIOUS
  <2>3. HoldsSide(b.bids, log, f[n], SideBid) /\ HoldsSide(b.asks, log, f[n], SideAsk)
    BY <1>2, <2>1, <2>2 DEF Holds
  <2>4. e[n].bids = Reverse(b.bids) /\ e[n].asks = b.asks /\ e[n].type = SnapshotPointer
        /\ e[n].epoch = TRUE /\ e[n].instrument = f[n]
    BY <2>1, <2>2 DEF Snapped
  <2>5. Ladder(b.bids) /\ Ladder(b.asks) /\ Range(b.bids) = LevelsAfter(log, f[n], SideBid)
        /\ Range(b.asks) = LevelsAfter(log, f[n], SideAsk)
    BY <2>3 DEF HoldsSide
  <2> QED BY <2>1, <2>4, <2>5, ReverseIs
<1>6. \A n \in 1..N : SideOf(e[n], SideBid) = e[n].bids /\ SideOf(e[n], SideAsk) = e[n].asks
  BY DEF SideOf, SideBid, SideAsk
<1>11. \A n \in 1..N : e[n].instrument = f[n] /\ f[n] \in S /\ e[n].type = SnapshotPointer
  BY <1>5
<1>12. /\ \A i \in S : \E n \in 1..N : f[n] = i
       /\ \A m, n \in 1..N : f[m] = f[n] => m = n
  BY <1>3, <1>4 DEF Lists
<1>7. \A m, n \in 1..N : e[m].instrument = e[n].instrument => m = n
  BY <1>11, <1>12
<1>13. ASSUME NEW n \in 1..N, NEW side \in {SideBid, SideAsk}
       PROVE  Range(SideOf(e[n], side)) = LevelsAfter(log, e[n].instrument, side)
  BY <1>5, <1>6
<1>8. Retells(log, e)
  BY <1>4, <1>7, <1>11, <1>13 DEF Retells
<1>9. \A x : x \in S <=> \E n \in 1..N : e[n].instrument = x
  BY <1>11, <1>12
<1>10. IsLog(e)
  BY <1>1, EpochIs
<1> QED BY <1>1, <1>2, <1>4, <1>5, <1>8, <1>9, <1>10 DEF Told

\* An epoch changes nothing of what the log adds up to.
LEMMA KeptEpoch ==
  ASSUME NEW log, NEW e, NEW k, NEW v, Kept(log, v), Told(log, e), Joined(log, e, k)
  PROVE  Kept(k, v)
<1>1. PICK n \in Nat, m \in Nat : n = Len(log) /\ m = Len(e) /\ DOMAIN log = 1..n
  BY LogIs DEF Kept, Told
<1>2. /\ IsLog(k) /\ Len(k) = n + m /\ DOMAIN k = 1..n + m /\ \A j \in 1..n : k[j] = log[j]
      /\ \A j \in 1..m : k[n + j] = e[j]
  BY <1>1, LogIs DEF Joined
<1>3. \A x : x \in Known(log) <=> \E j \in 1..n : log[j].type # Trade /\ log[j].instrument = x
  BY <1>1 DEF Known
<1>4. \A x : x \in Known(k) <=> \E j \in 1..n + m : k[j].type # Trade /\ k[j].instrument = x
  BY <1>2 DEF Known
<1>5. ASSUME NEW x \in Known(k) PROVE x \in Known(log)
  <2>1. PICK j \in 1..n + m : k[j].type # Trade /\ k[j].instrument = x
    BY <1>4, <1>5
  <2>2. CASE j <= n
    BY <1>2, <1>3, <2>1, <2>2
  <2>3. CASE j > n
    <3>1. j - n \in 1..m /\ n + (j - n) = j
      BY <2>3
    <3>2. k[j] = e[j - n]
      BY <1>2, <3>1
    <3> QED BY <1>1, <2>1, <3>1, <3>2 DEF Told
  <2> QED BY <2>2, <2>3
<1>6. ASSUME NEW x \in Known(log) PROVE x \in Known(k)
  <2>1. \A j \in 1..n : j \in 1..n + m
    OBVIOUS
  <2> QED BY <1>2, <1>3, <1>4, <1>6, <2>1
<1>7. Known(k) = Known(log)
  BY <1>5, <1>6
<1>8. ASSUME NEW i, NEW b, Holds(b, log, i) PROVE Holds(b, k, i)
  <2>1. SameLevels(log, k, i, SideBid) /\ SameLevels(log, k, i, SideAsk)
    BY EpochKeepsLevels DEF Kept, Told
  <2> QED BY <1>8, <2>1 DEF SameLevels, Holds, HoldsSide
<1> QED BY <1>2, <1>7, <1>8 DEF Kept

-----------------------------------------------------------------------------
(***************************************************************************)
(* A file tells the books: every run of epoch records in it tells what the *)
(* records before the run add up to, g being the log before the file.      *)
(***************************************************************************)

\* An epoch starts at record n of the file s, and e are its records.
RunStart(s, n) == n \in 1..Len(s) /\ s[n].epoch /\ (n = 1 \/ ~s[n - 1].epoch)
RunOf(s, n, e) ==
  /\ IsLog(e) /\ (n - 1) + Len(e) <= Len(s)
  /\ \A i \in 1..Len(e) : s[(n - 1) + i] = e[i]
  /\ n + Len(e) <= Len(s) => ~s[n + Len(e)].epoch

\* a is the log before record n of the file s.
Splits(g, s, n, a) ==
  /\ IsLog(a) /\ Len(a) = Len(g) + (n - 1)
  /\ \A i \in 1..Len(g) : a[i] = g[i]
  /\ \A i \in 1..n - 1 : a[Len(g) + i] = s[i]

TellsAt(g, s, n) == \E a, e : Splits(g, s, n, a) /\ RunOf(s, n, e) /\ Told(a, e)
FileTells(g, s) == \A n : RunStart(s, n) => TellsAt(g, s, n)

\* The book before it accepts the record, log being what is before it.
Fits(log, r) ==
  /\ r.type \in {Trade, Delta, SnapshotPointer}
  /\ r.type = Delta => /\ IsRecord(r)
                       /\ \/ r.level.size # 0
                          \/ \E l \in LevelsAfter(log, r.instrument, r.side) : l.price = r.level.price
  /\ r.type = SnapshotPointer => Stored(r.bids) /\ Stored(r.asks)
FileFits(g, s) == \A n, a : n \in 1..Len(s) /\ Splits(g, s, n, a) => Fits(a, s[n])

LEMMA NoneTells ==
  ASSUME NEW g, NEW r, ~r.epoch, NEW s, IsLog(s), Len(s) = 1, s[1] = r
  PROVE  FileTells(g, s)
BY DEF FileTells, RunStart

\* One more record that is of no epoch.
LEMMA RowTells ==
  ASSUME NEW g, NEW s, NEW r, NEW t, Longer(s, r, t), ~r.epoch, FileTells(g, s)
  PROVE  FileTells(g, t)
<1>1. PICK N \in Nat : /\ N = Len(s) /\ Len(t) = N + 1 /\ t[N + 1] = r
                       /\ \A j \in 1..N : t[j] = s[j]
  BY LogIs DEF Longer
<1>2. SUFFICES ASSUME NEW n, RunStart(t, n) PROVE TellsAt(g, t, n)
  BY DEF FileTells
<1>3. n \in 1..N /\ s[n] = t[n] /\ (n # 1 => n - 1 \in 1..N)
  BY <1>1, <1>2 DEF RunStart
<1>4. RunStart(s, n)
  <2>1. n # 1 => s[n - 1] = t[n - 1]
    BY <1>1, <1>3
  <2> QED BY <1>1, <1>2, <1>3, <2>1 DEF RunStart
<1>5. PICK a, e : Splits(g, s, n, a) /\ RunOf(s, n, e) /\ Told(a, e)
  BY <1>4 DEF FileTells, TellsAt
<1>6. Splits(g, t, n, a)
  <2>1. \A i \in 1..n - 1 : i \in 1..N
    BY <1>3
  <2> QED BY <1>1, <1>5, <2>1 DEF Splits
<1>7. RunOf(t, n, e)
  <2>1. PICK m \in Nat : m = Len(e) /\ IsLog(e)
    BY <1>5, LogIs DEF RunOf
  <2>2. /\ (n - 1) + m <= N
        /\ \A i \in 1..m : s[(n - 1) + i] = e[i]
        /\ n + m <= N => ~s[n + m].epoch
    BY <1>1, <1>5, <2>1 DEF RunOf
  <2>3. \A i \in 1..m : t[(n - 1) + i] = e[i]
    <3> TAKE i \in 1..m
    <3>1. (n - 1) + i \in 1..N
      BY <1>3, <2>2
    <3> QED BY <1>1, <2>2, <3>1
  <2>4. ASSUME n + m <= N + 1 PROVE ~t[n + m].epoch
    <3>1. CASE n + m = N + 1
      BY <1>1, <3>1
    <3>2. CASE n + m # N + 1
      <4>1. n + m \in 1..N
        BY <1>3, <2>4, <3>2
      <4> QED BY <1>1, <2>2, <4>1
    <3> QED BY <3>1, <3>2
  <2>5. (n - 1) + m <= N + 1
    BY <1>3, <2>2
  <2> QED BY <1>1, <2>1, <2>3, <2>4, <2>5 DEF RunOf
<1> QED BY <1>5, <1>6, <1>7 DEF TellsAt

\* An epoch after a file whose last record is of none.
LEMMA EpochTells ==
  ASSUME NEW g, NEW s, NEW log, NEW e, NEW t, IsLog(g), IsLog(s), Len(s) > 0, ~s[Len(s)].epoch,
         FileTells(g, s), Joined(g, s, log), Told(log, e), Joined(s, e, t)
  PROVE  FileTells(g, t)
<1>1. PICK G \in Nat, N \in Nat, M \in Nat :
        /\ G = Len(g) /\ N = Len(s) /\ M = Len(e) /\ N > 0 /\ Len(t) = N + M /\ Len(log) = G + N
  <2>1. IsLog(e)
    BY DEF Told
  <2>2. Len(g) \in Nat /\ Len(s) \in Nat /\ Len(e) \in Nat
    BY <2>1, LogIs
  <2>3. Len(t) = Len(s) + Len(e) /\ Len(log) = Len(g) + Len(s)
    BY DEF Joined
  <2> QED BY <2>2, <2>3
<1>2. (\A j \in 1..N : t[j] = s[j]) /\ (\A j \in 1..M : t[N + j] = e[j]) /\ ~s[N].epoch
  BY <1>1 DEF Joined
<1>3. SUFFICES ASSUME NEW n, RunStart(t, n) PROVE TellsAt(g, t, n)
  BY DEF FileTells
<1>4. n \in 1..N + M /\ t[n].epoch /\ (n = 1 \/ ~t[n - 1].epoch)
  BY <1>1, <1>3 DEF RunStart
<1>5. CASE n <= N
  <2>1. n \in 1..N /\ s[n] = t[n] /\ (n # 1 => s[n - 1] = t[n - 1])
    BY <1>2, <1>4, <1>5
  <2>2. RunStart(s, n)
    BY <1>1, <1>4, <2>1 DEF RunStart
  <2>3. PICK a, x : Splits(g, s, n, a) /\ RunOf(s, n, x) /\ Told(a, x)
    BY <2>2 DEF FileTells, TellsAt
  <2>4. Splits(g, t, n, a)
    <3>1. \A i \in 1..n - 1 : i \in 1..N
      BY <2>1
    <3> QED BY <1>2, <2>3, <3>1 DEF Splits
  <2>5. PICK m \in Nat : m = Len(x) /\ IsLog(x)
    BY <2>3, LogIs DEF RunOf
  <2>6. /\ (n - 1) + m <= N
        /\ \A i \in 1..m : s[(n - 1) + i] = x[i]
        /\ n + m <= N => ~s[n + m].epoch
    BY <1>1, <2>3, <2>5 DEF RunOf
  <2>7. n + m <= N
    <3>1. SUFFICES ASSUME n + m = N + 1 PROVE FALSE
      BY <2>1, <2>6
    <3>2. CASE m = 0
      BY <2>1, <3>1, <3>2
    <3>3. CASE m # 0
      <4>1. m \in 1..m /\ (n - 1) + m = N
        BY <2>1, <3>1, <3>3
      <4>2. s[N] = x[m]
        BY <2>6, <4>1
      <4>3. x[m].epoch = TRUE
        BY <2>3, <2>5, <4>1 DEF Told
      <4> QED BY <1>2, <4>2, <4>3
    <3> QED BY <3>2, <3>3
  <2>8. \A i \in 1..m : t[(n - 1) + i] = x[i]
    <3> TAKE i \in 1..m
    <3>1. (n - 1) + i \in 1..N
      BY <2>1, <2>6
    <3> QED BY <1>2, <2>6, <3>1
  <2>9. n + m \in 1..N /\ t[n + m] = s[n + m] /\ (n - 1) + m <= N + M
    BY <1>2, <2>1, <2>7
  <2>10. RunOf(t, n, x)
    BY <1>1, <2>5, <2>6, <2>7, <2>8, <2>9 DEF RunOf
  <2> QED BY <2>3, <2>4, <2>10 DEF TellsAt
<1>6. CASE n > N
  <2>1. n = N + 1
    <3>1. SUFFICES ASSUME n > N + 1 PROVE FALSE
      BY <1>4, <1>6
    <3>2. (n - 1) - N \in 1..M /\ N + ((n - 1) - N) = n - 1
      BY <1>4, <3>1
    <3>3. t[n - 1] = e[(n - 1) - N]
      BY <1>2, <3>2
    <3>4. e[(n - 1) - N].epoch = TRUE
      BY <1>1, <3>2 DEF Told
    <3> QED BY <1>4, <3>1, <3>3, <3>4
  <2>2. n - 1 = N
    BY <2>1
  <2>3. Splits(g, t, n, log)
    BY <1>1, <1>2, <2>2 DEF Splits, Joined
  <2>4. \A i \in 1..M : t[(n - 1) + i] = e[i]
    BY <1>2, <2>2
  <2>5. (n - 1) + M <= N + M /\ ~(n + M <= N + M)
    BY <2>1
  <2>6. RunOf(t, n, e)
    BY <1>1, <2>4, <2>5 DEF RunOf, Told
  <2> QED BY <2>3, <2>6 DEF TellsAt
<1> QED BY <1>4, <1>5, <1>6

\* The log with an epoch, if one is due, and a record.
LEMMA AppendLonger ==
  ASSUME NEW s, IsLog(s), NEW r
  PROVE  Longer(s, r, s \o <<r>>)
<1>1. PICK y, t : y = <<r>> /\ t = s \o y /\ IsLog(y) /\ Len(y) = 1 /\ y[1] = r
  BY OneLog
<1>2. Joined(s, y, t) /\ Len(s) \in Nat
  BY <1>1, JoinIs, LogIs
<1>3. 1 \in 1..1
  OBVIOUS
<1>4. Len(t) = Len(s) + 1 /\ t[Len(s) + 1] = r /\ IsLog(t) /\ \A j \in 1..Len(s) : t[j] = s[j]
  BY <1>1, <1>2, <1>3 DEF Joined
<1>5. Longer(s, r, t)
  BY <1>4 DEF Longer
<1> QED BY <1>1, <1>5

LEMMA KeptGrown ==
  ASSUME NEW log, NEW v, Kept(log, v), NEW e, IsLog(e), e = <<>> \/ Told(log, e), NEW r, IsRecord(r),
         CanApply(bookOf(v, r.instrument), r), NEW u,
         u.books = IF r.type = Trade THEN v.books
                   ELSE With(v.books, r.instrument, Apply(bookOf(v, r.instrument), r))
  PROVE  Kept((log \o e) \o <<r>>, u)
<1>1. PICK x : x = log \o e
  OBVIOUS
<1>2. IsLog(log)
  BY DEF Kept
<1>3. Kept(x, v)
  <2>1. CASE e = <<>>
    BY <1>1, <1>2, <2>1, JoinNone
  <2>2. CASE Told(log, e)
    BY <1>1, <1>2, <2>2, JoinIs, KeptEpoch
  <2> QED BY <2>1, <2>2
<1>4. PICK k : k = x \o <<r>> /\ Longer(x, r, k)
  BY <1>3, AppendLonger DEF Kept
<1>5. Kept(k, u)
  BY <1>3, <1>4, KeptRow
<1> QED BY <1>1, <1>4, <1>5

\* The file of the venue's last record, with the epoch and then with the record too.
LEMMA LastFileTells ==
  ASSUME NEW g, NEW s, NEW log, NEW e, IsLog(g), IsLog(s), Len(s) > 0, ~s[Len(s)].epoch,
         FileTells(g, s), log = g \o s, IsLog(e), e = <<>> \/ Told(log, e), NEW r, ~r.epoch
  PROVE  FileTells(g, s \o e) /\ FileTells(g, (s \o e) \o <<r>>)
<1>1. PICK t : t = s \o e
  OBVIOUS
<1>2. FileTells(g, t) /\ IsLog(t)
  <2>1. CASE e = <<>>
    BY <1>1, <2>1, JoinNone
  <2>2. CASE Told(log, e)
    <3>1. Joined(g, s, log) /\ Joined(s, e, t)
      BY <1>1, JoinIs
    <3> QED BY <2>2, <3>1, EpochTells DEF Joined
  <2> QED BY <2>1, <2>2
<1>3. PICK w : w = t \o <<r>> /\ Longer(t, r, w)
  BY <1>2, AppendLonger
<1>4. FileTells(g, w)
  BY <1>2, <1>3, RowTells
<1> QED BY <1>1, <1>2, <1>3, <1>4

\* One more record, k being the log with it and x the log before it.
LEMMA RowFits ==
  ASSUME NEW g, NEW s, NEW r, NEW t, Longer(s, r, t), IsLog(g), FileFits(g, s), NEW k, Joined(g, t, k),
         NEW x, Longer(x, r, k), Fits(x, r)
  PROVE  FileFits(g, t)
<1>1. PICK N \in Nat : /\ N = Len(s) /\ Len(t) = N + 1 /\ t[N + 1] = r
                       /\ \A j \in 1..N : t[j] = s[j]
  BY LogIs DEF Longer
<1>2. PICK G \in Nat : /\ G = Len(g) /\ Len(k) = G + N + 1 /\ \A i \in 1..G : k[i] = g[i]
                       /\ \A i \in 1..N + 1 : k[G + i] = t[i]
  <2>1. PICK G \in Nat : G = Len(g)
    BY LogIs
  <2>2. Len(k) = G + Len(t) /\ \A i \in 1..G : k[i] = g[i]
    BY <2>1 DEF Joined
  <2>3. \A i \in 1..Len(t) : k[G + i] = t[i]
    BY <2>1 DEF Joined
  <2>4. Len(k) = G + N + 1 /\ \A i \in 1..N + 1 : k[G + i] = t[i]
    BY <1>1, <2>2, <2>3
  <2> QED BY <2>1, <2>2, <2>4
<1>3. Len(x) = G + N /\ IsLog(x) /\ \A j \in 1..G + N : x[j] = k[j]
  <2>1. Len(x) \in Nat /\ Len(k) = Len(x) + 1
    BY LogIs DEF Longer
  <2>2. Len(x) = G + N
    BY <1>2, <2>1
  <2> QED BY <2>2 DEF Longer
<1>4. SUFFICES ASSUME NEW n \in 1..N + 1, NEW a, Splits(g, t, n, a) PROVE Fits(a, t[n])
  BY <1>1 DEF FileFits
<1>5. CASE n \in 1..N
  <2>1. \A i \in 1..n - 1 : i \in 1..N
    BY <1>5
  <2>2. Splits(g, s, n, a)
    BY <1>1, <1>4, <2>1 DEF Splits
  <2>3. Fits(a, s[n])
    BY <1>1, <1>5, <2>2 DEF FileFits
  <2> QED BY <1>1, <1>5, <2>3
<1>6. CASE n = N + 1
  <2>1. n - 1 = N
    BY <1>6
  <2>2. /\ IsLog(a) /\ Len(a) = G + N /\ \A i \in 1..G : a[i] = g[i]
        /\ \A i \in 1..N : a[G + i] = t[i]
    BY <1>2, <1>4, <2>1 DEF Splits
  <2>3. ASSUME NEW j \in 1..G + N PROVE a[j] = x[j]
    <3>1. CASE j <= G
      BY <1>2, <1>3, <2>2, <3>1
    <3>2. CASE j > G
      <4>1. j - G \in 1..N /\ j - G \in 1..N + 1 /\ G + (j - G) = j
        BY <3>2
      <4>2. a[G + (j - G)] = t[j - G] /\ k[G + (j - G)] = t[j - G]
        BY <1>2, <2>2, <4>1
      <4> QED BY <1>3, <4>1, <4>2
    <3> QED BY <3>1, <3>2
  <2>4. a = x
    BY <1>3, <2>2, <2>3, SameLog
  <2> QED BY <1>1, <1>6, <2>4
<1> QED BY <1>5, <1>6

LEMMA EpochRecordsFit ==
  ASSUME NEW g, NEW s, NEW log, NEW e, NEW t, IsLog(s), FileFits(g, s), Told(log, e), Joined(s, e, t)
  PROVE  FileFits(g, t)
<1>1. IsLog(e)
  BY DEF Told
<1>2. PICK N \in Nat, M \in Nat : N = Len(s) /\ M = Len(e)
  BY <1>1, LogIs
<1>3. Len(t) = N + M /\ (\A j \in 1..N : t[j] = s[j]) /\ (\A j \in 1..M : t[N + j] = e[j])
  BY <1>2 DEF Joined
<1>4. ASSUME NEW n \in 1..N, NEW a, Splits(g, t, n, a) PROVE Fits(a, t[n])
  <2>1. \A i \in 1..n - 1 : i \in 1..N
    OBVIOUS
  <2>2. Splits(g, s, n, a)
    BY <1>3, <1>4, <2>1 DEF Splits
  <2>3. Fits(a, s[n])
    BY <1>2, <2>2 DEF FileFits
  <2> QED BY <1>3, <2>3
<1>5. ASSUME NEW a, NEW j \in 1..M PROVE Fits(a, t[N + j])
  <2>1. t[N + j] = e[j]
    BY <1>3
  <2>2. PICK w : w = e[j]
    OBVIOUS
  <2>3. w.type = SnapshotPointer /\ Stored(w.bids) /\ Stored(w.asks)
    BY <1>2, <2>2 DEF Told, Retells
  <2>4. SnapshotPointer # Delta
    BY DEF SnapshotPointer, Delta
  <2>5. Fits(a, w)
    BY <2>3, <2>4 DEF Fits
  <2> QED BY <2>1, <2>2, <2>5
<1>6. ASSUME NEW n \in 1..Len(t), NEW a, Splits(g, t, n, a) PROVE Fits(a, t[n])
  <2>1. n \in 1..N \/ (n - N \in 1..M /\ N + (n - N) = n)
    BY <1>3
  <2>2. CASE n \in 1..N
    BY <1>4, <1>6, <2>2
  <2>3. CASE n - N \in 1..M /\ N + (n - N) = n
    <3>1. Fits(a, t[N + (n - N)])
      BY <1>5, <2>3
    <3> QED BY <2>3, <3>1
  <2> QED BY <2>1, <2>2, <2>3
<1> QED BY <1>6 DEF FileFits

\* What the converter applied to the book fits the log.
LEMMA AppliedFits ==
  ASSUME NEW log, NEW r, NEW b, Holds(b, log, r.instrument), IsRecord(r),
         r.type = Trade \/ CanApply(b, r)
  PROVE  Fits(log, r)
<1>1. r.type \in {Trade, Delta, SnapshotPointer} /\ Trade # Delta /\ Trade # SnapshotPointer
      /\ Delta # SnapshotPointer /\ SideBid # SideAsk
  BY DEF IsRecord, Trade, Delta, SnapshotPointer, SideBid, SideAsk
<1>2. ASSUME r.type = Delta
      PROVE  r.level.size # 0 \/ \E l \in LevelsAfter(log, r.instrument, r.side) : l.price = r.level.price
  <2>1. PICK s : s = IF r.side = SideAsk THEN b.asks ELSE b.bids
    OBVIOUS
  <2>2. CanUpsert(s, r.level)
    BY <1>1, <1>2, <2>1 DEF CanApply
  <2>3. r.side \in {SideBid, SideAsk}
    BY <1>2 DEF IsRecord
  <2>4. HoldsSide(s, log, r.instrument, r.side)
    BY <1>1, <2>1, <2>3 DEF Holds
  <2>5. SUFFICES ASSUME Found(s, r.level.price)
                 PROVE  \E l \in LevelsAfter(log, r.instrument, r.side) : l.price = r.level.price
    BY <2>2 DEF CanUpsert
  <2>6. r.level.price \in Prices
    BY <1>2 DEF IsRecord
  <2>7. Place(s, r.level.price, search(s, r.level.price))
    <3>1. Ladder(s) /\ r.level.price \in Int /\ Prices \subseteq Int
      BY <2>4, <2>6, PricesAreNumbers DEF HoldsSide
    <3>2. PICK p : Place(s, r.level.price, p)
      BY <3>1, PlaceExists
    <3>3. search(s, r.level.price) = p
      BY <3>1, <3>2, SearchFinds
    <3> QED BY <3>2, <3>3
  <2>8. PICK i \in 1..Len(s) : s[i].price = r.level.price
    <3>1. PICK i : i = search(s, r.level.price)
      OBVIOUS
    <3>2. i \in 1..Len(s) + 1
      BY <2>7, <3>1 DEF Place
    <3>3. i <= Len(s) /\ s[i].price = r.level.price
      BY <2>5, <3>1 DEF Found
    <3>4. Len(s) \in Nat
      BY <2>4, LogIs DEF HoldsSide, Ladder
    <3> QED BY <3>2, <3>3, <3>4
  <2>9. s[i] \in LevelsAfter(log, r.instrument, r.side)
    <3>1. s[i] \in Range(s)
      BY <2>4, LogIs DEF HoldsSide, Ladder, Range
    <3> QED BY <2>4, <3>1 DEF HoldsSide
  <2> QED BY <2>8, <2>9
<1>3. ASSUME r.type = SnapshotPointer PROVE Stored(r.bids) /\ Stored(r.asks)
  <2>1. CanReset(r.bids) /\ CanReset(r.asks)
    BY <1>1, <1>3 DEF CanApply
  <2>2. Levels(r.bids) /\ Levels(r.asks)
    BY <1>3 DEF IsRecord
  <2> QED BY <2>1, <2>2 DEF Stored
<1> QED BY <1>1, <1>2, <1>3 DEF Fits

LEMMA NoneFits ==
  ASSUME NEW g
  PROVE  FileFits(g, <<>>)
<1>1. PICK s : s = <<>> /\ Len(s) = 0
  BY OneLog
<1>2. \A n : ~(n \in 1..0)
  OBVIOUS
<1>3. FileFits(g, s)
  BY <1>1, <1>2 DEF FileFits
<1> QED BY <1>1, <1>3

\* The file with the epoch.
LEMMA LastFileFits ==
  ASSUME NEW g, NEW s, NEW log, NEW e, IsLog(s), FileFits(g, s), IsLog(e), e = <<>> \/ Told(log, e)
  PROVE  FileFits(g, s \o e)
<1>1. CASE e = <<>>
  BY <1>1, JoinNone
<1>2. CASE Told(log, e)
  BY <1>2, JoinIs, EpochRecordsFit
<1> QED BY <1>1, <1>2

\* The file with the record too, x being the log before it.
LEMMA GrownFits ==
  ASSUME NEW b, IsLog(b), NEW s, IsLog(s), FileFits(b, s), NEW x, IsLog(x), NEW r, Fits(x, r),
         NEW k, k = b \o (s \o <<r>>), k = x \o <<r>>
  PROVE  FileFits(b, s \o <<r>>)
<1>1. PICK t : t = s \o <<r>> /\ Longer(s, r, t)
  BY AppendLonger
<1>2. Longer(x, r, k)
  BY AppendLonger
<1>3. Joined(b, t, k)
  <2>1. IsLog(t)
    BY <1>1 DEF Longer
  <2>2. k = b \o t
    BY <1>1
  <2> QED BY <2>1, <2>2, JoinIs
<1>4. FileFits(b, t)
  BY <1>1, <1>2, <1>3, RowFits
<1> QED BY <1>1, <1>4

-----------------------------------------------------------------------------
(***************************************************************************)
(* What the files of a venue tell, row after row.                          *)
(***************************************************************************)

\* The books of v are what its files add up to, each file tells the books, and the last
\* record is of no epoch.
DayTells(f, p, id, d) == FileTells(f[d - 1], FileOf(p, id, d))
DayFits(f, p, id, d) == FileFits(f[d - 1], FileOf(p, id, d))
Recounts(f, p, id, v, to) ==
  Kept(f[to], v) /\ \A d \in FirstDay..to : DayTells(f, p, id, d) /\ DayFits(f, p, id, d)
EndsInRow(s) == Len(s) > 0 /\ ~s[Len(s)].epoch
Tells(p, id, v) ==
  /\ \A f : Sums(f, p, id, v.last[2]) => Recounts(f, p, id, v, v.last[2])
  /\ EndsInRow(FileOf(p, id, v.last[2]))

Telling(p, vs) == \A id \in DOMAIN vs : Tells(p, id, vs[id])
Recorded == Converting => Telling(parts, venues)

\* The same files add up to the same logs.
LEMMA SumsSame ==
  ASSUME NEW f, NEW g, NEW p, NEW q, NEW id, NEW a \in Int, NEW b \in Int, NEW m \in Int,
         FirstDay \in Int, FirstDay - 1 <= m, m <= a, m <= b, Sums(f, p, id, a), Sums(g, q, id, b),
         \A d \in Int : d <= m => FileOf(p, id, d) = FileOf(q, id, d)
  PROVE  \A d \in FirstDay - 1..m : f[d] = g[d]
<1> DEFINE c == FirstDay - 1
           T == {d \in c..m : f[d] = g[d]}
<1>1. c \in T
  <2>1. c \in c..m /\ c \in FirstDay - 1..a /\ c \in FirstDay - 1..b /\ c < FirstDay
    OBVIOUS
  <2>2. f[c] = <<>> /\ g[c] = <<>>
    BY <2>1 DEF Sums
  <2> QED BY <2>1, <2>2
<1>2. ASSUME NEW d \in c + 1..m, d - 1 \in T PROVE d \in T
  <2>1. d \in c..m /\ d \in FirstDay - 1..a /\ d \in FirstDay - 1..b /\ ~(d < FirstDay)
        /\ d \in Int /\ d <= m
    OBVIOUS
  <2>2. f[d] = f[d - 1] \o FileOf(p, id, d) /\ g[d] = g[d - 1] \o FileOf(q, id, d)
    BY <2>1 DEF Sums
  <2>3. f[d - 1] = g[d - 1] /\ FileOf(p, id, d) = FileOf(q, id, d)
    BY <1>2, <2>1
  <2>4. f[d] = g[d]
    BY <2>2, <2>3
  <2> QED BY <2>1, <2>4
<1>3. c \in Int
  OBVIOUS
<1>4. \A d \in c..m : d \in T
  <2> HIDE DEF T, c
  <2> QED BY <1>1, <1>2, <1>3, DayInduction
<1> QED BY <1>4

\* A file without records, or with one that is of no epoch.
LEMMA ShortTells ==
  ASSUME NEW g, NEW r, ~r.epoch
  PROVE  FileTells(g, <<>>) /\ FileTells(g, <<r>>) /\ EndsInRow(<<r>>)
<1>1. PICK s, t : s = <<>> /\ t = <<r>> /\ IsLog(t) /\ Len(t) = 1 /\ t[1] = r /\ Len(s) = 0
  BY OneLog
<1>2. FileTells(g, t) /\ EndsInRow(t)
  BY <1>1, NoneTells DEF EndsInRow
<1>3. FileTells(g, s)
  <2>1. \A n : ~(n \in 1..0)
    OBVIOUS
  <2> QED BY <1>1, <2>1 DEF FileTells, RunStart
<1> QED BY <1>1, <1>2, <1>3

\* The days before the last one a row changes.
LEMMA EarlierSums ==
  ASSUME NEW p, NEW q, NEW id, NEW last \in Int, NEW day \in Int, NEW e, NEW r,
         Extended(p, q, id, last, day, e, r), NEW f, Sums(f, p, id, last), NEW g, Sums(g, q, id, day)
  PROVE  /\ \A n \in FirstDay - 1..last - 1 : f[n] = g[n]
         /\ \A n \in FirstDay - 1..last : IsLog(f[n])
         /\ \A n \in FirstDay - 1..day : IsLog(g[n])
<1>1. /\ FirstDay \in Int /\ FirstDay <= last /\ last <= day /\ IsLog(e)
      /\ \A n \in Int : IsLog(FileOf(p, id, n)) /\ (n > last => FileOf(p, id, n) = <<>>)
      /\ Added(p, q, id, last, day, e, r)
  BY DEF Extended
<1>2. \A n \in FirstDay - 1..last - 1 : f[n] = g[n]
  <2>1. \A n \in Int : n <= last - 1 => FileOf(p, id, n) = FileOf(q, id, n)
    <3> SUFFICES ASSUME NEW n \in Int, n <= last - 1 PROVE FileOf(p, id, n) = FileOf(q, id, n)
      OBVIOUS
    <3>1. n # last /\ n # day
      BY <1>1
    <3> QED BY <1>1, <3>1 DEF Added
  <2>2. PICK m \in Int : m = last - 1
    OBVIOUS
  <2>3. FirstDay \in Int /\ FirstDay - 1 <= m /\ m <= last /\ m <= day
    BY <1>1, <2>2
  <2>4. \A n \in Int : n <= m => FileOf(p, id, n) = FileOf(q, id, n)
    BY <2>1, <2>2
  <2>5. \A n \in FirstDay - 1..m : f[n] = g[n]
    BY <2>3, <2>4, SumsSame
  <2> QED BY <2>2, <2>5
<1>3. ASSUME NEW n \in Int PROVE IsLog(FileOf(q, id, n))
  <2>1. IsLog(FileOf(p, id, n)) /\ IsLog(FileOf(p, id, last) \o e) /\ IsLog(<<r>>)
    BY <1>1, JoinIs, OneLog DEF Joined
  <2>2. IsLog((FileOf(p, id, last) \o e) \o <<r>>)
    BY <2>1, JoinIs DEF Joined
  <2> QED BY <1>1, <2>1, <2>2 DEF Added
<1>4. \A n \in FirstDay - 1..last : IsLog(f[n])
  BY <1>1, SumsAreLogs
<1>5. \A n \in FirstDay - 1..day : IsLog(g[n])
  BY <1>1, <1>3, SumsAreLogs
<1> QED BY <1>2, <1>4, <1>5

\* The files of the venue after a row, day by day.
LEMMA LaterTells ==
  ASSUME NEW p, NEW q, NEW id, NEW last \in Int, NEW day \in Int, NEW e, NEW r, ~r.epoch,
         Extended(p, q, id, last, day, e, r), NEW f, Sums(f, p, id, last),
         \A d \in FirstDay..last : DayTells(f, p, id, d),
         EndsInRow(FileOf(p, id, last)), e = <<>> \/ Told(f[last], e),
         NEW g, Sums(g, q, id, day), NEW d \in FirstDay..day
  PROVE  DayTells(g, q, id, d)
<1>1. /\ FirstDay \in Int /\ FirstDay <= last /\ last <= day /\ IsLog(e)
      /\ \A n \in Int : IsLog(FileOf(p, id, n)) /\ (n > last => FileOf(p, id, n) = <<>>)
      /\ Added(p, q, id, last, day, e, r)
  BY DEF Extended
<1>2. /\ \A n \in FirstDay - 1..last - 1 : f[n] = g[n]
      /\ \A n \in FirstDay - 1..last : IsLog(f[n])
  BY EarlierSums
<1>3. d \in Int /\ FirstDay <= d /\ d <= day
  BY <1>1
<1>4. CASE d < last
  <2>1. f[d - 1] = g[d - 1] /\ d \in FirstDay..last
    BY <1>1, <1>2, <1>3, <1>4
  <2>2. FileOf(q, id, d) = FileOf(p, id, d)
    BY <1>1, <1>3, <1>4 DEF Added
  <2> QED BY <2>1, <2>2 DEF DayTells
<1>5. CASE d = last
  <2>1. PICK s, b, log : s = FileOf(p, id, last) /\ b = f[last - 1] /\ log = f[last]
    OBVIOUS
  <2>2. g[d - 1] = b /\ last \in FirstDay..last
    BY <1>1, <1>2, <1>5, <2>1
  <2>3. FileTells(b, s)
    BY <2>1, <2>2 DEF DayTells
  <2>4. log = b \o s
    <3>1. last \in FirstDay - 1..last /\ ~(last < FirstDay)
      BY <1>1
    <3> QED BY <2>1, <3>1 DEF Sums
  <2>5. IsLog(b) /\ IsLog(s)
    <3>1. IsLog(FileOf(p, id, last))
      BY <1>1
    <3>2. last - 1 \in FirstDay - 1..last
      BY <1>1
    <3> QED BY <1>2, <2>1, <3>1, <3>2
  <2>6. FileTells(b, s \o e) /\ FileTells(b, (s \o e) \o <<r>>)
    BY <1>1, <2>1, <2>3, <2>4, <2>5, LastFileTells DEF EndsInRow
  <2>7. FileOf(q, id, d) = s \o e \/ FileOf(q, id, d) = (s \o e) \o <<r>>
    BY <1>1, <1>5, <2>1 DEF Added
  <2> QED BY <2>2, <2>6, <2>7 DEF DayTells
<1>6. CASE d > last
  <2>1. CASE d = day
    <3>1. FileOf(q, id, d) = <<r>>
      BY <1>1, <1>3, <1>6, <2>1 DEF Added
    <3> QED BY <3>1, ShortTells DEF DayTells
  <2>2. CASE d # day
    <3>1. FileOf(q, id, d) = <<>>
      BY <1>1, <1>3, <1>6, <2>2 DEF Added
    <3> QED BY <3>1, ShortTells DEF DayTells
  <2> QED BY <2>1, <2>2
<1> QED BY <1>1, <1>3, <1>4, <1>5, <1>6

\* The records of the files after a row.
LEMMA LaterFits ==
  ASSUME NEW p, NEW q, NEW id, NEW last \in Int, NEW day \in Int, NEW e, NEW r,
         Extended(p, q, id, last, day, e, r), NEW f, Sums(f, p, id, last),
         \A d \in FirstDay..last : DayFits(f, p, id, d), e = <<>> \/ Told(f[last], e),
         NEW g, Sums(g, q, id, day), NEW x, IsLog(x), Fits(x, r), g[day] = x \o <<r>>,
         NEW d \in FirstDay..day
  PROVE  DayFits(g, q, id, d)
<1>1. /\ FirstDay \in Int /\ FirstDay <= last /\ last <= day /\ IsLog(e)
      /\ \A n \in Int : IsLog(FileOf(p, id, n)) /\ (n > last => FileOf(p, id, n) = <<>>)
      /\ Added(p, q, id, last, day, e, r)
  BY DEF Extended
<1>2. /\ \A n \in FirstDay - 1..last - 1 : f[n] = g[n]
      /\ \A n \in FirstDay - 1..day : IsLog(g[n])
  BY EarlierSums
<1>3. d \in Int /\ FirstDay <= d /\ d <= day
  BY <1>1
<1>4. ASSUME d <= last
      PROVE  FileFits(g[d - 1], FileOf(p, id, d)) /\ (d = last => FileFits(g[d - 1], FileOf(p, id, d) \o e))
  <2>1. d \in FirstDay..last /\ d - 1 \in FirstDay - 1..last - 1
    BY <1>1, <1>3, <1>4
  <2>2. FileFits(g[d - 1], FileOf(p, id, d))
    BY <1>2, <2>1 DEF DayFits
  <2>3. FileFits(g[d - 1], FileOf(p, id, d) \o e)
    BY <1>1, <1>3, <2>2, LastFileFits
  <2> QED BY <2>2, <2>3
<1>5. ASSUME d = day, NEW s, IsLog(s), FileFits(g[d - 1], s), FileOf(q, id, d) = s \o <<r>>
      PROVE  FileFits(g[d - 1], FileOf(q, id, d))
  <2>1. day \in FirstDay - 1..day /\ ~(day < FirstDay) /\ day - 1 \in FirstDay - 1..day
    BY <1>1, <1>3
  <2>2. g[day] = g[day - 1] \o FileOf(q, id, day)
    BY <2>1 DEF Sums
  <2>3. PICK b : b = g[day - 1] /\ IsLog(b)
    BY <1>2, <2>1
  <2>4. PICK k : k = g[day]
    OBVIOUS
  <2>5. k = b \o (s \o <<r>>) /\ k = x \o <<r>>
    BY <1>5, <2>2, <2>3, <2>4
  <2>6. FileFits(b, s)
    BY <1>5, <2>3
  <2>7. FileFits(b, s \o <<r>>)
    BY <1>5, <2>3, <2>5, <2>6, GrownFits
  <2> QED BY <1>5, <2>3, <2>7
<1>6. CASE d # day /\ d < last
  <2>1. FileOf(q, id, d) = FileOf(p, id, d)
    BY <1>3, <1>6 DEF Extended, Added
  <2> QED BY <1>4, <1>6, <2>1 DEF DayFits
<1>7. CASE d # day /\ d = last
  <2>1. FileOf(q, id, d) = FileOf(p, id, d) \o e
    BY <1>7 DEF Extended, Added
  <2> QED BY <1>4, <1>7, <2>1 DEF DayFits
<1>8. CASE d # day /\ d > last
  <2>1. FileOf(q, id, d) = <<>>
    BY <1>1, <1>3, <1>8 DEF Added
  <2> QED BY <2>1, NoneFits DEF DayFits
<1>9. CASE d = day /\ d = last
  <2>1. FileOf(q, id, d) = (FileOf(p, id, d) \o e) \o <<r>>
    BY <1>9 DEF Extended, Added
  <2>2. PICK s : s = FileOf(p, id, d) \o e /\ IsLog(s)
    BY <1>1, <1>3, JoinIs DEF Joined
  <2>3. FileFits(g[d - 1], s)
    BY <1>4, <1>9, <2>2
  <2> QED BY <1>5, <1>9, <2>1, <2>2, <2>3 DEF DayFits
<1>10. CASE d = day /\ d > last
  <2>1. FileOf(q, id, d) = <<r>>
    BY <1>10 DEF Extended, Added
  <2>2. PICK s : s = <<>> /\ IsLog(s) /\ FileFits(g[d - 1], s)
    BY NoneFits, OneLog
  <2>3. s \o <<r>> = <<r>>
    BY <2>2, OneLog, JoinNone
  <2> QED BY <1>5, <1>10, <2>1, <2>2, <2>3 DEF DayFits
<1>11. (d # day /\ d < last) \/ d = last \/ d > last
  BY <1>1, <1>3
<1> QED BY <1>6, <1>7, <1>8, <1>9, <1>10, <1>11

LEMMA LaterEnds ==
  ASSUME NEW p, NEW q, NEW id, NEW last \in Int, NEW day \in Int, NEW e, NEW r, ~r.epoch,
         Extended(p, q, id, last, day, e, r)
  PROVE  EndsInRow(FileOf(q, id, day))
<1>1. CASE last # day
  BY <1>1, ShortTells DEF Extended, Added
<1>2. CASE last = day
  <2>1. PICK s : s = FileOf(p, id, last) \o e /\ IsLog(s)
    BY JoinIs DEF Extended, Joined
  <2>2. PICK t : t = s \o <<r>> /\ Longer(s, r, t)
    BY <2>1, AppendLonger
  <2>3. FileOf(q, id, day) = t
    BY <1>2, <2>1, <2>2, Zenon DEF Extended, Added
  <2>4. Len(s) \in Nat /\ Len(t) = Len(s) + 1 /\ t[Len(t)] = r
    BY <2>1, <2>2, LogIs DEF Longer
  <2> QED BY <2>3, <2>4 DEF EndsInRow
<1> QED BY <1>1, <1>2

\* A row of a venue that has records.
LEMMA LaterBooks ==
  ASSUME Keyed, Filed, Dated, pc = "reading", Tracked(parts, venues), Telling(parts, venues),
         NEW row \in Rows, row.venue \in DOMAIN venues, NEW v, v = venues[row.venue],
         row.ts >= v.lastTs, Converts(row), NEW u, NEW r, r = recordOf(row), NEW key,
         key = PartitionOf(row.venue, row.ts), NEW x,
         x = IF epochDue(v, row) THEN afterEpoch(v) ELSE v,
         CanApply(bookOf(x, r.instrument), r), u = advance(applyToBook(x, r), r, key)
  PROVE  Tells(Appended(row), row.venue, u)
<1>1. PICK id, q, e : id = row.venue /\ q = Appended(row) /\ e = Released(v, row)
  OBVIOUS
<1>2. VenueOf(id, v) /\ v.seen = TRUE /\ Tells(parts, id, v)
  BY <1>1 DEF Tracked, Telling
<1>3. IsRecord(r)
  BY RecordIs
<1>4. ~r.epoch
  BY <1>3 DEF IsRecord
<1>5. PICK last \in Int, day \in Int :
        v.last = <<id, last>> /\ key = <<id, day>> /\ Extended(parts, q, id, last, day, e, r)
  BY <1>1, LaterFiles
<1>6. IsLog(e)
  BY <1>5 DEF Extended
<1>7. DOMAIN v = VenueFields /\ IsFiniteSet(DOMAIN v.books)
  BY <1>2 DEF VenueOf
<1>8. DOMAIN x = VenueFields /\ x.books = v.books
  <2>1. CASE epochDue(v, row)
    BY <1>7, <2>1 DEF afterEpoch, VenueFields
  <2>2. CASE ~epochDue(v, row)
    BY <1>7, <2>2
  <2> QED BY <2>1, <2>2
<1>9. Advanced(x, u, r, key) /\ BookedIn(x, u, r)
  BY <1>4, <1>8, AdvanceIs, Zenon
<1>10. u.last = key
  BY <1>9, Zenon DEF Advanced
<1>11. bookOf(x, r.instrument) = bookOf(v, r.instrument)
  BY <1>8, Zenon DEF bookOf
<1>12. u.books = IF r.type = Trade THEN v.books
                 ELSE With(v.books, r.instrument, Apply(bookOf(v, r.instrument), r))
  BY <1>8, <1>9, <1>11, Zenon DEF BookedIn
<1>13. CanApply(bookOf(v, r.instrument), r)
  BY <1>11, Zenon
<1>14. ASSUME NEW g, Sums(g, q, id, day) PROVE Recounts(g, q, id, u, day)
  <2>1. PICK f : LogsTo(f, parts, id, last, e, r, g[day])
    BY <1>5, <1>14, LaterLog
  <2>2. Sums(f, parts, id, last) /\ g[day] = (f[last] \o e) \o <<r>>
    BY <2>1, Zenon DEF LogsTo
  <2>3. Recounts(f, parts, id, v, last) /\ EndsInRow(FileOf(parts, id, last))
    BY <1>2, <1>5, <2>2 DEF Tells
  <2>4. Kept(f[last], v)
        /\ \A d \in FirstDay..last : DayTells(f, parts, id, d) /\ DayFits(f, parts, id, d)
    BY <2>3 DEF Recounts
  <2>5. e = <<>> \/ Told(f[last], e)
    <3>1. Told(f[last], epoch(v))
      BY <1>7, <2>4, EpochTold
    <3> QED BY <1>1, <3>1 DEF Released
  <2>6. Kept(g[day], u)
    <3>1. Kept((f[last] \o e) \o <<r>>, u)
      BY <1>3, <1>6, <1>12, <1>13, <2>4, <2>5, KeptGrown
    <3> QED BY <2>2, <3>1, Zenon
  <2>7. \A d \in FirstDay..day : DayTells(g, q, id, d)
    BY <1>4, <1>5, <1>14, <2>2, <2>3, <2>4, <2>5, LaterTells
  <2>8. PICK y : y = f[last] \o e /\ IsLog(y) /\ Fits(y, r)
    <3>1. PICK log : log = f[last] /\ Kept(log, v)
      BY <2>4
    <3>2. PICK y : y = log \o e /\ IsLog(y) /\ Kept(y, v)
      <4>1. CASE e = <<>>
        BY <3>1, <4>1, JoinNone DEF Kept
      <4>2. CASE Told(log, e)
        <5>1. IsLog(log)
          BY <3>1 DEF Kept
        <5>2. Joined(log, e, log \o e)
          BY <1>6, <5>1, JoinIs
        <5> QED BY <3>1, <4>2, <5>2, KeptEpoch DEF Joined
      <4> QED BY <2>5, <3>1, <4>1, <4>2
    <3>3. Fits(y, r)
      BY <1>3, <1>13, <3>2, BookHolds, AppliedFits
    <3> QED BY <3>1, <3>2, <3>3
  <2>9. g[day] = y \o <<r>>
    BY <2>2, <2>8
  <2>10. \A d \in FirstDay..day : DayFits(g, q, id, d)
    BY <1>5, <1>14, <2>2, <2>4, <2>5, <2>8, <2>9, LaterFits
  <2> QED BY <2>6, <2>7, <2>10 DEF Recounts
<1>15. EndsInRow(FileOf(q, id, day))
  BY <1>4, <1>5, LaterEnds
<1>16. u.last[2] = day
  BY <1>5, <1>10
<1> QED BY <1>1, <1>14, <1>15, <1>16 DEF Tells

\* The first row of a venue.
LEMMA FirstBooks ==
  ASSUME Keyed, Filed, Dated, pc = "reading", Tracked(parts, venues),
         NEW row \in Rows, row.venue \notin DOMAIN venues, Converts(row), NEW v, v = NewVenue,
         NEW u, NEW r, r = recordOf(row), NEW key, key = PartitionOf(row.venue, row.ts),
         CanApply(bookOf(v, r.instrument), r), u = advance(applyToBook(v, r), r, key)
  PROVE  Tells(Appended(row), row.venue, u)
<1>1. PICK id, q : id = row.venue /\ q = Appended(row)
  OBVIOUS
<1>2. IsRecord(r)
  BY RecordIs
<1>3. ~r.epoch
  BY <1>2 DEF IsRecord
<1>4. PICK day \in Int : key = <<id, day>> /\ Begun(q, id, day, r)
  BY <1>1, FirstFile
<1>5. DOMAIN v = VenueFields /\ v.books = Empty
  BY DEF NewVenue, VenueFields
<1>6. Advanced(v, u, r, key) /\ BookedIn(v, u, r)
  BY <1>3, <1>5, AdvanceIs, Zenon
<1>7. u.last = key
  BY <1>6, Zenon DEF Advanced
<1>8. PICK none : none = <<>> /\ IsLog(none) /\ Len(none) = 0
  BY OneLog
<1>9. Kept(none, v)
  <2>1. DOMAIN none = {}
    BY <1>8, NoLog
  <2>2. Known(none) = {}
    BY <2>1 DEF Known
  <2>3. DOMAIN v.books = {}
    BY <1>5 DEF Empty
  <2> QED BY <1>8, <2>2, <2>3 DEF Kept
<1>10. Kept(<<r>>, u)
  <2>1. Kept((none \o none) \o <<r>>, u)
    <3>1. u.books = IF r.type = Trade THEN v.books
                    ELSE With(v.books, r.instrument, Apply(bookOf(v, r.instrument), r))
      BY <1>6, Zenon DEF BookedIn
    <3> QED BY <1>2, <1>8, <1>9, <3>1, KeptGrown
  <2>2. IsLog(<<r>>) /\ none \o none = <<>> /\ <<>> \o <<r>> = <<r>>
    BY <1>8, OneLog, JoinNone
  <2> QED BY <2>1, <2>2, Zenon
<1>11. ASSUME NEW g, Sums(g, q, id, day) PROVE Recounts(g, q, id, u, day)
  <2>1. g[day] = <<r>>
    BY <1>4, <1>11, FirstLog
  <2>2. ASSUME NEW d \in FirstDay..day PROVE DayTells(g, q, id, d)
    <3>1. d \in Int
      BY <1>4 DEF Begun
    <3>2. FileOf(q, id, d) = <<>> \/ FileOf(q, id, d) = <<r>>
      BY <1>4, <3>1 DEF Begun
    <3> QED BY <1>3, <3>2, ShortTells DEF DayTells
  <2>3. Fits(none, r)
    BY <1>2, <1>9, BookHolds, AppliedFits
  <2>4. ASSUME NEW d \in FirstDay..day PROVE DayFits(g, q, id, d)
    <3>1. d \in Int /\ (FileOf(q, id, d) = <<>> \/ d = day)
      BY <1>4 DEF Begun
    <3>2. CASE FileOf(q, id, d) = <<>>
      BY <3>2, NoneFits DEF DayFits
    <3>3. CASE d = day
      <4>1. FileOf(q, id, day) = <<r>> /\ IsLog(<<r>>)
        BY <1>4, OneLog DEF Begun
      <4>2. day - 1 \in FirstDay - 1..day /\ day \in FirstDay - 1..day /\ ~(day < FirstDay)
            /\ FirstDay \in Int
        BY <1>4 DEF Begun
      <4>3. g[day] = g[day - 1] \o <<r>>
        BY <1>11, <4>1, <4>2 DEF Sums
      <4>4. IsLog(g[day - 1])
        <5>1. \A n \in Int : IsLog(FileOf(q, id, n))
          BY <1>4, <4>1, OneLog DEF Begun
        <5> QED BY <1>11, <4>2, <5>1, SumsAreLogs
      <4>5. PICK b : b = g[day - 1] /\ IsLog(b)
        BY <4>4
      <4>6. PICK k : k = <<r>> /\ k = b \o (none \o <<r>>) /\ k = none \o <<r>>
        BY <1>8, <2>1, <4>1, <4>3, <4>5, JoinNone
      <4>7. FileFits(b, none)
        BY <1>8, NoneFits
      <4>8. FileFits(b, none \o <<r>>)
        BY <1>8, <2>3, <4>5, <4>6, <4>7, GrownFits
      <4> QED BY <3>3, <4>1, <4>5, <4>6, <4>8 DEF DayFits
    <3> QED BY <3>1, <3>2, <3>3
  <2> QED BY <1>10, <2>1, <2>2, <2>4 DEF Recounts
<1>12. EndsInRow(FileOf(q, id, day))
  <2>1. FileOf(q, id, day) = <<r>>
    BY <1>4 DEF Begun
  <2> QED BY <1>3, <2>1, ShortTells
<1>13. u.last[2] = day
  BY <1>4, <1>7
<1> QED BY <1>1, <1>11, <1>12, <1>13 DEF Tells

\* The other venues.
LEMMA OtherBooks ==
  ASSUME Keyed, Filed, Dated, pc = "reading", Tracked(parts, venues), Telling(parts, venues),
         NEW row \in Rows, NEW id \in DOMAIN venues, id # row.venue
  PROVE  Tells(Appended(row), id, venues[id])
<1>1. PICK q, v : q = Appended(row) /\ v = venues[id]
  OBVIOUS
<1>2. /\ \A d \in Int : FileOf(q, id, d) = FileOf(parts, id, d)
      /\ \A f : Sums(f, q, id, v.last[2]) => Sums(f, parts, id, v.last[2])
  BY <1>1, OtherFiles
<1>3. Tells(parts, id, v)
  BY <1>1 DEF Telling
<1>4. PICK last \in Int : last = v.last[2] /\ last \in Days
  BY <1>1, DaysFinite DEF Tracked, Latest, Filed, Converting
<1>5. FirstDay \in Int
  BY <1>4, FirstDayIsLeast
<1>6. ASSUME NEW f, Sums(f, q, id, last) PROVE Recounts(f, q, id, v, last)
  <2>1. Recounts(f, parts, id, v, last)
    BY <1>2, <1>3, <1>4, <1>6 DEF Tells
  <2>2. ASSUME NEW d \in FirstDay..last PROVE DayTells(f, q, id, d) /\ DayFits(f, q, id, d)
    <3>1. d \in Int
      BY <1>5
    <3>2. DayTells(f, parts, id, d) /\ DayFits(f, parts, id, d)
      BY <2>1 DEF Recounts
    <3> QED BY <1>2, <3>1, <3>2 DEF DayTells, DayFits
  <2> QED BY <2>1, <2>2 DEF Recounts
<1>7. EndsInRow(FileOf(q, id, last))
  BY <1>2, <1>3, <1>4 DEF Tells
<1> QED BY <1>1, <1>4, <1>6, <1>7 DEF Tells

LEMMA RowTelling ==
  ASSUME Keyed, Filed, Dated, pc = "reading", Tracked(parts, venues), Telling(parts, venues),
         NEW row \in Rows, Admissible(row), Books(row), NEW u, NEW vs,
         vs = With(venues, row.venue, u),
         u = advance(applyToBook(VenueBefore(row), recordOf(row)), recordOf(row),
                     PartitionOf(row.venue, row.ts))
  PROVE  Telling(Appended(row), vs)
<1>1. PICK id, key, r, v : id = row.venue /\ key = PartitionOf(row.venue, row.ts)
                           /\ r = recordOf(row) /\ v = venue(row.venue)
  OBVIOUS
<1>2. PICK x : x = VenueBefore(row)
  OBVIOUS
<1>3. x = IF epochDue(v, row) THEN afterEpoch(v) ELSE v
  BY <1>1, <1>2, Zenon DEF VenueBefore
<1>4. u = advance(applyToBook(x, r), r, key)
  BY <1>1, <1>2
<1>5. Converts(row) /\ r.instrument = row.instrument
  BY <1>1 DEF Admissible, recordOf, Snapshot
<1>6. CanApply(bookOf(x, r.instrument), r)
  BY <1>1, <1>2, <1>5, Zenon DEF Books
<1>7. /\ DOMAIN vs = DOMAIN venues \cup {id} /\ vs[id] = u
      /\ \A i \in DOMAIN venues : i # id => vs[i] = venues[i]
  BY <1>1 DEF With
<1>8. Tells(Appended(row), id, u)
  <2>1. CASE id \in DOMAIN venues
    <3>1. v = venues[id] /\ v.seen = TRUE
      BY <1>1, <2>1 DEF venue, Tracked
    <3>2. row.ts >= v.lastTs
      BY <1>1, <3>1 DEF Admissible
    <3> QED BY <1>1, <1>3, <1>4, <1>5, <1>6, <2>1, <3>1, <3>2, LaterBooks
  <2>2. CASE id \notin DOMAIN venues
    <3>1. v = NewVenue
      BY <1>1, <2>2 DEF venue
    <3>2. ~epochDue(v, row)
      BY <3>1 DEF epochDue, NewVenue
    <3>3. x = v
      BY <1>3, <3>2
    <3> QED BY <1>1, <1>4, <1>5, <1>6, <2>2, <3>1, <3>3, FirstBooks
  <2> QED BY <2>1, <2>2
<1>9. ASSUME NEW i \in DOMAIN vs PROVE Tells(Appended(row), i, vs[i])
  <2>1. CASE i = id
    BY <1>7, <1>8, <2>1
  <2>2. CASE i # id
    BY <1>1, <1>7, <2>2, OtherBooks
  <2> QED BY <2>1, <2>2
<1> QED BY <1>9 DEF Telling

LEMMA InitRecorded == Init => Recorded
BY DEF Init, Recorded, Converting

LEMMA RecordedStep ==
  Keyed /\ Filed /\ Dated /\ Cadence /\ Recorded /\ [Next]_vars => Recorded'
<1> SUFFICES ASSUME Keyed, Filed, Dated, Cadence, Recorded, [Next]_vars PROVE Recorded'
  OBVIOUS
<1>1. CASE WriteRow
  <2>1. PICK row \in Rows :
          LET key == PartitionOf(row.venue, row.ts) rec == recordOf(row) IN
          /\ ReadRow(row) /\ Admissible(row) /\ Books(row)
          /\ parts' = Appended(row)
          /\ venues' = With(venues, row.venue,
                            advance(applyToBook(VenueBefore(row), rec), rec, key))
    BY <1>1 DEF WriteRow
  <2>2. pc = "reading" /\ pc' = pc
    BY <1>1, <2>1 DEF WriteRow, ReadRow
  <2>3. Tracked(parts, venues) /\ Telling(parts, venues)
    BY <2>2 DEF Cadence, Recorded, Converting
  <2>4. PICK p, vs, u : /\ p = parts' /\ vs = venues' /\ p = Appended(row)
                        /\ vs = With(venues, row.venue, u)
                        /\ u = advance(applyToBook(VenueBefore(row), recordOf(row)), recordOf(row),
                                       PartitionOf(row.venue, row.ts))
    BY <2>1
  <2>5. Telling(p, vs)
    BY <2>1, <2>2, <2>3, <2>4, RowTelling
  <2> QED BY <2>4, <2>5 DEF Recorded
<1>2. CASE Convert
  <2>1. parts' = Empty /\ venues' = Empty
    BY <1>2 DEF Convert
  <2> QED BY <2>1 DEF Recorded, Telling, Empty
<1>3. CASE ~Converting'
  BY <1>3 DEF Recorded
<1>4. CASE Converting /\ UNCHANGED <<parts, venues>>
  <2>1. Telling(parts, venues)
    BY <1>4 DEF Recorded
  <2> QED BY <1>4, <2>1 DEF Recorded
<1> QED
  BY <1>1, <1>2, <1>3, <1>4
  DEF Next, vars, RowRejected, RowRefused, ReadFails, EndOfSource, CloseFile, CloseFails,
      CreateHash, WriteArtifactHash, HashFails, Return, Abort, Aborted, Crash, Converting

-----------------------------------------------------------------------------
(* The epochs in the files. *)

Run(s, n) == {i \in n..Len(s) : \A j \in n..i : s[j].epoch}
TellsRun(s, n, log) ==
  /\ {s[i].instrument : i \in Run(s, n)} = Known(log)
  /\ Cardinality({s[i].instrument : i \in Run(s, n)}) = Cardinality(Run(s, n))
  /\ \A i \in Run(s, n) : IsBookAfter(s[i].bids, s[i].asks, log, s[i].instrument)

LEMMA RunIs ==
  ASSUME NEW s, IsLog(s), NEW n, RunStart(s, n), NEW log, NEW e, RunOf(s, n, e), Told(log, e)
  PROVE  /\ \A i : i \in Run(s, n) <=> i \in n..(n - 1) + Len(e)
         /\ \A i \in Run(s, n) : i - (n - 1) \in 1..Len(e) /\ s[i] = e[i - (n - 1)]
         /\ \A j \in 1..Len(e) : (n - 1) + j \in Run(s, n) /\ s[(n - 1) + j] = e[j]
<1>1. PICK N \in Nat, m \in Nat : N = Len(s) /\ m = Len(e) /\ IsLog(e)
  BY LogIs DEF RunOf
<1>2. n \in 1..N
  BY <1>1 DEF RunStart
<1>3. /\ (n - 1) + m <= N /\ \A j \in 1..m : s[(n - 1) + j] = e[j]
      /\ n + m <= N => ~s[n + m].epoch
  BY <1>1 DEF RunOf
<1>4. \A j \in 1..m : e[j].epoch = TRUE
  BY <1>1 DEF Told
<1>5. ASSUME NEW i \in n..(n - 1) + m PROVE i - (n - 1) \in 1..m /\ s[i] = e[i - (n - 1)] /\ s[i].epoch
  <2>1. i - (n - 1) \in 1..m /\ (n - 1) + (i - (n - 1)) = i
    BY <1>2
  <2>2. s[i] = e[i - (n - 1)]
    BY <1>3, <2>1
  <2> QED BY <1>4, <2>1, <2>2
<1>6. ASSUME NEW i \in n..(n - 1) + m PROVE i \in Run(s, n)
  <2>1. i \in n..N
    BY <1>2, <1>3
  <2>2. \A j \in n..i : j \in n..(n - 1) + m
    BY <1>2
  <2> QED BY <1>1, <1>5, <2>1, <2>2 DEF Run
<1>7. ASSUME NEW i \in Run(s, n) PROVE i \in n..(n - 1) + m
  <2>1. i \in n..N /\ \A j \in n..i : s[j].epoch
    BY <1>1, <1>7 DEF Run
  <2>2. CASE i <= (n - 1) + m
    BY <1>2, <2>1, <2>2
  <2>3. CASE i > (n - 1) + m
    <3>1. n + m \in n..i /\ n + m <= N
      BY <1>2, <2>1, <2>3
    <3> QED BY <1>3, <2>1, <3>1
  <2> QED BY <1>2, <2>1, <2>2, <2>3
<1>8. ASSUME NEW j \in 1..m PROVE (n - 1) + j \in Run(s, n) /\ s[(n - 1) + j] = e[j]
  <2>1. (n - 1) + j \in n..(n - 1) + m
    BY <1>2
  <2> QED BY <1>3, <1>6, <2>1
<1> QED BY <1>1, <1>5, <1>6, <1>7, <1>8

LEMMA RunTells ==
  ASSUME NEW s, IsLog(s), NEW n, RunStart(s, n), NEW log, NEW e, RunOf(s, n, e), Told(log, e)
  PROVE  TellsRun(s, n, log)
<1>1. PICK R, m : R = Run(s, n) /\ m = Len(e)
  OBVIOUS
<1>2. /\ \A i \in R : i - (n - 1) \in 1..m /\ s[i] = e[i - (n - 1)]
      /\ \A j \in 1..m : (n - 1) + j \in R /\ s[(n - 1) + j] = e[j]
  BY <1>1, RunIs
<1>3. /\ \A a, b \in 1..m : e[a].instrument = e[b].instrument => a = b
      /\ \A x : x \in Known(log) <=> \E j \in 1..m : e[j].instrument = x
      /\ \A j \in 1..m : IsInjective(e[j].bids) /\ IsInjective(e[j].asks)
  BY <1>1 DEF Told, Retells
<1>4. ASSUME NEW j \in 1..m PROVE IsBookAfter(e[j].bids, e[j].asks, log, e[j].instrument)
  <2>1. \A side \in {SideBid, SideAsk} :
          Range(SideOf(e[j], side)) = LevelsAfter(log, e[j].instrument, side)
    BY <1>1 DEF Told, Retells
  <2>2. SideOf(e[j], SideBid) = e[j].bids /\ SideOf(e[j], SideAsk) = e[j].asks
    BY DEF SideOf, SideBid, SideAsk
  <2> QED BY <1>3, <2>1, <2>2 DEF IsBookAfter
<1>5. R \in SUBSET Int /\ IsFiniteSet(R)
  <2>1. n \in Int /\ Len(s) \in Int
    BY LogIs DEF RunStart
  <2>2. R \subseteq n..Len(s)
    BY <1>1 DEF Run
  <2>3. IsFiniteSet(n..Len(s))
    BY <2>1, FS_Interval
  <2>4. IsFiniteSet(R)
    BY <2>2, <2>3, FS_Subset
  <2>5. R \subseteq Int
    BY <2>1, <2>2
  <2> QED BY <2>4, <2>5
<1> DEFINE S == {s[i].instrument : i \in R}
           g == [i \in R |-> s[i].instrument]
<1>6. S = Known(log)
  BY <1>2, <1>3
<1>7. g \in Surjection(R, S)
  BY DEF Surjection
<1>8. ASSUME NEW a \in R, NEW b \in R, g[a] = g[b] PROVE a = b
  <2>1. s[a].instrument = s[b].instrument
    BY <1>8
  <2>2. a - (n - 1) = b - (n - 1)
    BY <1>2, <1>3, <2>1
  <2>3. n \in Int
    BY LogIs DEF RunStart
  <2> QED BY <1>5, <2>2, <2>3
<1>9. g \in Injection(R, S)
  <2>1. g \in [R -> S]
    OBVIOUS
  <2> HIDE DEF g, S
  <2> QED BY <1>8, <2>1 DEF Injection, IsInjective
<1>10. Cardinality(S) = Cardinality(R)
  <2> HIDE DEF g, S
  <2> QED BY <1>5, <1>7, <1>9, FS_Surjection
<1>11. \A i \in R : IsBookAfter(s[i].bids, s[i].asks, log, s[i].instrument)
  BY <1>2, <1>4
<1> QED BY <1>1, <1>6, <1>10, <1>11 DEF TellsRun

\* The log before record n of a file, whichever way the days before add up.
LEMMA BeforeRecord ==
  ASSUME NEW id, NEW day \in Int, day \in Days, <<id, day>> \in DOMAIN parts, NEW to \in Int,
         day <= to, NEW f, Sums(f, parts, id, to), \A d \in Int : IsLog(FileOf(parts, id, d)),
         NEW n \in 1..Len(parts[<<id, day>>]) + 1
  PROVE  Splits(f[day - 1], parts[<<id, day>>], n, Before(id, day, n))
<1>1. PICK s : s = parts[<<id, day>>] /\ IsLog(s)
  BY DEF FileOf
<1>2. FirstDay \in Int /\ FirstDay <= day /\ \A y \in Days : FirstDay <= y
  BY FirstDayIsLeast
<1>3. PICK h : Before(id, day, n) = h[day] /\ Adds(h, id, day, n, day)
  BY BeforeAdds
<1>4. ASSUME NEW d \in FirstDay - 1..day
      PROVE  h[d] = IF d < FirstDay THEN <<>> ELSE h[d - 1] \o Piece(id, d, day, n)
  <2>1. d < FirstDay => d \notin Days
    BY <1>2
  <2> QED BY <1>3, <2>1 DEF Adds
<1>5. PICK m \in Int : m = day - 1
  OBVIOUS
<1>6. Sums(h, parts, id, m)
  <2> SUFFICES ASSUME NEW d \in FirstDay - 1..m
               PROVE  h[d] = IF d < FirstDay THEN <<>> ELSE h[d - 1] \o FileOf(parts, id, d)
    BY DEF Sums
  <2>1. d \in FirstDay - 1..day /\ d # day
    BY <1>2, <1>5
  <2>2. Piece(id, d, day, n) = FileOf(parts, id, d)
    BY <2>1, Zenon DEF Piece, FileOf
  <2> QED BY <1>4, <2>1, <2>2
<1>7. h[m] = f[m] /\ IsLog(f[m])
  <2>1. FirstDay - 1 <= m /\ m <= m /\ m <= to /\ m \in FirstDay - 1..m /\ m \in FirstDay - 1..to
    BY <1>2, <1>5
  <2>2. \A d \in FirstDay - 1..m : h[d] = f[d]
    BY <1>2, <1>6, <2>1, SumsSame
  <2>3. IsLog(f[m])
    BY <1>2, <2>1, SumsAreLogs
  <2> QED BY <2>1, <2>2, <2>3
<1>8. PICK t, b : t = SubSeq(s, 1, n - 1) /\ b = Before(id, day, n)
  OBVIOUS
<1>9. b = f[m] \o t
  <2>1. day \in FirstDay - 1..day /\ ~(day < FirstDay)
    BY <1>2
  <2>2. Piece(id, day, day, n) = t
    BY <1>1, <1>8 DEF Piece
  <2>3. h[day] = h[m] \o t
    BY <1>4, <1>5, <2>1, <2>2
  <2> QED BY <1>3, <1>7, <1>8, <2>3
<1>10. IsLog(t) /\ Len(t) = n - 1 /\ \A i \in 1..n - 1 : t[i] = s[i]
  <2>1. Len(s) \in Nat /\ n \in 1..Len(s) + 1
    BY <1>1, LogIs
  <2>2. Part(s, 1, n - 1, t)
    <3>1. 1 \in Nat /\ n - 1 \in Nat /\ 1 <= 1 /\ n - 1 <= Len(s)
      BY <2>1
    <3> QED BY <1>1, <1>8, <3>1, PartIs
  <2>3. IsLog(t)
    BY <2>2 DEF Part
  <2>4. Len(t) = n - 1
    BY <2>1, <2>2 DEF Part
  <2>5. \A i \in 1..n - 1 : t[i] = s[1 + i - 1] /\ 1 + i - 1 = i
    BY <2>1, <2>2, <2>4 DEF Part
  <2> QED BY <2>3, <2>4, <2>5
<1>11. Joined(f[m], t, b)
  BY <1>7, <1>9, <1>10, JoinIs
<1>12. Splits(f[m], s, n, b)
  BY <1>10, <1>11 DEF Joined, Splits
<1> QED BY <1>1, <1>5, <1>8, <1>12

LEMMA SplitsOnce ==
  ASSUME NEW g, IsLog(g), NEW s, NEW n \in Nat \ {0}, NEW a, NEW b, Splits(g, s, n, a), Splits(g, s, n, b)
  PROVE  a = b
<1>1. PICK N \in Nat : N = Len(g)
  BY LogIs
<1>2. Len(a) = N + (n - 1) /\ Len(b) = N + (n - 1) /\ IsLog(a) /\ IsLog(b)
  BY <1>1 DEF Splits
<1>3. ASSUME NEW i \in 1..N + (n - 1) PROVE a[i] = b[i]
  <2>1. CASE i <= N
    BY <1>1, <2>1 DEF Splits
  <2>2. CASE i > N
    <3>1. i - N \in 1..n - 1 /\ N + (i - N) = i
      BY <2>2
    <3>2. a[N + (i - N)] = s[i - N] /\ b[N + (i - N)] = s[i - N]
      BY <1>1, <3>1 DEF Splits
    <3> QED BY <3>1, <3>2
  <2> QED BY <2>1, <2>2
<1> QED BY <1>2, <1>3, SameLog

\* What is known of a file: g is the log before it.
BookedFile(g, s, k) ==
  /\ IsLog(g) /\ IsLog(s) /\ FileTells(g, s) /\ FileFits(g, s)
  /\ \A n \in 1..Len(s) + 1 : Splits(g, s, n, Before(k[1], k[2], n))

LEMMA FilesAreBooked ==
  ASSUME Keyed, Filed, Cadence, Recorded, Converting, NEW k \in DOMAIN parts
  PROVE  \E g : BookedFile(g, parts[k], k)
<1>1. Tracked(parts, venues) /\ Telling(parts, venues)
  BY DEF Cadence, Recorded
<1>2. k \in PartitionKeys
  BY DEF Keyed
<1>3. PICK id \in Nat, day \in Int : k = <<id, day>>
  BY <1>2 DEF PartitionKeys
<1>4. PICK s : s = parts[k] /\ IsLog(s) /\ day \in Days
  BY <1>3 DEF Filed, OfDay, IsLog
<1>5. PICK v : v = venues[id] /\ id \in DOMAIN venues /\ day <= v.last[2] /\ v.last \in DOMAIN parts
  BY <1>1, <1>3 DEF Tracked, Latest
<1>6. PICK last \in Int : last = v.last[2] /\ last \in Days /\ v.last = <<id, last>>
  <2>1. VenueOf(id, v) /\ v.seen = TRUE
    BY <1>1, <1>5 DEF Tracked
  <2>2. PICK last \in Int : v.last = <<id, last>>
    BY <2>1, FloorDivFloors, ArchiveAssumption DEF VenueOf, PartitionOf
  <2>3. v.last[2] \in Days
    BY <1>5 DEF Filed
  <2> QED BY <2>2, <2>3
<1>7. \A d \in Int : IsLog(FileOf(parts, id, d))
  BY FilesAreLogs
<1>8. PICK f : Sums(f, parts, id, last)
  <2>1. <<id, last>> \in DOMAIN parts
    BY <1>5, <1>6
  <2>2. IsLog(parts[<<id, last>>])
    BY <1>7, <2>1 DEF FileOf
  <2> QED BY <1>6, <2>1, <2>2, BeforeSums
<1>9. Tells(parts, id, v)
  BY <1>1, <1>5 DEF Telling
<1>10. FirstDay \in Int /\ FirstDay <= day /\ day <= last
  BY <1>4, <1>5, <1>6, FirstDayIsLeast
<1>11. FileTells(f[day - 1], s) /\ FileFits(f[day - 1], s)
  <2>1. Recounts(f, parts, id, v, last)
    BY <1>6, <1>8, <1>9 DEF Tells
  <2>2. day \in FirstDay..last
    BY <1>10
  <2>3. DayTells(f, parts, id, day) /\ DayFits(f, parts, id, day)
    BY <2>1, <2>2 DEF Recounts
  <2>4. FileOf(parts, id, day) = s
    BY <1>3, <1>4 DEF FileOf
  <2> QED BY <2>3, <2>4 DEF DayTells, DayFits
<1>12. ASSUME NEW n \in 1..Len(s) + 1 PROVE Splits(f[day - 1], s, n, Before(id, day, n))
  <2>1. <<id, day>> \in DOMAIN parts /\ s = parts[<<id, day>>]
    BY <1>3, <1>4
  <2>2. n \in 1..Len(parts[<<id, day>>]) + 1
    BY <2>1
  <2>3. Splits(f[day - 1], parts[<<id, day>>], n, Before(id, day, n))
    BY <1>4, <1>7, <1>8, <1>10, <2>1, <2>2, BeforeRecord
  <2> QED BY <2>1, <2>3
<1>13. IsLog(f[day - 1])
  <2>1. day - 1 \in FirstDay - 1..last
    BY <1>10
  <2> QED BY <1>7, <1>8, <1>10, <2>1, SumsAreLogs
<1>14. k[1] = id /\ k[2] = day
  BY <1>3
<1>15. BookedFile(f[day - 1], s, k)
  BY <1>4, <1>11, <1>12, <1>13, <1>14 DEF BookedFile
<1> QED BY <1>4, <1>15

(***************************************************************************)
(* Every epoch in every file has one snapshot for each instrument with a   *)
(* book, and each is the book all of the venue's records before it add up  *)
(* to, over any number of day files: recordOf and splitLevels, book's      *)
(* search and upsert, applyToBook and writeEpoch together, for every       *)
(* source.                                                                 *)
(***************************************************************************)
THEOREM EpochsAreTheBook == Spec => []EpochIsTheBook
<1>1. ASSUME Keyed, Filed, Cadence, Recorded PROVE EpochIsTheBook
  <2>1. ASSUME Converting, NEW k \in DOMAIN parts, NEW n \in DOMAIN parts[k], parts[k][n].epoch,
               n = 1 \/ ~parts[k][n - 1].epoch
        PROVE  TellsRun(parts[k], n, Before(k[1], k[2], n))
    <3>1. PICK g, s : s = parts[k] /\ BookedFile(g, s, k)
      BY <1>1, <2>1, FilesAreBooked
    <3>2. n \in 1..Len(s) /\ n \in 1..Len(s) + 1 /\ n \in Nat \ {0} /\ IsLog(s) /\ IsLog(g)
      BY <2>1, <3>1, LogIs DEF BookedFile
    <3>3. RunStart(s, n)
      BY <2>1, <3>1, <3>2 DEF RunStart
    <3>4. PICK a, e : Splits(g, s, n, a) /\ RunOf(s, n, e) /\ Told(a, e)
      BY <3>1, <3>3 DEF BookedFile, FileTells, TellsAt
    <3>5. Splits(g, s, n, Before(k[1], k[2], n))
      BY <3>1, <3>2 DEF BookedFile
    <3>6. a = Before(k[1], k[2], n)
      BY <3>2, <3>4, <3>5, SplitsOnce
    <3>7. TellsRun(s, n, a)
      BY <3>2, <3>3, <3>4, RunTells
    <3> QED BY <3>1, <3>6, <3>7
  <2> QED BY <2>1, Zenon DEF EpochIsTheBook, TellsRun, Run, Known
<1> QED
  BY <1>1, ArchiveInvariant, InitFiled, FiledStep, InitCadence, CadenceStep, InitRecorded,
     RecordedStep, PTL DEF Spec, ArchiveInv

-----------------------------------------------------------------------------
(***************************************************************************)
(* The rewind: which snapshot a warm-up starts from.                       *)
(***************************************************************************)

LEMMA GreatestNumber ==
  ASSUME NEW N \in Nat, NEW T \in SUBSET (1..N), T # {}
  PROVE  \E x \in T : \A y \in T : y <= x
<1> DEFINE U == {N - y : y \in T}
<1>1. U \in SUBSET Nat /\ U # {}
  <2>1. \A y \in T : y \in 1..N /\ N - y \in Nat
    OBVIOUS
  <2>2. \A u \in U : u \in Nat
    BY <2>1
  <2>3. \E u : u \in U
    OBVIOUS
  <2> QED BY <2>2, <2>3
<1>2. PICK u \in U : \A w \in U : u <= w
  <2> HIDE DEF U
  <2> QED BY <1>1, LeastNumber
<1>3. PICK x \in T : u = N - x
  BY <1>2
<1>4. ASSUME NEW y \in T PROVE y <= x
  <2>1. N - y \in U
    OBVIOUS
  <2>2. N - x <= N - y
    BY <1>2, <1>3, <2>1
  <2>3. x \in Int /\ y \in Int
    OBVIOUS
  <2> QED BY <2>2, <2>3
<1> QED BY <1>4

\* SnapshotBefore, epochRunStart and findInstrumentSnapshot.
LastSnapshot(f, b, last) ==
  \/ last = 0 /\ \A j \in 1..b : ~IsSnapshot(f, j)
  \/ last \in 1..b /\ IsSnapshot(f, last) /\ \A j \in last + 1..b : ~IsSnapshot(f, j)
RunFrom(f, last, start) ==
  /\ start \in 1..last /\ \A j \in start..last : IsSnapshot(f, j)
  /\ start = 1 \/ ~IsSnapshot(f, start - 1)
FoundIn(f, start, last, i, snap) ==
  \/ snap = 0 /\ \A j \in start..last : f[j].instrument # i
  \/ snap \in start..last /\ f[snap].instrument = i

LEMMA SnapshotBeforeIs ==
  ASSUME NEW f, NEW b \in Nat
  PROVE  LastSnapshot(f, b, SnapshotBefore(f, b))
<1> DEFINE at == {j \in 1..b : IsSnapshot(f, j)}
<1>1. SnapshotBefore(f, b) = IF at = {} THEN 0 ELSE CHOOSE j \in at : \A k \in at : k <= j
  BY Zenon DEF SnapshotBefore
<1>2. CASE at = {}
  <2>1. SnapshotBefore(f, b) = 0
    BY <1>1, <1>2
  <2>2. \A j \in 1..b : ~IsSnapshot(f, j)
    BY <1>2
  <2> QED BY <2>1, <2>2 DEF LastSnapshot
<1>3. CASE at # {}
  <2>1. at \in SUBSET (1..b)
    OBVIOUS
  <2>2. \E j \in at : \A k \in at : k <= j
    <3> HIDE DEF at
    <3> QED BY <1>3, <2>1, GreatestNumber
  <2>3. PICK last : last = SnapshotBefore(f, b)
    OBVIOUS
  <2>4. last = CHOOSE j \in at : \A k \in at : k <= j
    BY <1>1, <1>3, <2>3
  <2>5. last \in at /\ \A k \in at : k <= last
    <3> HIDE DEF at
    <3> QED BY <2>2, <2>4
  <2>6. \A j \in last + 1..b : ~IsSnapshot(f, j)
    <3> SUFFICES ASSUME NEW j \in last + 1..b, IsSnapshot(f, j) PROVE FALSE
      OBVIOUS
    <3>1. j \in at /\ last \in Int /\ j \in Int /\ j > last
      BY <2>5
    <3> QED BY <2>5, <3>1
  <2>7. last \in 1..b /\ IsSnapshot(f, last)
    BY <2>5
  <2> QED BY <2>3, <2>6, <2>7 DEF LastSnapshot
<1> QED BY <1>2, <1>3

LEMMA EpochRunStartIs ==
  ASSUME NEW f, NEW last \in Nat, last > 0, IsSnapshot(f, last)
  PROVE  RunFrom(f, last, epochRunStart(f, last))
<1> DEFINE T == {i \in 1..last : \A j \in i..last : IsSnapshot(f, j)}
<1>1. last \in T
  <2>1. \A j \in last..last : j = last
    OBVIOUS
  <2> QED BY <2>1
<1>2. T \in SUBSET Nat /\ T # {}
  BY <1>1
<1>3. PICK a \in T : \A y \in T : a <= y
  <2> HIDE DEF T
  <2> QED BY <1>2, LeastNumber
<1>4. a \in 1..last /\ \A j \in a..last : IsSnapshot(f, j)
  BY <1>3
<1>5. a = 1 \/ ~IsSnapshot(f, a - 1)
  <2> SUFFICES ASSUME a # 1, IsSnapshot(f, a - 1) PROVE FALSE
    OBVIOUS
  <2>1. a - 1 \in 1..last
    BY <1>4
  <2>2. \A j \in a - 1..last : j = a - 1 \/ j \in a..last
    BY <1>4
  <2>3. a - 1 \in T
    BY <1>4, <2>1, <2>2
  <2>4. a <= a - 1 /\ a \in Int
    BY <1>3, <1>4, <2>3
  <2> QED BY <2>4
<1>6. RunFrom(f, last, a)
  BY <1>4, <1>5 DEF RunFrom
<1>7. epochRunStart(f, last) = CHOOSE i \in 1..last : RunFrom(f, last, i)
  <2>1. \A i \in 1..last : RunFrom(f, last, i) <=> /\ \A j \in i..last : IsSnapshot(f, j)
                                                   /\ i = 1 \/ ~IsSnapshot(f, i - 1)
    BY Zenon DEF RunFrom
  <2> QED BY <2>1, Zenon DEF epochRunStart
<1> QED BY <1>4, <1>6, <1>7

LEMMA FindIs ==
  ASSUME NEW f, NEW start \in Nat, NEW last \in Nat, start > 0, NEW i
  PROVE  FoundIn(f, start, last, i, findInstrumentSnapshot(f, start, last, i))
<1> DEFINE T == {j \in start..last : f[j].instrument = i}
           First(j) == f[j].instrument = i /\ \A m \in start..j - 1 : f[m].instrument # i
<1>1. findInstrumentSnapshot(f, start, last, i) =
        IF \E j \in start..last : f[j].instrument = i
        THEN CHOOSE j \in start..last : First(j) ELSE 0
  BY Zenon DEF findInstrumentSnapshot
<1>2. CASE \E j \in start..last : f[j].instrument = i
  <2>1. T \in SUBSET Nat /\ T # {}
    BY <1>2
  <2>2. PICK a \in T : \A y \in T : a <= y
    <3> HIDE DEF T
    <3> QED BY <2>1, LeastNumber
  <2>3. \A m \in start..a - 1 : f[m].instrument # i
    <3> SUFFICES ASSUME NEW m \in start..a - 1, f[m].instrument = i PROVE FALSE
      OBVIOUS
    <3>1. m \in T /\ m < a /\ m \in Int /\ a \in Int
      BY <2>2
    <3> QED BY <2>2, <3>1
  <2>4. a \in start..last /\ First(a)
    BY <2>2, <2>3
  <2>5. PICK snap : snap = findInstrumentSnapshot(f, start, last, i)
    OBVIOUS
  <2>6. snap = CHOOSE j \in start..last : First(j)
    BY <1>1, <1>2, <2>5
  <2>7. snap \in start..last /\ First(snap)
    <3> HIDE DEF First
    <3> QED BY <2>4, <2>6
  <2> QED BY <2>5, <2>7 DEF FoundIn
<1>3. CASE ~\E j \in start..last : f[j].instrument = i
  BY <1>1, <1>3 DEF FoundIn
<1> QED BY <1>2, <1>3

\* One look of rewind, h being its answers for the indexes before.
Look(f, i, h, b) ==
  LET last  == SnapshotBefore(f, b)
      start == epochRunStart(f, last)
      snap  == findInstrumentSnapshot(f, start, last, i)
  IN  IF last = 0 THEN NoUse
      ELSE IF snap # 0 THEN [snap |-> snap, from |-> last + 1] ELSE h[start - 1]
Looked(f, i, h, b, use) ==
  \E last, start, snap :
    /\ LastSnapshot(f, b, last)
    /\ last # 0 => RunFrom(f, last, start) /\ FoundIn(f, start, last, i, snap)
    /\ use = IF last = 0 THEN NoUse
             ELSE IF snap # 0 THEN [snap |-> snap, from |-> last + 1] ELSE h[start - 1]

LEMMA LookIs ==
  ASSUME NEW f, NEW i, NEW h, NEW b \in Nat
  PROVE  Looked(f, i, h, b, Look(f, i, h, b))
<1>1. PICK last : last = SnapshotBefore(f, b)
  OBVIOUS
<1>2. PICK start : start = epochRunStart(f, last)
  OBVIOUS
<1>3. PICK snap : snap = findInstrumentSnapshot(f, start, last, i)
  OBVIOUS
<1>4. LastSnapshot(f, b, last)
  BY <1>1, SnapshotBeforeIs
<1>5. ASSUME last # 0 PROVE RunFrom(f, last, start) /\ FoundIn(f, start, last, i, snap)
  <2>1. last \in Nat /\ last > 0 /\ IsSnapshot(f, last)
    BY <1>4, <1>5 DEF LastSnapshot
  <2>2. RunFrom(f, last, start)
    BY <1>2, <2>1, EpochRunStartIs
  <2>3. start \in Nat /\ start > 0
    BY <2>2 DEF RunFrom
  <2> QED BY <1>3, <2>1, <2>2, <2>3, FindIs
<1>6. Look(f, i, h, b) = IF last = 0 THEN NoUse
                         ELSE IF snap # 0 THEN [snap |-> snap, from |-> last + 1] ELSE h[start - 1]
  BY <1>1, <1>2, <1>3, Zenon DEF Look
<1> QED BY <1>4, <1>5, <1>6, Zenon DEF Looked

\* A look depends on the answers before it only.
LEMMA LookBefore ==
  ASSUME NEW f, NEW i, NEW g, NEW h, NEW b \in Nat, \A c \in 0..b - 1 : g[c] = h[c]
  PROVE  Look(f, i, g, b) = Look(f, i, h, b)
<1>1. PICK last : last = SnapshotBefore(f, b)
  OBVIOUS
<1>2. PICK start : start = epochRunStart(f, last)
  OBVIOUS
<1>3. PICK snap : snap = findInstrumentSnapshot(f, start, last, i)
  OBVIOUS
<1>4. ASSUME last # 0 PROVE g[start - 1] = h[start - 1]
  <2>1. LastSnapshot(f, b, last)
    BY <1>1, SnapshotBeforeIs
  <2>2. last \in 1..b /\ IsSnapshot(f, last)
    BY <1>4, <2>1 DEF LastSnapshot
  <2>3. RunFrom(f, last, start)
    BY <1>2, <2>2, EpochRunStartIs
  <2>4. start \in 1..last
    BY <2>3 DEF RunFrom
  <2>5. start - 1 \in 0..b - 1
    BY <2>2, <2>4
  <2> QED BY <2>5
<1> QED BY <1>1, <1>2, <1>3, <1>4, Zenon DEF Look

Looks(h, f, i, to) == h = [b \in 0..to |-> Look(f, i, h, b)]

LEMMA LooksExist ==
  ASSUME NEW f, NEW i, NEW n \in Nat
  PROVE  \E h : Looks(h, f, i, n)
<1> DEFINE T == {b \in 0..n : \E h : Looks(h, f, i, b)}
<1>1. ASSUME NEW b \in 0..n, NEW h, \A c \in 0..b - 1 : h[c] = Look(f, i, h, c)
      PROVE  \E g : Looks(g, f, i, b)
  <2> DEFINE g == [c \in 0..b |-> IF c = b THEN Look(f, i, h, b) ELSE h[c]]
  <2>1. ASSUME NEW c \in 0..b PROVE g[c] = Look(f, i, g, c)
    <3>1. \A m \in 0..c - 1 : m \in 0..b /\ m # b /\ g[m] = h[m]
      OBVIOUS
    <3>2. Look(f, i, g, c) = Look(f, i, h, c)
      <4> HIDE DEF g
      <4> QED BY <3>1, LookBefore
    <3>3. g[c] = IF c = b THEN Look(f, i, h, b) ELSE h[c]
      OBVIOUS
    <3>4. c # b => c \in 0..b - 1
      OBVIOUS
    <3>5. g[c] = Look(f, i, h, c)
      <4> HIDE DEF g
      <4> QED BY <1>1, <3>3, <3>4
    <3> QED BY <3>2, <3>5
  <2>2. g = [c \in 0..b |-> g[c]]
    OBVIOUS
  <2>3. Looks(g, f, i, b)
    <3> HIDE DEF g
    <3>1. g = [c \in 0..b |-> Look(f, i, g, c)]
      BY <2>1, <2>2
    <3> QED BY <3>1 DEF Looks
  <2> QED BY <2>3
<1>2. 0 \in T
  <2>1. \A c \in 0..0 - 1 : FALSE
    OBVIOUS
  <2>2. \E h : Looks(h, f, i, 0)
    <3>1. PICK h : \A c \in 0..0 - 1 : h[c] = Look(f, i, h, c)
      BY <2>1
    <3> QED BY <1>1, <3>1
  <2> QED BY <2>2
<1>3. ASSUME NEW b \in 0 + 1..n, b - 1 \in T PROVE b \in T
  <2>1. PICK h : Looks(h, f, i, b - 1)
    BY <1>3
  <2>2. \A c \in 0..b - 1 : h[c] = Look(f, i, h, c)
    BY <2>1 DEF Looks
  <2>3. \E g : Looks(g, f, i, b)
    BY <1>1, <2>2
  <2> QED BY <2>3
<1>4. \A b \in 0..n : b \in T
  <2> HIDE DEF T
  <2> QED BY <1>2, <1>3, DayInduction
<1>5. n \in T
  BY <1>4
<1> QED BY <1>5

\* What rewind says of the index b: there is no snapshot of the instrument before, or
\* the run of snapshots up to from - 1 holds one, and no later one does.
Rewound(f, i, b, use) ==
  \/ /\ use.snap = 0 /\ use.from = 1
     /\ \A j \in 1..b : f[j].instrument = i => ~IsSnapshot(f, j)
  \/ /\ use.from \in 2..b + 1 /\ use.snap \in 1..use.from - 1 /\ f[use.snap].instrument = i
     /\ \A j \in use.snap..use.from - 1 : IsSnapshot(f, j)
     /\ \A j \in use.from..b : f[j].instrument = i => ~IsSnapshot(f, j)

LEMMA RewindIs ==
  ASSUME NEW f, IsLog(f), NEW i, NEW b \in 0..Len(f)
  PROVE  Rewound(f, i, b, rewind(f, i)[b])
<1>1. PICK n \in Nat : n = Len(f)
  BY LogIs
<1>2. PICK h : Looks(h, f, i, n) /\ rewind(f, i) = h
  <2> DEFINE Rhs(g) == [c \in 0..Len(f) |-> Look(f, i, g, c)]
             at == CHOOSE g : g = Rhs(g)
  <2>1. rewind(f, i) = at
    BY Zenon DEF rewind, Look
  <2>2. \E g : Looks(g, f, i, Len(f))
    BY <1>1, LooksExist
  <2>3. \E g : g = Rhs(g)
    BY <2>2, Zenon DEF Looks
  <2>4. at = Rhs(at)
    <3> HIDE DEF Rhs
    <3> QED BY <2>3, Zenon
  <2>5. Looks(at, f, i, Len(f))
    BY <2>4, Zenon DEF Looks
  <2> HIDE DEF at
  <2> QED BY <1>1, <2>1, <2>5
<1> DEFINE T == {c \in 0..n : \A m \in 0..c : Rewound(f, i, m, h[m])}
<1>3. ASSUME NEW c \in 0..n, \A m \in 0..c - 1 : Rewound(f, i, m, h[m])
      PROVE  Rewound(f, i, c, h[c])
  <2>1. h[c] = Look(f, i, h, c)
    BY <1>2 DEF Looks
  <2>2. PICK use : use = h[c] /\ Looked(f, i, h, c, use)
    BY <2>1, LookIs
  <2>3. PICK last, start, snap :
          /\ LastSnapshot(f, c, last)
          /\ last # 0 => RunFrom(f, last, start) /\ FoundIn(f, start, last, i, snap)
          /\ use = IF last = 0 THEN NoUse
                   ELSE IF snap # 0 THEN [snap |-> snap, from |-> last + 1] ELSE h[start - 1]
    BY <2>2 DEF Looked
  <2>4. CASE last = 0
    <3>1. use.snap = 0 /\ use.from = 1
      BY <2>3, <2>4 DEF NoUse
    <3>2. \A j \in 1..c : ~IsSnapshot(f, j)
      BY <2>3, <2>4 DEF LastSnapshot
    <3> QED BY <2>2, <3>1, <3>2 DEF Rewound
  <2>5. CASE last # 0 /\ snap # 0
    <3>1. use.snap = snap /\ use.from = last + 1
      BY <2>3, <2>5
    <3>2. last \in 1..c /\ \A j \in last + 1..c : ~IsSnapshot(f, j)
      BY <2>3, <2>5 DEF LastSnapshot
    <3>3. start \in 1..last /\ snap \in start..last /\ f[snap].instrument = i
          /\ \A j \in start..last : IsSnapshot(f, j)
      BY <2>3, <2>5 DEF RunFrom, FoundIn
    <3>4. last + 1 \in 2..c + 1 /\ (last + 1) - 1 = last /\ snap \in 1..last
          /\ \A j \in snap..last : j \in start..last
      BY <3>2, <3>3
    <3> QED BY <2>2, <3>1, <3>2, <3>3, <3>4 DEF Rewound
  <2>6. CASE last # 0 /\ snap = 0
    <3>1. last \in 1..c /\ \A j \in last + 1..c : ~IsSnapshot(f, j)
      BY <2>3, <2>6 DEF LastSnapshot
    <3>2. start \in 1..last
      BY <2>3, <2>6 DEF RunFrom
    <3>3. \A j \in start..last : f[j].instrument # i
      BY <2>3, <2>6, <3>2 DEF FoundIn
    <3>4. use = h[start - 1] /\ start - 1 \in 0..c - 1
      BY <2>3, <2>6, <3>1, <3>2
    <3>5. Rewound(f, i, start - 1, use)
      BY <1>3, <3>4
    <3>6. ASSUME NEW j \in 1..c, j >= start, f[j].instrument = i PROVE ~IsSnapshot(f, j)
      <4>1. j \in start..last \/ j \in last + 1..c
        BY <3>1, <3>2, <3>6
      <4> QED BY <3>1, <3>3, <3>6, <4>1
    <3>7. CASE use.snap = 0 /\ use.from = 1
               /\ \A j \in 1..start - 1 : f[j].instrument = i => ~IsSnapshot(f, j)
      <4>1. \A j \in 1..c : j \in 1..start - 1 \/ j >= start
        BY <3>2
      <4>2. \A j \in 1..c : f[j].instrument = i => ~IsSnapshot(f, j)
        BY <3>6, <3>7, <4>1
      <4> QED BY <2>2, <3>7, <4>2 DEF Rewound
    <3>8. CASE /\ use.from \in 2..(start - 1) + 1 /\ use.snap \in 1..use.from - 1 /\ f[use.snap].instrument = i
               /\ \A j \in use.snap..use.from - 1 : IsSnapshot(f, j)
               /\ \A j \in use.from..start - 1 : f[j].instrument = i => ~IsSnapshot(f, j)
      <4>1. use.from \in 2..c + 1
        BY <3>1, <3>2, <3>8
      <4>2. \A j \in use.from..c : j \in 1..c /\ (j \in use.from..start - 1 \/ j >= start)
        BY <3>2, <3>8
      <4>3. \A j \in use.from..c : f[j].instrument = i => ~IsSnapshot(f, j)
        BY <3>6, <3>8, <4>2
      <4> QED BY <2>2, <3>8, <4>1, <4>3 DEF Rewound
    <3> QED BY <3>5, <3>7, <3>8 DEF Rewound
  <2> QED BY <2>4, <2>5, <2>6
<1>4. 0 \in T
  <2>1. \A m \in 0..0 - 1 : Rewound(f, i, m, h[m])
    OBVIOUS
  <2>2. Rewound(f, i, 0, h[0])
    BY <1>3, <2>1
  <2>3. \A m \in 0..0 : m = 0
    OBVIOUS
  <2> QED BY <2>2, <2>3
<1>5. ASSUME NEW c \in 0 + 1..n, c - 1 \in T PROVE c \in T
  <2>1. \A m \in 0..c - 1 : Rewound(f, i, m, h[m])
    BY <1>5
  <2>2. Rewound(f, i, c, h[c])
    BY <1>3, <2>1
  <2>3. \A m \in 0..c : m = c \/ m \in 0..c - 1
    OBVIOUS
  <2>4. c \in 0..n
    OBVIOUS
  <2> QED BY <2>1, <2>2, <2>3, <2>4
<1>6. \A c \in 0..n : c \in T
  <2> HIDE DEF T
  <2>1. 0 \in Int /\ n \in Int
    OBVIOUS
  <2>2. \A c \in 0 + 1..n : c - 1 \in T => c \in T
    BY <1>5
  <2> QED BY <1>4, <2>1, <2>2, DayInduction
<1>7. b \in T /\ b \in 0..b
  BY <1>1, <1>6
<1> QED BY <1>2, <1>7

-----------------------------------------------------------------------------
(* The book a warm-up starts from, and the one it replays to. *)

LEMMA SplitsLonger ==
  ASSUME NEW g, IsLog(g), NEW s, IsLog(s), NEW n \in 1..Len(s), NEW a, NEW c,
         Splits(g, s, n, a), Splits(g, s, n + 1, c)
  PROVE  Longer(a, s[n], c)
<1>1. PICK G \in Nat, N \in Nat : G = Len(g) /\ N = Len(s)
  BY LogIs
<1>2. n \in 1..N
  BY <1>1
<1>3. /\ IsLog(a) /\ Len(a) = G + (n - 1) /\ \A i \in 1..G : a[i] = g[i]
      /\ \A i \in 1..n - 1 : a[G + i] = s[i]
  BY <1>1 DEF Splits
<1>4. /\ IsLog(c) /\ Len(c) = G + ((n + 1) - 1) /\ \A i \in 1..G : c[i] = g[i]
      /\ \A i \in 1..(n + 1) - 1 : c[G + i] = s[i]
  BY <1>1 DEF Splits
<1>5. Len(c) = (G + (n - 1)) + 1 /\ G + n = (G + (n - 1)) + 1 /\ n \in 1..(n + 1) - 1
  BY <1>2, <1>4
<1>6. c[(G + (n - 1)) + 1] = s[n]
  BY <1>4, <1>5
<1>7. ASSUME NEW j \in 1..G + (n - 1) PROVE c[j] = a[j]
  <2>1. CASE j <= G
    BY <1>3, <1>4, <2>1
  <2>2. CASE j > G
    <3>1. j - G \in 1..n - 1 /\ j - G \in 1..(n + 1) - 1 /\ G + (j - G) = j
      BY <1>2, <2>2
    <3>2. c[G + (j - G)] = s[j - G] /\ a[G + (j - G)] = s[j - G]
      BY <1>3, <1>4, <3>1
    <3> QED BY <3>1, <3>2
  <2> QED BY <2>1, <2>2
<1> QED BY <1>3, <1>4, <1>5, <1>6, <1>7 DEF Longer

\* A book with no record before it is empty.
LEMMA NewHolds ==
  ASSUME NEW log, IsLog(log), NEW i, \A j \in DOMAIN log : log[j].instrument # i
  PROVE  Holds(NewBook, log, i)
<1>1. DOMAIN log = 1..Len(log)
  BY LogIs
<1>2. ASSUME NEW side PROVE LevelsAfter(log, i, side) = {}
  <2>1. \A p : Untouched(log, i, side, p)
    BY <1>1 DEF Untouched, Touches
  <2>2. \A p : Word(log, i, side, p) = {}
    BY <2>1, WordIs
  <2>3. \A l : l \notin LevelsAfter(log, i, side)
    BY <2>2, LevelsAre
  <2> QED BY <2>3
<1>3. NewBook.bids = <<>> /\ NewBook.asks = <<>>
      /\ NewBook = [bids |-> NewBook.bids, asks |-> NewBook.asks]
  BY DEF NewBook
<1> QED BY <1>2, <1>3, NoLadder DEF Holds, HoldsSide

\* A delta that fits the log can be applied.
LEMMA FitsApplies ==
  ASSUME NEW log, NEW r, Fits(log, r), r.type = Delta, NEW b, Holds(b, log, r.instrument)
  PROVE  IsRecord(r) /\ CanApply(b, r)
<1>1. /\ IsRecord(r) /\ SideBid # SideAsk
      /\ \/ r.level.size # 0
         \/ \E l \in LevelsAfter(log, r.instrument, r.side) : l.price = r.level.price
  BY DEF Fits, SideBid, SideAsk
<1>2. PICK s : s = IF r.side = SideAsk THEN b.asks ELSE b.bids
  OBVIOUS
<1>3. r.side \in {SideBid, SideAsk} /\ r.level.price \in Prices
  BY <1>1 DEF IsRecord
<1>4. HoldsSide(s, log, r.instrument, r.side)
  BY <1>1, <1>2, <1>3 DEF Holds
<1>5. CanUpsert(s, r.level)
  <2>1. CASE r.level.size # 0
    BY <2>1 DEF CanUpsert
  <2>2. CASE \E l \in LevelsAfter(log, r.instrument, r.side) : l.price = r.level.price
    <3>1. PICK l \in Range(s) : l.price = r.level.price
      BY <1>4, <2>2 DEF HoldsSide
    <3>2. Ladder(s)
      BY <1>4 DEF HoldsSide
    <3>3. PICK n \in 1..Len(s) : s[n].price = r.level.price
      BY <3>1, <3>2, LadderRange
    <3>4. r.level.price \in Int /\ Prices \subseteq Int
      BY <1>3, PricesAreNumbers
    <3>5. PICK p : Place(s, r.level.price, p)
      BY <3>2, <3>4, PlaceExists
    <3>6. n = p
      BY <3>2, <3>3, <3>4, <3>5, LadderAt
    <3>7. n <= Len(s)
      BY <3>2, LogIs DEF Ladder
    <3>8. Found(s, r.level.price)
      BY <3>2, <3>3, <3>4, <3>5, <3>6, <3>7, LadderAt
    <3> QED BY <3>8 DEF CanUpsert
  <2> QED BY <1>1, <2>1, <2>2
<1>6. CanApply(b, r)
  BY <1>2, <1>5 DEF CanApply, Delta, SnapshotPointer
<1> QED BY <1>1, <1>6

\* A snapshot that fits is the book after it.
LEMMA FitsStarts ==
  ASSUME NEW log, NEW r, Fits(log, r), r.type = SnapshotPointer, NEW k, Longer(log, r, k)
  PROVE  Holds(Apply(NewBook, r), k, r.instrument)
<1>1. Stored(r.bids) /\ Stored(r.asks) /\ SideBid # SideAsk
  BY DEF Fits, SideBid, SideAsk
<1>2. SideOf(r, SideBid) = r.bids /\ SideOf(r, SideAsk) = r.asks
  BY <1>1 DEF SideOf
<1>3. HoldsSide(Ascending(r.bids), k, r.instrument, SideBid)
      /\ HoldsSide(Ascending(r.asks), k, r.instrument, SideAsk)
  BY <1>1, <1>2, SnapshotHolds DEF Stored
<1>4. Apply(NewBook, r) = [bids |-> Ascending(r.bids), asks |-> Ascending(r.asks)]
  BY DEF Apply, Delta, SnapshotPointer
<1> QED BY <1>3, <1>4 DEF Holds

\* A[n] is the log up to record n of the file s, for every n up to the file's length.
Along(A, s) ==
  /\ IsLog(s) /\ IsLog(A[0])
  /\ \A n \in 1..Len(s) : Longer(A[n - 1], s[n], A[n]) /\ Fits(A[n - 1], s[n])

\* The book at the end of the run of snapshots that the warm-up starts from.
LEMMA RunHolds ==
  ASSUME NEW A, NEW s, Along(A, s), NEW i, NEW b \in 0..Len(s), ~RunDisagrees(s, i, b + 1),
         NEW last \in 1..b, NEW snap \in 1..last, s[snap].instrument = i,
         \A j \in snap..last : IsSnapshot(s, j)
  PROVE  Holds(Apply(NewBook, s[snap]), A[last], i)
<1>1. PICK N \in Nat : N = Len(s)
  BY LogIs DEF Along
<1>2. /\ b \in 0..N
      /\ \A n \in 1..N : Longer(A[n - 1], s[n], A[n]) /\ Fits(A[n - 1], s[n])
  BY <1>1 DEF Along
<1>3. ASSUME NEW n \in snap..last, s[n].instrument = i
      PROVE  Apply(NewBook, s[n]) = Apply(NewBook, s[snap]) /\ Holds(Apply(NewBook, s[n]), A[n], i)
  <2>1. n \in 1..N /\ s[n].type = SnapshotPointer
    BY <1>2 DEF IsSnapshot
  <2>2. Holds(Apply(NewBook, s[n]), A[n], i)
    BY <1>2, <1>3, <2>1, FitsStarts
  <2>3. CASE n = snap
    BY <2>2, <2>3
  <2>4. CASE n # snap
    <3>1. snap < n /\ n \in 1..(b + 1) - 1 /\ snap \in 1..(b + 1) - 1 /\ \A j \in snap..n : j \in snap..last
      BY <1>2, <2>4
    <3>2. Apply(NewBook, s[snap]) = Apply(NewBook, s[n])
      BY <1>3, <3>1 DEF RunDisagrees
    <3> QED BY <2>2, <3>2
  <2> QED BY <2>3, <2>4
<1>4. PICK book : book = Apply(NewBook, s[snap])
  OBVIOUS
<1> DEFINE T == {n \in snap..last : Holds(book, A[n], i)}
<1>5. snap \in T
  BY <1>3, <1>4
<1>6. ASSUME NEW n \in snap + 1..last, n - 1 \in T PROVE n \in T
  <2>1. n \in 1..N /\ n \in snap..last /\ n - 1 \in snap..last
    BY <1>2
  <2>2. CASE s[n].instrument = i
    BY <1>3, <1>4, <2>1, <2>2
  <2>3. CASE s[n].instrument # i
    <3>1. Holds(book, A[n - 1], i) /\ Longer(A[n - 1], s[n], A[n])
      BY <1>2, <1>6, <2>1
    <3>2. Holds(book, A[n], i)
      BY <2>3, <3>1, OtherHolds
    <3> QED BY <2>1, <3>2
  <2> QED BY <2>2, <2>3
<1>7. \A n \in snap..last : n \in T
  <2> HIDE DEF T
  <2>1. snap \in Int /\ last \in Int
    BY <1>2
  <2> QED BY <1>5, <1>6, <2>1, DayInduction
<1>8. last \in T
  BY <1>2, <1>7
<1> QED BY <1>4, <1>8

\* One step of WarmUp's replay, h being the results before it.
ReplayStep(f, i, base, lo, h, j) ==
  IF j = lo THEN [ok |-> TRUE, book |-> base]
  ELSE LET b == h[j - 1] IN
       IF ~b.ok \/ f[j].type # Delta \/ f[j].instrument # i THEN b
       ELSE IF CanApply(b.book, f[j]) THEN [b EXCEPT !.book = Apply(@, f[j])]
       ELSE [b EXCEPT !.ok = FALSE]
Replays(h, f, i, base, lo, to) == h = [j \in lo..to |-> ReplayStep(f, i, base, lo, h, j)]

LEMMA StepBefore ==
  ASSUME NEW f, NEW i, NEW base, NEW lo, NEW g, NEW h, NEW j, j # lo => g[j - 1] = h[j - 1]
  PROVE  ReplayStep(f, i, base, lo, g, j) = ReplayStep(f, i, base, lo, h, j)
<1>1. CASE j = lo
  BY <1>1, Zenon DEF ReplayStep
<1>2. CASE j # lo
  BY <1>2, Zenon DEF ReplayStep
<1> QED BY <1>1, <1>2

LEMMA ReplaysExist ==
  ASSUME NEW f, NEW i, NEW base, NEW lo \in Int, NEW to \in Int, lo <= to
  PROVE  \E h : Replays(h, f, i, base, lo, to)
<1> DEFINE T == {j \in lo..to : \E h : Replays(h, f, i, base, lo, j)}
<1>1. ASSUME NEW b \in lo..to, NEW h,
             \A j \in lo..b - 1 : h[j] = ReplayStep(f, i, base, lo, h, j)
      PROVE  \E g : Replays(g, f, i, base, lo, b)
  <2> DEFINE g == [j \in lo..b |-> IF j = b THEN ReplayStep(f, i, base, lo, h, b) ELSE h[j]]
  <2>1. ASSUME NEW j \in lo..b PROVE g[j] = ReplayStep(f, i, base, lo, g, j)
    <3>1. j # lo => j - 1 \in lo..b /\ j - 1 # b
      OBVIOUS
    <3>2. j # lo => g[j - 1] = h[j - 1]
      BY <3>1
    <3>3. ReplayStep(f, i, base, lo, g, j) = ReplayStep(f, i, base, lo, h, j)
      <4> HIDE DEF g
      <4> QED BY <3>2, StepBefore
    <3>4. g[j] = IF j = b THEN ReplayStep(f, i, base, lo, h, b) ELSE h[j]
      OBVIOUS
    <3>5. j # b => j \in lo..b - 1
      OBVIOUS
    <3>6. g[j] = ReplayStep(f, i, base, lo, h, j)
      <4> HIDE DEF g
      <4> QED BY <1>1, <3>4, <3>5
    <3> QED BY <3>3, <3>6
  <2>2. g = [j \in lo..b |-> g[j]]
    OBVIOUS
  <2>3. Replays(g, f, i, base, lo, b)
    <3> HIDE DEF g
    <3>1. g = [j \in lo..b |-> ReplayStep(f, i, base, lo, g, j)]
      BY <2>1, <2>2
    <3> QED BY <3>1 DEF Replays
  <2> QED BY <2>3
<1>2. lo \in T
  <2>1. \A j : ~(j \in lo..lo - 1)
    OBVIOUS
  <2>2. \E h : Replays(h, f, i, base, lo, lo)
    <3>1. PICK h : \A j \in lo..lo - 1 : h[j] = ReplayStep(f, i, base, lo, h, j)
      BY <2>1
    <3>2. lo \in lo..to
      OBVIOUS
    <3> QED BY <1>1, <3>1, <3>2
  <2> QED BY <2>2
<1>3. ASSUME NEW b \in lo + 1..to, b - 1 \in T PROVE b \in T
  <2>1. PICK h : Replays(h, f, i, base, lo, b - 1)
    BY <1>3
  <2>2. \A j \in lo..b - 1 : h[j] = ReplayStep(f, i, base, lo, h, j)
    BY <2>1 DEF Replays
  <2>3. \E g : Replays(g, f, i, base, lo, b)
    BY <1>1, <2>2
  <2> QED BY <2>3
<1>4. \A b \in lo..to : b \in T
  <2> HIDE DEF T
  <2> QED BY <1>2, <1>3, DayInduction
<1>5. to \in T
  BY <1>4
<1> QED BY <1>5

\* The book at j, if no delta was refused.
ReplayedTo(A, i, h, j) == \E x : h[j] = [ok |-> TRUE, book |-> x] /\ Holds(x, A[j], i)

LEMMA ReplayHolds ==
  ASSUME NEW A, NEW s, Along(A, s), NEW i, NEW b \in 0..Len(s), NEW lo \in 0..b, NEW base,
         Holds(base, A[lo], i), NEW h, Replays(h, s, i, base, lo, b),
         \A j \in lo + 1..b : s[j].instrument = i => ~IsSnapshot(s, j)
  PROVE  ReplayedTo(A, i, h, b)
<1>1. PICK N \in Nat : N = Len(s)
  BY LogIs DEF Along
<1>2. /\ b \in 0..N /\ lo \in Nat
      /\ \A n \in 1..N : Longer(A[n - 1], s[n], A[n]) /\ Fits(A[n - 1], s[n])
  BY <1>1 DEF Along
<1>3. \A j \in lo..b : h[j] = ReplayStep(s, i, base, lo, h, j)
  BY DEF Replays
<1> DEFINE T == {j \in lo..b : ReplayedTo(A, i, h, j)}
<1>4. lo \in T
  <2>1. lo \in lo..b
    BY <1>2
  <2>2. h[lo] = [ok |-> TRUE, book |-> base]
    BY <1>3, <2>1 DEF ReplayStep
  <2> QED BY <2>1, <2>2 DEF ReplayedTo
<1>5. ASSUME NEW j \in lo + 1..b, j - 1 \in T PROVE j \in T
  <2>1. j \in lo..b /\ j # lo /\ j \in 1..N
    BY <1>2
  <2>2. PICK x : h[j - 1] = [ok |-> TRUE, book |-> x] /\ Holds(x, A[j - 1], i)
    BY <1>5 DEF ReplayedTo
  <2>3. PICK r, c : r = s[j] /\ c = h[j - 1]
    OBVIOUS
  <2>4. Longer(A[j - 1], r, A[j]) /\ Fits(A[j - 1], r)
    BY <1>2, <2>1, <2>3
  <2>5. h[j] = ReplayStep(s, i, base, lo, h, j)
    BY <1>3, <2>1
  <2>6. h[j] = IF ~c.ok \/ r.type # Delta \/ r.instrument # i THEN c
               ELSE IF CanApply(c.book, r) THEN [c EXCEPT !.book = Apply(@, r)]
               ELSE [c EXCEPT !.ok = FALSE]
    BY <2>1, <2>3, <2>5, Zenon DEF ReplayStep
  <2>7. c = [ok |-> TRUE, book |-> x] /\ c.ok = TRUE /\ c.book = x
    BY <2>2, <2>3
  <2>8. CASE r.type = Delta /\ r.instrument = i
    <3>1. IsRecord(r) /\ CanApply(x, r)
      BY <2>2, <2>4, <2>8, FitsApplies
    <3>2. PICK y : y = Apply(x, r)
      OBVIOUS
    <3>3. h[j] = [c EXCEPT !.book = Apply(c.book, r)]
      BY <2>6, <2>7, <2>8, <3>1
    <3>4. h[j] = [c EXCEPT !.book = y]
      BY <2>7, <3>2, <3>3
    <3>5. h[j] = [ok |-> TRUE, book |-> y]
      BY <2>7, <3>4
    <3>6. r.type # Trade
      BY <2>8 DEF Delta, Trade
    <3>7. Holds(y, A[j], i)
      BY <2>2, <2>4, <2>8, <3>1, <3>2, <3>6, ApplyHolds
    <3> QED BY <2>1, <3>5, <3>7 DEF ReplayedTo
  <2>9. CASE r.type # Delta \/ r.instrument # i
    <3>1. h[j] = [ok |-> TRUE, book |-> x]
      BY <2>6, <2>7, <2>9
    <3>2. r.instrument # i \/ r.type = Trade
      <4>1. r.instrument = i => r.type # SnapshotPointer
        BY <2>3 DEF IsSnapshot
      <4>2. r.type \in {Trade, Delta, SnapshotPointer}
        BY <2>4 DEF Fits
      <4> QED BY <2>9, <4>1, <4>2
    <3>3. Holds(x, A[j], i)
      BY <2>2, <2>4, <3>2, OtherHolds
    <3> QED BY <2>1, <3>1, <3>3 DEF ReplayedTo
  <2> QED BY <2>8, <2>9
<1>6. \A j \in lo..b : j \in T
  <2> HIDE DEF T
  <2>1. lo \in Int /\ b \in Int
    BY <1>2
  <2> QED BY <1>4, <1>5, <2>1, DayInduction
<1>7. b \in T
  BY <1>2, <1>6
<1> QED BY <1>7

\* The logs before the records of a file.
LEMMA FileIsAlong ==
  ASSUME NEW g, NEW s, NEW k, BookedFile(g, s, k)
  PROVE  Along([n \in 0..Len(s) |-> Before(k[1], k[2], n + 1)], s)
<1> DEFINE A == [n \in 0..Len(s) |-> Before(k[1], k[2], n + 1)]
<1>1. PICK N \in Nat : N = Len(s)
  BY LogIs DEF BookedFile
<1>2. /\ IsLog(g) /\ IsLog(s) /\ FileFits(g, s)
      /\ \A n \in 1..N + 1 : Splits(g, s, n, Before(k[1], k[2], n))
  BY <1>1 DEF BookedFile
<1>3. ASSUME NEW n \in 0..N PROVE A[n] = Before(k[1], k[2], n + 1) /\ Splits(g, s, n + 1, A[n])
  <2>1. A[n] = Before(k[1], k[2], n + 1) /\ n + 1 \in 1..N + 1
    BY <1>1
  <2> HIDE DEF A
  <2> QED BY <1>2, <2>1
<1> HIDE DEF A
<1>4. IsLog(A[0])
  BY <1>1, <1>3 DEF Splits
<1>5. ASSUME NEW n \in 1..N PROVE Longer(A[n - 1], s[n], A[n]) /\ Fits(A[n - 1], s[n])
  <2>1. n - 1 \in 0..N /\ n \in 0..N /\ (n - 1) + 1 = n
    OBVIOUS
  <2>2. Splits(g, s, n, A[n - 1]) /\ Splits(g, s, n + 1, A[n])
    BY <1>3, <2>1
  <2>3. n \in 1..Len(s)
    BY <1>1
  <2>4. Longer(A[n - 1], s[n], A[n])
    BY <1>2, <2>2, <2>3, SplitsLonger
  <2>5. Fits(A[n - 1], s[n])
    BY <1>2, <2>2, <2>3 DEF FileFits
  <2> QED BY <2>4, <2>5
<1>6. Along(A, s)
  BY <1>1, <1>2, <1>4, <1>5 DEF Along
<1> QED BY <1>6 DEF A

LEMMA SeekIs ==
  ASSUME NEW f, IsLog(f), \A j \in 1..Len(f) : f[j].ts \in Int, NEW t \in Int
  PROVE  SeekTime(f, t) \in 1..Len(f) + 1
<1>1. PICK N \in Nat : N = Len(f) /\ DOMAIN f = 1..N /\ \A j \in 1..N : f[j].ts \in Int
  BY LogIs
<1> DEFINE T == {j \in 1..N : f[j].ts >= t}
           First(j) == f[j].ts >= t /\ \A m \in 1..j - 1 : f[m].ts < t
<1>2. SeekTime(f, t) = IF \E j \in 1..N : f[j].ts >= t THEN CHOOSE j \in 1..N : First(j) ELSE N + 1
  <2>1. SeekTime(f, t) = IF \E j \in DOMAIN f : f[j].ts >= t
                         THEN CHOOSE j \in DOMAIN f : First(j) ELSE Len(f) + 1
    BY Zenon DEF SeekTime
  <2> HIDE DEF First
  <2> QED BY <1>1, <2>1, Zenon
<1>3. CASE \E j \in 1..N : f[j].ts >= t
  <2>1. T \in SUBSET Nat /\ T # {}
    BY <1>3
  <2>2. PICK a \in T : \A y \in T : a <= y
    <3> HIDE DEF T
    <3> QED BY <2>1, LeastNumber
  <2>3. ASSUME NEW m \in 1..a - 1 PROVE f[m].ts < t
    <3>1. m \in 1..N /\ m < a /\ m \in Int /\ a \in Int
      BY <2>2
    <3>2. m \notin T
      BY <2>2, <3>1
    <3>3. ~(f[m].ts >= t) /\ f[m].ts \in Int
      BY <1>1, <3>1, <3>2
    <3> QED BY <3>3
  <2>4. a \in 1..N /\ First(a)
    BY <2>2, <2>3
  <2>5. PICK idx : idx = SeekTime(f, t)
    OBVIOUS
  <2>6. idx = CHOOSE j \in 1..N : First(j)
    BY <1>2, <1>3, <2>5
  <2>7. idx \in 1..N
    <3> HIDE DEF First
    <3> QED BY <2>4, <2>6
  <2> QED BY <1>1, <2>5, <2>7
<1>4. CASE ~\E j \in 1..N : f[j].ts >= t
  BY <1>1, <1>2, <1>4
<1> QED BY <1>3, <1>4

\* What WarmUp computes: the replay from the snapshot that rewind finds.
LEMMA WarmUpReplays ==
  ASSUME NEW f, NEW i, NEW t, NEW b, b = SeekTime(f, t) - 1, NEW use, use = rewind(f, i)[b],
         NEW base, base = (IF use.snap = 0 THEN NewBook ELSE Apply(NewBook, f[use.snap])),
         NEW lo \in Int, lo = use.from - 1, b \in Int, lo <= b
  PROVE  \E h : Replays(h, f, i, base, lo, b) /\ WarmUp(f, i, t) = h[b]
<1> DEFINE Rhs(g) == [j \in lo..b |-> ReplayStep(f, i, base, lo, g, j)]
           at == CHOOSE g : g = Rhs(g)
<1>1. WarmUp(f, i, t) = at[b]
  <2> DEFINE idx == SeekTime(f, t)
             from == rewind(f, i)[idx - 1]
             start == IF from.snap = 0 THEN NewBook ELSE Apply(NewBook, f[from.snap])
             Result(g) == [j \in from.from - 1..idx - 1 |-> ReplayStep(f, i, start, from.from - 1, g, j)]
             result == CHOOSE g : g = Result(g)
  <2>1. WarmUp(f, i, t) = result[idx - 1]
    BY Zenon DEF WarmUp, ReplayStep
  <2>2. b = idx - 1 /\ use = from /\ lo = from.from - 1 /\ base = start
    OBVIOUS
  <2> HIDE DEF idx, from, start
  <2>3. \A g : Result(g) = Rhs(g)
    BY <2>2, Zenon
  <2> HIDE DEF Result, Rhs
  <2>4. result = at
    BY <2>3, Zenon
  <2> HIDE DEF result, at
  <2> QED BY <2>1, <2>2, <2>4, Zenon
<1>2. \E g : Replays(g, f, i, base, lo, b)
  BY ReplaysExist
<1>3. \E g : g = Rhs(g)
  BY <1>2, Zenon DEF Replays
<1>4. at = Rhs(at)
  <2> HIDE DEF Rhs
  <2> QED BY <1>3, Zenon
<1>5. Replays(at, f, i, base, lo, b)
  BY <1>4, Zenon DEF Replays
<1> HIDE DEF at
<1> QED BY <1>1, <1>5

\* The warm-up, the file holding a snapshot of the instrument or the log before it none of its records.
LEMMA WarmUpHolds ==
  ASSUME NEW A, NEW s, Along(A, s), NEW i, NEW t, NEW b \in 0..Len(s), b = SeekTime(s, t) - 1,
         ~RunDisagrees(s, i, b + 1),
         \/ \E j \in 1..b : s[j].instrument = i /\ IsSnapshot(s, j)
         \/ \A j \in DOMAIN A[0] : A[0][j].instrument # i
  PROVE  \E x : WarmUp(s, i, t) = [ok |-> TRUE, book |-> x] /\ Holds(x, A[b], i)
<1>1. PICK N \in Nat : N = Len(s) /\ IsLog(s) /\ IsLog(A[0])
  BY LogIs DEF Along
<1>2. PICK use : use = rewind(s, i)[b] /\ Rewound(s, i, b, use)
  BY <1>1, RewindIs
<1>3. PICK base : base = IF use.snap = 0 THEN NewBook ELSE Apply(NewBook, s[use.snap])
  OBVIOUS
<1>4. PICK lo \in 0..b : /\ lo = use.from - 1 /\ Holds(base, A[lo], i)
                         /\ \A j \in lo + 1..b : s[j].instrument = i => ~IsSnapshot(s, j)
  <2>1. CASE /\ use.snap = 0 /\ use.from = 1
             /\ \A j \in 1..b : s[j].instrument = i => ~IsSnapshot(s, j)
    <3>1. 0 \in 0..b /\ 0 = use.from - 1 /\ 0 + 1 = 1
      BY <1>1, <2>1
    <3>2. \A j \in DOMAIN A[0] : A[0][j].instrument # i
      BY <2>1
    <3>3. Holds(base, A[0], i)
      BY <1>1, <1>3, <2>1, <3>2, NewHolds
    <3> QED BY <2>1, <3>1, <3>3
  <2>2. CASE /\ use.from \in 2..b + 1 /\ use.snap \in 1..use.from - 1 /\ s[use.snap].instrument = i
             /\ \A j \in use.snap..use.from - 1 : IsSnapshot(s, j)
             /\ \A j \in use.from..b : s[j].instrument = i => ~IsSnapshot(s, j)
    <3>1. PICK last, snap : last = use.from - 1 /\ snap = use.snap
      OBVIOUS
    <3>2. /\ last \in 1..b /\ snap \in 1..last /\ snap # 0 /\ last \in 0..b /\ last + 1 = use.from
      BY <1>1, <2>2, <3>1
    <3>3. s[snap].instrument = i /\ \A j \in snap..last : IsSnapshot(s, j)
      BY <2>2, <3>1
    <3>4. Holds(Apply(NewBook, s[snap]), A[last], i)
      BY <3>2, <3>3, RunHolds
    <3>5. base = Apply(NewBook, s[snap])
      BY <1>3, <3>1, <3>2
    <3> QED BY <2>2, <3>1, <3>2, <3>4, <3>5
  <2> QED BY <1>2, <2>1, <2>2 DEF Rewound
<1>5. PICK h : Replays(h, s, i, base, lo, b) /\ WarmUp(s, i, t) = h[b]
  <2>1. lo \in Int /\ b \in Int /\ lo <= b
    BY <1>1, <1>4
  <2> QED BY <1>2, <1>3, <1>4, <2>1, WarmUpReplays
<1>6. ReplayedTo(A, i, h, b)
  BY <1>4, <1>5, ReplayHolds
<1> QED BY <1>5, <1>6 DEF ReplayedTo

LEMMA HoldsIsBook ==
  ASSUME NEW x, NEW log, NEW i, Holds(x, log, i)
  PROVE  IsBookAfter(x.bids, x.asks, log, i)
<1>1. HoldsSide(x.bids, log, i, SideBid) /\ HoldsSide(x.asks, log, i, SideAsk)
  BY DEF Holds
<1> QED BY <1>1, ReverseIs DEF HoldsSide, IsBookAfter

(***************************************************************************)
(* The warm-up on a finished file: from the snapshot that rewind finds,    *)
(* over however many runs without the instrument, or from an empty book,   *)
(* the replay applies every delta and ends at the book that all of the     *)
(* venue's records before the time add up to.  The two exceptions are      *)
(* those of the property, a run of snapshots that contradicts itself and a *)
(* file without a snapshot of an instrument of an earlier day.             *)
(***************************************************************************)
THEOREM WarmUpIsTheBook == Spec => []WarmUpFindsTheBook
<1>1. ASSUME Keyed, Filed, Cadence, Recorded PROVE WarmUpFindsTheBook
  <2>1. ASSUME pc = "done", NEW k \in DOMAIN parts, NEW i \in Instruments, NEW t \in Times, NEW idx,
               idx = SeekTime(parts[k], t), ~RunDisagrees(parts[k], i, idx), ~NeedsEarlierDay(k, i, idx)
        PROVE  Equal(WarmUp(parts[k], i, t), Before(k[1], k[2], idx), i)
    <3>1. Converting
      BY <2>1 DEF Converting
    <3>2. PICK g, s : s = parts[k] /\ BookedFile(g, s, k)
      BY <1>1, <2>1, <3>1, FilesAreBooked
    <3>3. PICK N \in Nat : N = Len(s) /\ IsLog(s) /\ DOMAIN s = 1..N
      BY <3>2, LogIs DEF BookedFile
    <3>4. \A j \in 1..N : s[j].ts \in Int
      BY <1>1, <2>1, <3>1, <3>2, <3>3 DEF Filed, OfDay, InDay
    <3>5. t \in Int
      BY <2>1, ArchiveAssumption DEF Times
    <3>6. idx \in 1..N + 1
      BY <2>1, <3>2, <3>3, <3>4, <3>5, SeekIs
    <3>7. PICK b \in 0..N : b = idx - 1 /\ b + 1 = idx
      BY <3>6
    <3>8. PICK A : /\ A = [n \in 0..N |-> Before(k[1], k[2], n + 1)]
                   /\ Along(A, s)
      BY <3>2, <3>3, FileIsAlong
    <3>9. A[b] = Before(k[1], k[2], idx) /\ A[0] = Before(k[1], k[2], 1)
      BY <3>7, <3>8
    <3>10. \/ \E j \in 1..b : s[j].instrument = i /\ IsSnapshot(s, j)
           \/ \A j \in DOMAIN A[0] : A[0][j].instrument # i
      BY <2>1, <3>2, <3>7, <3>9 DEF NeedsEarlierDay
    <3>11. PICK x : WarmUp(s, i, t) = [ok |-> TRUE, book |-> x] /\ Holds(x, A[b], i)
      BY <2>1, <3>2, <3>3, <3>7, <3>8, <3>10, WarmUpHolds
    <3>12. PICK w : w = WarmUp(s, i, t)
      OBVIOUS
    <3>13. w.ok = TRUE /\ w.book = x
      BY <3>11, <3>12
    <3>14. IsBookAfter(x.bids, x.asks, A[b], i)
      BY <3>11, HoldsIsBook
    <3>15. Equal(w, A[b], i)
      BY <3>13, <3>14 DEF Equal
    <3> QED BY <3>2, <3>9, <3>12, <3>15
  <2> QED BY <2>1, Zenon DEF WarmUpFindsTheBook
<1> QED
  BY <1>1, ArchiveInvariant, InitFiled, FiledStep, InitCadence, CadenceStep, InitRecorded,
     RecordedStep, PTL DEF Spec, ArchiveInv
=============================================================================
