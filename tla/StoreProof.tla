----------------------------- MODULE StoreProof -----------------------------
(***************************************************************************)
(* A file that opens is whole, a file whose Close returned opens, through  *)
(* every failure and crash, for every block size, buffer and content.      *)
(***************************************************************************)
EXTENDS Store, WellFoundedInduction, TLAPS

-----------------------------------------------------------------------------
(***************************************************************************)
(* Sequences of any items.                                                 *)
(***************************************************************************)

Items(s) == {s[i] : i \in DOMAIN s}
IsSeq(s) == s \in Seq(Items(s))

LEMMA SeqIs ==
  ASSUME NEW S, NEW s \in Seq(S)
  PROVE  IsSeq(s)
<1>1. Len(s) \in Nat /\ DOMAIN s = 1..Len(s) /\ s = [i \in 1..Len(s) |-> s[i]]
  OBVIOUS
<1>2. \A i \in 1..Len(s) : s[i] \in Items(s)
  BY <1>1 DEF Items
<1> QED BY <1>1, <1>2 DEF IsSeq

LEMMA FunIs ==
  ASSUME NEW n \in Nat, NEW f, DOMAIN f = 1..n, f = [i \in 1..n |-> f[i]]
  PROVE  IsSeq(f) /\ Len(f) = n
<1>1. \A i \in 1..n : f[i] \in Items(f)
  BY DEF Items
<1>2. f \in Seq(Items(f))
  BY <1>1
<1> QED BY <1>2 DEF IsSeq

LEMMA LenIs ==
  ASSUME NEW s, IsSeq(s)
  PROVE  Len(s) \in Nat /\ DOMAIN s = 1..Len(s)
BY DEF IsSeq

\* Two sequences with the same items are the same.
LEMMA SameIs ==
  ASSUME NEW s, NEW t, IsSeq(s), IsSeq(t), Len(s) = Len(t), \A i \in 1..Len(s) : s[i] = t[i]
  PROVE  s = t
<1>1. s \in Seq(Items(s) \cup Items(t)) /\ t \in Seq(Items(s) \cup Items(t))
  BY DEF IsSeq
<1> HIDE DEF IsSeq
<1> QED BY <1>1

LEMMA NoneIs == IsSeq(<<>>) /\ Len(<<>>) = 0
BY DEF IsSeq, Items

LEMMA OneIs ==
  ASSUME NEW e
  PROVE  IsSeq(<<e>>) /\ Len(<<e>>) = 1 /\ <<e>>[1] = e
BY DEF IsSeq, Items

LEMMA JoinIs ==
  ASSUME NEW s, NEW t, IsSeq(s), IsSeq(t)
  PROVE  /\ IsSeq(s \o t) /\ Len(s \o t) = Len(s) + Len(t)
         /\ \A i \in 1..Len(s) : (s \o t)[i] = s[i]
         /\ \A i \in 1..Len(t) : (s \o t)[Len(s) + i] = t[i]
         /\ \A i \in 1..Len(s) + Len(t) :
              i \notin 1..Len(s) => i - Len(s) \in 1..Len(t) /\ (s \o t)[i] = t[i - Len(s)]
<1>1. s \o t \in Seq(Items(s) \cup Items(t))
  BY DEF IsSeq
<1>2. IsSeq(s \o t)
  BY <1>1, SeqIs
<1>3. /\ Len(s \o t) = Len(s) + Len(t)
      /\ \A i \in 1..Len(s) : (s \o t)[i] = s[i]
      /\ \A i \in 1..Len(t) : (s \o t)[Len(s) + i] = t[i]
  BY DEF IsSeq
<1>4. \A i \in 1..Len(s) + Len(t) :
        i \notin 1..Len(s) => i - Len(s) \in 1..Len(t) /\ (s \o t)[i] = t[i - Len(s)]
  BY DEF IsSeq
<1> QED BY <1>2, <1>3, <1>4

\* u is s with t after it.
Joined(s, t, u) ==
  /\ IsSeq(u) /\ Len(u) = Len(s) + Len(t)
  /\ \A i \in 1..Len(s) : u[i] = s[i]
  /\ \A i \in 1..Len(t) : u[Len(s) + i] = t[i]
  /\ \A i \in 1..Len(s) + Len(t) :
       i \notin 1..Len(s) => i - Len(s) \in 1..Len(t) /\ u[i] = t[i - Len(s)]

LEMMA JoinJoined ==
  ASSUME NEW s, NEW t, IsSeq(s), IsSeq(t)
  PROVE  Joined(s, t, s \o t) /\ IsSeq(s \o t)
BY JoinIs DEF Joined

LEMMA AppendIs ==
  ASSUME NEW s, IsSeq(s), NEW e
  PROVE  /\ Append(s, e) = s \o <<e>>
         /\ IsSeq(Append(s, e)) /\ Len(Append(s, e)) = Len(s) + 1
         /\ \A i \in 1..Len(s) : Append(s, e)[i] = s[i]
         /\ Append(s, e)[Len(s) + 1] = e
<1>1. s \in Seq(Items(s) \cup {e})
  BY DEF IsSeq
<1>2. Append(s, e) \in Seq(Items(s) \cup {e})
  BY <1>1
<1>3. IsSeq(Append(s, e))
  BY <1>2, SeqIs
<1> QED BY <1>1, <1>3

\* t is s with e after it.
Longer(s, e, t) ==
  /\ IsSeq(t) /\ Len(t) = Len(s) + 1
  /\ \A i \in 1..Len(s) : t[i] = s[i]
  /\ t[Len(s) + 1] = e

LEMMA AppendLonger ==
  ASSUME NEW s, IsSeq(s), NEW e
  PROVE  Longer(s, e, Append(s, e))
BY AppendIs DEF Longer

LEMMA PartIs ==
  ASSUME NEW s, IsSeq(s), NEW a \in Nat \ {0}, NEW b \in Nat, b <= Len(s), a <= b + 1
  PROVE  /\ IsSeq(SubSeq(s, a, b)) /\ Len(SubSeq(s, a, b)) = b - a + 1
         /\ \A i \in 1..b - a + 1 : SubSeq(s, a, b)[i] = s[a + i - 1]
<1>1. s \in Seq(Items(s)) /\ Len(s) \in Nat
  BY DEF IsSeq
<1>2. SubSeq(s, a, b) \in Seq(Items(s))
  BY <1>1
<1>3. IsSeq(SubSeq(s, a, b))
  BY <1>2, SeqIs
<1>4. /\ Len(SubSeq(s, a, b)) = b - a + 1
      /\ \A i \in 1..b - a + 1 : SubSeq(s, a, b)[i] = s[a + i - 1]
  BY <1>1
<1> QED BY <1>3, <1>4

\* The part of a joined sequence that one of the joined ones is.
LEMMA MiddleIs ==
  ASSUME NEW s, NEW t, NEW u, IsSeq(s), IsSeq(t), IsSeq(u)
  PROVE  SubSeq(s \o t \o u, Len(s) + 1, Len(s) + Len(t)) = t
<1>1. /\ s \in Seq(Items(s) \cup Items(t) \cup Items(u))
      /\ t \in Seq(Items(s) \cup Items(t) \cup Items(u))
      /\ u \in Seq(Items(s) \cup Items(t) \cup Items(u))
  BY DEF IsSeq
<1> QED BY <1>1

LEMMA JoinAssoc ==
  ASSUME NEW s, NEW t, NEW u, IsSeq(s), IsSeq(t), IsSeq(u)
  PROVE  (s \o t) \o u = s \o (t \o u)
<1>1. /\ s \in Seq(Items(s) \cup Items(t) \cup Items(u))
      /\ t \in Seq(Items(s) \cup Items(t) \cup Items(u))
      /\ u \in Seq(Items(s) \cup Items(t) \cup Items(u))
  BY DEF IsSeq
<1> QED BY <1>1

Associate(s, t, u) == (s \o t) \o u = s \o (t \o u)

LEMMA JoinAssociates ==
  ASSUME NEW s, NEW t, NEW u, IsSeq(s), IsSeq(t), IsSeq(u)
  PROVE  Associate(s, t, u)
BY JoinAssoc DEF Associate

LEMMA JoinNone ==
  ASSUME NEW s, IsSeq(s)
  PROVE  s \o <<>> = s /\ <<>> \o s = s
BY DEF IsSeq

\* The part of a longer sequence that lies in its front.
LEMMA FrontPart ==
  ASSUME NEW s, NEW t, IsSeq(s), IsSeq(t), NEW a \in Nat \ {0}, NEW b \in Nat,
         b <= Len(s), a <= b + 1
  PROVE  SubSeq(s \o t, a, b) = SubSeq(s, a, b)
<1>1. /\ IsSeq(s \o t) /\ Len(s \o t) = Len(s) + Len(t) /\ Len(s) \in Nat /\ Len(t) \in Nat
      /\ \A i \in 1..Len(s) : (s \o t)[i] = s[i]
  BY JoinIs, LenIs
<1> DEFINE p == SubSeq(s \o t, a, b) q == SubSeq(s, a, b)
<1>2. /\ IsSeq(p) /\ Len(p) = b - a + 1
      /\ \A i \in 1..b - a + 1 : p[i] = (s \o t)[a + i - 1]
  <2>1. b <= Len(s \o t)
    BY <1>1
  <2> QED BY <1>1, <2>1, PartIs
<1>3. /\ IsSeq(q) /\ Len(q) = b - a + 1
      /\ \A i \in 1..b - a + 1 : q[i] = s[a + i - 1]
  BY PartIs
<1>4. \A i \in 1..b - a + 1 : a + i - 1 \in 1..Len(s)
  BY <1>1
<1>5. \A i \in 1..Len(p) : p[i] = q[i]
  BY <1>1, <1>2, <1>3, <1>4
<1> HIDE DEF p, q
<1>6. p = q
  BY <1>2, <1>3, <1>5, SameIs
<1> QED BY <1>6 DEF p, q

-----------------------------------------------------------------------------
(***************************************************************************)
(* Blocks.                                                                 *)
(***************************************************************************)

\* The number of blocks of n records.
LEMMA BlockCount ==
  ASSUME NEW n \in Nat
  PROVE  /\ blockCountFor(n) \in Nat
         /\ n <= blockCountFor(n) * BlockSizeRecords
         /\ blockCountFor(n) * BlockSizeRecords < n + BlockSizeRecords
         /\ blockCountFor(n) * BlockSizeRecords \in Nat
<1>1. BlockSizeRecords \in Nat \ {0}
  BY StoreAssumption
<1>2. PICK a \in Nat, b \in Nat \ {0} : b = BlockSizeRecords /\ a = n + b - 1
  BY <1>1
<1>3. a \div b \in Nat /\ (a \div b) * b <= a /\ a < (a \div b) * b + b /\ (a \div b) * b \in Nat
  OBVIOUS
<1>4. blockCountFor(n) = a \div b
  BY <1>2 DEF blockCountFor
<1> QED BY <1>2, <1>3, <1>4

LEMMA BlockCountUnique ==
  ASSUME NEW n \in Nat, NEW m \in Nat,
         n <= m * BlockSizeRecords, m * BlockSizeRecords < n + BlockSizeRecords
  PROVE  m = blockCountFor(n)
<1>1. PICK b \in Nat \ {0} : b = BlockSizeRecords
  BY StoreAssumption
<1>2. PICK k \in Nat : k = blockCountFor(n)
  BY BlockCount
<1>3. n <= k * b /\ k * b < n + b /\ n <= m * b /\ m * b < n + b
  BY <1>1, <1>2, BlockCount
<1>4. k + 1 <= m => (k + 1) * b <= m * b
  OBVIOUS
<1>5. m + 1 <= k => (m + 1) * b <= k * b
  OBVIOUS
<1>6. (k + 1) * b = k * b + b /\ (m + 1) * b = m * b + b /\ k * b \in Int /\ m * b \in Int
  OBVIOUS
<1>7. ~(k + 1 <= m) /\ ~(m + 1 <= k)
  BY <1>3, <1>4, <1>5, <1>6
<1> QED BY <1>2, <1>7

\* A record starts a block when the blocks before it are full.
LEMMA BlockStarts ==
  ASSUME NEW n \in Nat
  PROVE  n % BlockSizeRecords = 0 <=> n = blockCountFor(n) * BlockSizeRecords
<1>1. PICK b \in Nat \ {0} : b = BlockSizeRecords
  BY StoreAssumption
<1>2. PICK q \in Nat, r \in Nat : q = n \div b /\ r = n % b
  OBVIOUS
<1>3. r < b /\ r = n - q * b /\ q * b \in Nat
  BY <1>2
<1>4. ASSUME r = 0 PROVE n = blockCountFor(n) * b
  <2>1. n <= q * b /\ q * b < n + b /\ n = q * b
    BY <1>3, <1>4
  <2>2. q = blockCountFor(n)
    BY <1>1, <2>1, BlockCountUnique
  <2> QED BY <2>1, <2>2
<1>5. ASSUME n = blockCountFor(n) * b PROVE r = 0
  <2>1. PICK k \in Nat : k = blockCountFor(n)
    BY BlockCount
  <2>2. n = k * b
    BY <1>5, <2>1
  <2>3. r = k * b - q * b
    BY <1>3, <2>2
  <2>4. k * b - q * b = (k - q) * b
    OBVIOUS
  <2>5. k - q >= 1 => (k - q) * b >= b
    OBVIOUS
  <2>6. k - q <= 0 => (k - q) * b <= 0
    OBVIOUS
  <2>7. k - q >= 1 \/ k - q <= 0
    OBVIOUS
  <2> QED BY <1>3, <2>3, <2>4, <2>5, <2>6, <2>7
<1> QED BY <1>1, <1>2, <1>4, <1>5

\* One record more.
LEMMA BlockCountNext ==
  ASSUME NEW n \in Nat
  PROVE  /\ n % BlockSizeRecords = 0 => blockCountFor(n + 1) = blockCountFor(n) + 1
         /\ n % BlockSizeRecords # 0 => /\ blockCountFor(n + 1) = blockCountFor(n)
                                        /\ n < blockCountFor(n) * BlockSizeRecords
                                        /\ blockCountFor(n) >= 1
<1>1. PICK b \in Nat \ {0} : b = BlockSizeRecords
  BY StoreAssumption
<1>2. PICK k \in Nat : k = blockCountFor(n)
  BY BlockCount
<1>3. n <= k * b /\ k * b < n + b /\ k * b \in Nat /\ (n % b = 0 <=> n = k * b)
  BY <1>1, <1>2, BlockCount, BlockStarts
<1>4. (k + 1) * b = k * b + b /\ k + 1 \in Nat /\ n + 1 \in Nat
  OBVIOUS
<1>5. CASE n % b = 0
  <2>1. n + 1 <= (k + 1) * b /\ (k + 1) * b < (n + 1) + b
    BY <1>3, <1>4, <1>5
  <2>2. k + 1 = blockCountFor(n + 1)
    BY <1>1, <1>4, <2>1, BlockCountUnique
  <2> QED BY <1>1, <1>2, <1>5, <2>2
<1>6. CASE n % b # 0
  <2>1. n < k * b /\ n + 1 <= k * b /\ k * b < (n + 1) + b
    BY <1>3, <1>6
  <2>2. k = blockCountFor(n + 1)
    BY <1>1, <1>4, <2>1, BlockCountUnique
  <2>3. k >= 1
    BY <2>1
  <2> QED BY <1>1, <1>2, <1>6, <2>1, <2>2, <2>3
<1> QED BY <1>5, <1>6

-----------------------------------------------------------------------------
(***************************************************************************)
(* The invariant.                                                          *)
(***************************************************************************)

Smaller(a, b) == IF a < b THEN a ELSE b

\* The records of what was accepted, and those of block i, from 1.
RecordsOf(acc) == [i \in 1..Len(acc) |-> acc[i].rec]
BlockOf(acc, i) ==
  SubSeq(RecordsOf(acc), (i - 1) * BlockSizeRecords + 1,
         Smaller(i * BlockSizeRecords, Len(acc)))

RecordFields == {"key", "type", "value", "off", "len", "count"}

\* What was accepted: records of rising keys.
Sorted(acc) ==
  /\ IsSeq(acc)
  /\ \A i \in 1..Len(acc) :
       /\ DOMAIN acc[i].rec = RecordFields /\ validateRecord(acc[i].rec)
       /\ acc[i].rec.key \in Nat \X Nat
  /\ \A i, j \in 1..Len(acc) : i <= j => acc[i].rec.key[1] <= acc[j].rec.key[1]
  /\ Len(acc) <= MaxRecordCount

\* The time index has the time of the first record of each block.
TimesIndexed(v, acc) ==
  /\ v.recCount = Len(acc)
  /\ IsSeq(v.timeIndex) /\ Len(v.timeIndex) = blockCountFor(Len(acc))
  /\ \A i \in 1..Len(v.timeIndex) :
       v.timeIndex[i] = acc[(i - 1) * BlockSizeRecords + 1].rec.key[1]
  /\ IF Len(acc) = 0 THEN v.hdr.min = 0 /\ v.hdr.max = 0
     ELSE /\ v.hdr.min = acc[1].rec.key[1] /\ v.hdr.max = acc[Len(acc)].rec.key[1]
          /\ v.lastKey = acc[Len(acc)].rec.key

\* The snapshot index has the snapshots, in order.
SnapshotsIndexed(v, acc) ==
  /\ IsSeq(v.snapIndex) /\ Len(v.snapIndex) <= Len(acc)
  /\ \A j \in 1..Len(v.snapIndex) :
       /\ v.snapIndex[j] \in 0..Len(acc) - 1
       /\ acc[v.snapIndex[j] + 1].rec.type = "snapshot"
       /\ j > 1 => v.snapIndex[j - 1] < v.snapIndex[j]
  /\ \A i \in 1..Len(acc) :
       acc[i].rec.type = "snapshot" => \E j \in 1..Len(v.snapIndex) : v.snapIndex[j] = i - 1

\* The blobs bs hold the levels of every snapshot where its record says.
BlobsHeld(v, acc, bs) ==
  /\ IsSeq(bs) /\ v.blobLen = Len(bs)
  /\ \A i \in 1..Len(acc) : acc[i].rec.type = "snapshot" =>
       /\ acc[i].levels \in [bids : Seq(Nat), asks : Seq(Nat)]
       /\ acc[i].rec.off \in Nat /\ acc[i].rec.len = Len(Encode(acc[i].levels))
       /\ acc[i].rec.off + acc[i].rec.len <= Len(bs)
       /\ SubSeq(bs, acc[i].rec.off + 1, acc[i].rec.off + acc[i].rec.len) = Encode(acc[i].levels)

\* The footer has every full block but the one in progress ...
BlocksEntered(v, acc) ==
  /\ IsSeq(v.footer)
  /\ Len(v.footer) = IF Len(acc) = 0 THEN 0 ELSE blockCountFor(Len(acc)) - 1
  /\ \A i \in 1..Len(v.footer) :
       v.footer[i] = [start |-> (i - 1) * BlockSizeRecords, blockCRC |-> BlockOf(acc, i)]
  /\ v.block = SubSeq(RecordsOf(acc), Len(v.footer) * BlockSizeRecords + 1, Len(acc))

\* ... and all of them once Close was called.
BlocksFinished(v, acc) ==
  /\ IsSeq(v.footer) /\ Len(v.footer) = blockCountFor(Len(acc))
  /\ \A i \in 1..Len(v.footer) :
       v.footer[i] = [start |-> (i - 1) * BlockSizeRecords, blockCRC |-> BlockOf(acc, i)]

\* The writer's indexes and buffers while it accepts records, with c in the file.
Filling(v, acc, c) ==
  /\ Sorted(acc) /\ TimesIndexed(v, acc) /\ SnapshotsIndexed(v, acc) /\ BlocksEntered(v, acc)
  /\ v.pos = 1 + Len(acc)
  /\ IsSeq(c) /\ IsSeq(v.buf) /\ c \o v.buf = <<Zero>> \o RecordsOf(acc)

\* ... and once Close was called.
Finished(v, acc) ==
  Sorted(acc) /\ TimesIndexed(v, acc) /\ SnapshotsIndexed(v, acc) /\ BlocksFinished(v, acc)

\* The cells of a finished file, whose writer ended as v.
Complete(v, bs, cells, acc) ==
  /\ Finished(v, acc) /\ BlobsHeld(v, acc, bs)
  /\ v.hdr.blobs = 1 + Len(acc)
  /\ v.pos = 1 + Len(acc) + Len(bs) + Len(Trailer(v))
  /\ cells = <<Header(v)>> \o RecordsOf(acc) \o bs \o Trailer(v)
Whole(cells, acc) == \E v, bs : Complete(v, bs, cells, acc)

WriterFields ==
  {"state", "step", "buf", "failed", "blob", "blobBuf", "blobFailed", "blobLen", "pos",
   "recCount", "lastKey", "timeIndex", "snapIndex", "footer", "block", "hdr"}
FileFields == {"cells", "fin", "durCells", "durFin"}

\* Shapes.
Shaped ==
  /\ file = NoFile \/ DOMAIN file = FileFields
  /\ side = NoFile \/ DOMAIN side = {"cells"}
  /\ w.state \in {"none", "open", "closed", "aborted"}
  /\ w.state # "none" =>
       /\ DOMAIN w = WriterFields /\ DOMAIN w.hdr = {"min", "max", "blobs"}
       /\ w.step \in Steps /\ w.blob \in {"none", "open", "closed"}
       /\ w.failed \in BOOLEAN /\ w.blobFailed \in BOOLEAN
  /\ w.state = "open" =>
       /\ Exists(file) /\ closed = FALSE /\ w.blob \in {"none", "open"}
       /\ w.blob = "open" => Exists(side)

\* The blobs written so far.
Blobs == IF w.blob = "none" THEN <<>> ELSE side.cells \o w.blobBuf
Blobbed ==
  /\ BlobsHeld(w, accepted, Blobs)
  /\ w.blob = "none" => w.blobBuf = <<>>
  /\ w.blob = "open" => IsSeq(side.cells) /\ IsSeq(w.blobBuf)

\* The regions of the file up to the trailer, bs the blobs.
Body(acc, bs) == <<Zero>> \o RecordsOf(acc) \o bs

\* What a writer without an error has put in the file and in its buffers.
Content ==
  w.state = "open" /\ ~w.failed /\ ~w.blobFailed =>
    /\ w.step \in {"none", "flush", "blobs"} => Blobbed
    /\ w.step = "none" => Filling(w, accepted, file.cells)
    /\ w.step \in {"flush", "blobs", "trailer", "header"} => Finished(w, accepted)
    /\ w.step = "flush" =>
         /\ w.pos = 1 + Len(accepted)
         /\ file.cells \o w.buf = <<Zero>> \o RecordsOf(accepted)
    /\ w.step = "blobs" =>
         /\ w.pos = 1 + Len(accepted)
         /\ file.cells = <<Zero>> \o RecordsOf(accepted)
    /\ w.step = "trailer" =>
         \E bs : /\ BlobsHeld(w, accepted, bs) /\ w.hdr.blobs = 1 + Len(accepted)
                 /\ w.pos = 1 + Len(accepted) + Len(bs)
                 /\ file.cells = Body(accepted, bs)
    /\ w.step = "header" =>
         \E bs : /\ BlobsHeld(w, accepted, bs) /\ w.hdr.blobs = 1 + Len(accepted)
                 /\ w.pos = 1 + Len(accepted) + Len(bs) + Len(Trailer(w))
                 /\ file.cells = Body(accepted, bs) \o Trailer(w)
    /\ w.step = "sync" => Whole(file.cells, accepted)

\* How far Close has come.
Progress ==
  w.state = "open" =>
    /\ w.step \notin {"none", "flush"} => ~w.failed
    /\ w.step \notin {"none", "flush", "blobs"} => ~w.blobFailed
    /\ w.step \in Steps \ {"resync", "close"} => file.fin = 0 /\ file.durFin = 0
    /\ w.step \in {"finalize", "resync", "close"} =>
         file.durCells = file.cells /\ Whole(file.cells, accepted)
    /\ w.step \in {"resync", "close"} => file.fin = 1
    /\ w.step = "close" => file.durFin = 1

\* A finalized byte, cached or durable, is on a whole file that is durable.
Durable ==
  /\ Exists(file) => file.fin \in {0, 1} /\ file.durFin \in {0, 1}
  /\ Exists(file) /\ (file.fin = 1 \/ file.durFin = 1) =>
       file.durCells = file.cells /\ Whole(file.cells, accepted)
  /\ closed => Exists(file) /\ file.fin = 1 /\ file.durFin = 1
  /\ w.state = "aborted" => ~closed

StoreInv == Shaped /\ Content /\ Progress /\ Durable /\ NothingIsLeftBehind

-----------------------------------------------------------------------------
(***************************************************************************)
(* Records.                                                                *)
(***************************************************************************)

\* u is v but for the fields in F.
But(v, u, F) == DOMAIN u = DOMAIN v /\ \A x \in DOMAIN v \ F : u[x] = v[x]

LEMMA GotoIs ==
  ASSUME NEW v, NEW s, "step" \in DOMAIN v
  PROVE  But(v, Goto(v, s), {"step"}) /\ Goto(v, s).step = s
BY DEF But, Goto

LEMMA EnteredIs ==
  ASSUME NEW v, NEW rec, WriterFields \subseteq DOMAIN v
  PROVE  /\ But(v, Entered(v, rec), {"footer", "block", "timeIndex"})
         /\ v.recCount % BlockSizeRecords # 0 =>
              /\ Entered(v, rec).footer = v.footer /\ Entered(v, rec).block = v.block
              /\ Entered(v, rec).timeIndex = v.timeIndex
         /\ v.recCount % BlockSizeRecords = 0 =>
              /\ Entered(v, rec).footer =
                   IF v.recCount > 0
                   THEN Append(v.footer, [start |-> v.recCount - BlockSizeRecords,
                                          blockCRC |-> v.block])
                   ELSE v.footer
              /\ Entered(v, rec).block = <<>>
              /\ Entered(v, rec).timeIndex = Append(v.timeIndex, rec.key[1])
BY DEF But, Entered, WriterFields

LEMMA BufferedIs ==
  ASSUME NEW v, NEW rec, WriterFields \subseteq DOMAIN v,
         DOMAIN v.hdr = {"min", "max", "blobs"}
  PROVE  /\ But(v, Buffered(v, rec), {"buf", "block", "snapIndex", "hdr", "pos", "recCount", "lastKey"})
         /\ Buffered(v, rec).buf = IF Len(v.buf) = BufCells THEN <<rec>> ELSE Append(v.buf, rec)
         /\ Buffered(v, rec).block = Append(v.block, rec)
         /\ Buffered(v, rec).snapIndex =
              IF rec.type = "snapshot" THEN Append(v.snapIndex, v.recCount) ELSE v.snapIndex
         /\ DOMAIN Buffered(v, rec).hdr = {"min", "max", "blobs"}
         /\ Buffered(v, rec).hdr.min = IF v.recCount = 0 THEN rec.key[1] ELSE v.hdr.min
         /\ Buffered(v, rec).hdr.max = rec.key[1]
         /\ Buffered(v, rec).hdr.blobs = v.hdr.blobs
         /\ Buffered(v, rec).pos = v.pos + 1 /\ Buffered(v, rec).recCount = v.recCount + 1
         /\ Buffered(v, rec).lastKey = rec.key
BY DEF But, Buffered, WriterFields

-----------------------------------------------------------------------------
(***************************************************************************)
(* Shapes.                                                                 *)
(***************************************************************************)

\* An open writer, as an operation of it finds it.
Opened ==
  /\ w.state = "open" /\ DOMAIN w = WriterFields /\ DOMAIN w.hdr = {"min", "max", "blobs"}
  /\ w.step \in Steps /\ w.blob \in {"none", "open"}
  /\ w.failed \in BOOLEAN /\ w.blobFailed \in BOOLEAN
  /\ DOMAIN file = FileFields /\ Exists(file) /\ closed = FALSE
  /\ side = NoFile \/ DOMAIN side = {"cells"}
  /\ w.blob = "open" => DOMAIN side = {"cells"}

LEMMA OpenIs ==
  ASSUME Shaped, w.state = "open"
  PROVE  Opened
BY DEF Shaped, Opened, Exists

LEMMA FilesDiffer ==
  ASSUME NEW f
  PROVE  /\ DOMAIN f = FileFields => Exists(f)
         /\ DOMAIN f = {"cells"} => Exists(f)
BY DEF Exists, NoFile, FileFields

LEMMA ExtendIs ==
  ASSUME NEW f, NEW cells
  PROVE  /\ But(f, Extend(f, cells), {"cells"})
         /\ "cells" \in DOMAIN f => Extend(f, cells).cells = f.cells \o cells
         /\ But(f, Spilled(f, cells), {"cells"})
         /\ "cells" \in DOMAIN f =>
              Spilled(f, cells).cells = IF Len(cells) = BufCells THEN f.cells \o cells ELSE f.cells
BY DEF But, Extend, Spilled

\* The writer's own steps leave it open and of its shape.
LEMMA NewShaped ==
  ASSUME Shaped, NewWriter
  PROVE  Shaped'
<1>1. CASE w' = Writer
  <2>1. /\ w'.state = "open" /\ DOMAIN w' = WriterFields /\ DOMAIN w'.hdr = {"min", "max", "blobs"}
        /\ w'.step = "none" /\ w'.blob = "none" /\ w'.failed = FALSE /\ w'.blobFailed = FALSE
    BY <1>1 DEF Writer, WriterFields
  <2>2. DOMAIN file' = FileFields /\ closed' = FALSE /\ side' = side
    BY DEF NewWriter, Empty, FileFields
  <2> QED BY <2>1, <2>2, FilesDiffer DEF Shaped, Steps, Exists
<1>2. CASE w' = NoWriter
  <2>1. w'.state = "none" /\ DOMAIN file' = FileFields /\ side' = side
    BY <1>2 DEF NewWriter, Empty, FileFields, NoWriter
  <2> QED BY <2>1 DEF Shaped
<1> QED BY <1>1, <1>2 DEF NewWriter

\* A record entered, and buffered or refused by the buffer.
Refused(v, rec) == [Entered(v, rec) EXCEPT !.failed = TRUE]

\* The fields an appended record leaves alone.
Still(v, u) ==
  /\ DOMAIN u = WriterFields /\ DOMAIN u.hdr = {"min", "max", "blobs"}
  /\ u.state = v.state /\ u.step = v.step /\ u.blob = v.blob
  /\ u.blobFailed = v.blobFailed /\ u.blobLen = v.blobLen /\ u.blobBuf = v.blobBuf

LEMMA AppendedIs ==
  ASSUME NEW v, DOMAIN v = WriterFields, DOMAIN v.hdr = {"min", "max", "blobs"}, NEW rec
  PROVE  /\ Still(v, Buffered(Entered(v, rec), rec))
         /\ Buffered(Entered(v, rec), rec).failed = v.failed
         /\ Still(v, Refused(v, rec)) /\ Refused(v, rec).failed = TRUE
<1> DEFINE e == Entered(v, rec) b == Buffered(e, rec)
<1>1. But(v, e, {"footer", "block", "timeIndex"})
  BY EnteredIs
<1>2. Refused(v, rec) = [e EXCEPT !.failed = TRUE]
  BY DEF Refused
<1> HIDE DEF e
<1>3. Still(v, e) /\ e.failed = v.failed
  BY <1>1 DEF But, Still, WriterFields
<1>4. /\ But(e, b, {"buf", "block", "snapIndex", "hdr", "pos", "recCount", "lastKey"})
      /\ DOMAIN b.hdr = {"min", "max", "blobs"}
  <2>1. WriterFields \subseteq DOMAIN e /\ DOMAIN e.hdr = {"min", "max", "blobs"}
    BY <1>3 DEF Still
  <2> QED BY <2>1, BufferedIs
<1> HIDE DEF b
<1>5. Still(v, b) /\ b.failed = v.failed
  BY <1>3, <1>4 DEF But, Still, WriterFields
<1>6. Still(v, Refused(v, rec)) /\ Refused(v, rec).failed = TRUE
  BY <1>2, <1>3 DEF Still, WriterFields
<1> QED BY <1>5, <1>6 DEF e, b

LEMMA RecordShaped ==
  ASSUME Shaped, NEW key, WriteRecord(key)
  PROVE  Shaped' /\ w'.state = "open"
<1>1. PICK rec : /\ w' = Buffered(Entered(w, rec), rec) \/ w' = Refused(w, rec)
                 /\ file' = file \/ file' = Spilled(file, w.buf)
                 /\ side' = side /\ closed' = closed
  BY DEF WriteRecord, Refused
<1>2. Opened
  BY OpenIs DEF WriteRecord, Called
<1>3. Still(w, w') /\ (w'.failed = w.failed \/ w'.failed = TRUE)
  <2>1. DOMAIN w = WriterFields /\ DOMAIN w.hdr = {"min", "max", "blobs"}
    BY <1>2 DEF Opened
  <2>2. /\ Still(w, Buffered(Entered(w, rec), rec))
        /\ Buffered(Entered(w, rec), rec).failed = w.failed
        /\ Still(w, Refused(w, rec)) /\ Refused(w, rec).failed = TRUE
    BY <2>1, AppendedIs
  <2> QED BY <1>1, <2>2
<1>4. DOMAIN file' = FileFields
  BY <1>1, <1>2, ExtendIs DEF But, Opened
<1>5. Opened'
  <2>1. Exists(file')
    BY <1>4, FilesDiffer
  <2> QED BY <1>1, <1>2, <1>3, <1>4, <2>1 DEF Opened, Still
<1> QED BY <1>5, FilesDiffer DEF Opened, Shaped

LEMMA SnapshotShaped ==
  ASSUME Shaped, NEW key, NEW l, WriteSnapshot(key, l)
  PROVE  Shaped' /\ w'.state = "open"
<1> DEFINE opened == [w EXCEPT !.blob = "open"]
<1>1. Opened
  BY OpenIs DEF WriteSnapshot, Called
<1>2. /\ DOMAIN opened = WriterFields /\ DOMAIN opened.hdr = {"min", "max", "blobs"}
      /\ opened.state = "open" /\ opened.step = w.step /\ opened.blob = "open"
      /\ opened.failed = w.failed /\ opened.blobFailed = w.blobFailed
  BY <1>1 DEF Opened, WriterFields
<1>3. DOMAIN openBlobFile = {"cells"}
  BY <1>1 DEF openBlobFile, Opened
<1>4. DOMAIN side' = {"cells"}
  <2>1. PICK cells : side' = openBlobFile \/ side' = Extend(openBlobFile, cells)
    BY DEF WriteSnapshot
  <2> QED BY <1>3, <2>1, ExtendIs DEF But
<1>5. DOMAIN file' = FileFields
  <2>1. file' = file \/ file' = Spilled(file, w.buf)
    BY DEF WriteSnapshot
  <2> QED BY <1>1, <2>1, ExtendIs DEF But, Opened
<1>6. closed' = closed
  BY DEF WriteSnapshot
<1>7. PICK rec : \/ w' = opened
                 \/ w' = Refused(opened, rec)
                 \/ LET v == Buffered(Entered(opened, rec), rec) IN
                    \/ \E buf, n : w' = [v EXCEPT !.blobBuf = buf, !.blobLen = n]
                    \/ w' = [v EXCEPT !.blobFailed = TRUE]
  BY DEF WriteSnapshot, Refused
<1> HIDE DEF opened
<1> DEFINE v == Buffered(Entered(opened, rec), rec)
<1>8. Still(opened, v) /\ v.failed = opened.failed /\ Still(opened, Refused(opened, rec))
      /\ Refused(opened, rec).failed = TRUE
  BY <1>2, AppendedIs
<1>9. \/ w' = opened \/ w' = Refused(opened, rec)
      \/ (\E buf, n : w' = [v EXCEPT !.blobBuf = buf, !.blobLen = n])
      \/ w' = [v EXCEPT !.blobFailed = TRUE]
  BY <1>7
<1> HIDE DEF v
<1>10. /\ DOMAIN w' = WriterFields /\ DOMAIN w'.hdr = {"min", "max", "blobs"}
       /\ w'.state = "open" /\ w'.step = w.step /\ w'.blob = "open"
       /\ w'.failed \in BOOLEAN /\ w'.blobFailed \in BOOLEAN
  <2>1. CASE w' = opened
    BY <1>1, <1>2, <2>1 DEF Opened
  <2>2. CASE w' = Refused(opened, rec)
    BY <1>1, <1>2, <1>8, <2>2 DEF Opened, Still
  <2>3. CASE \E buf, n : w' = [v EXCEPT !.blobBuf = buf, !.blobLen = n]
    BY <1>1, <1>2, <1>8, <2>3 DEF Opened, Still, WriterFields
  <2>4. CASE w' = [v EXCEPT !.blobFailed = TRUE]
    BY <1>1, <1>2, <1>8, <2>4 DEF Opened, Still, WriterFields
  <2> QED BY <1>9, <2>1, <2>2, <2>3, <2>4
<1> QED BY <1>1, <1>4, <1>5, <1>6, <1>10, FilesDiffer DEF Opened, Shaped

-----------------------------------------------------------------------------
(***************************************************************************)
(* The steps of Close, field by field.                                     *)
(***************************************************************************)

\* A step of Close leaves the writer open.
Closing(next) ==
  /\ Opened /\ DOMAIN w' = WriterFields /\ DOMAIN w'.hdr = {"min", "max", "blobs"}
  /\ w'.state = "open" /\ w'.step = next /\ next \in Steps
  /\ w'.blob = w.blob /\ w'.failed = w.failed /\ w'.blobFailed = w.blobFailed
  /\ DOMAIN file' = FileFields /\ closed' = closed /\ stuck' = stuck /\ accepted' = accepted
  /\ side' = side \/ (w.blob = "open" /\ DOMAIN side' = {"cells"})

LEMMA CloseIs ==
  ASSUME Shaped, Close
  PROVE  /\ Closing("flush") /\ w.step = "none" /\ file' = file /\ side' = side
         /\ But(w, w', {"step", "footer"})
         /\ w'.footer = IF Len(w.footer) < blockCountFor(w.recCount)
                        THEN Append(w.footer, [start |-> Len(w.footer) * BlockSizeRecords,
                                               blockCRC |-> w.block])
                        ELSE w.footer
<1>1. Opened
  BY OpenIs DEF Close, At
<1> QED BY <1>1 DEF Close, At, Goto, Closing, Opened, But, WriterFields, Steps

LEMMA FlushIs ==
  ASSUME Shaped, Flush
  PROVE  /\ Closing("blobs") /\ w.step = "flush" /\ ~w.failed /\ side' = side
         /\ But(w, w', {"step", "buf"})
         /\ But(file, file', {"cells"}) /\ file'.cells = file.cells \o w.buf
<1>1. Opened
  BY OpenIs DEF Flush, At
<1>2. But(file, file', {"cells"}) /\ file'.cells = file.cells \o w.buf
  BY <1>1, ExtendIs DEF Flush, Opened, FileFields
<1>3. DOMAIN file' = FileFields
  BY <1>1, <1>2 DEF But, Opened
<1> QED BY <1>1, <1>2, <1>3 DEF Flush, At, Goto, Closing, Opened, But, WriterFields, Steps

LEMMA CopyIs ==
  ASSUME Shaped, copyBlobRegion
  PROVE  /\ Closing("trailer") /\ w.step = "blobs" /\ ~w.blobFailed
         /\ But(w, w', {"step", "blobBuf", "hdr", "pos"})
         /\ w'.hdr.min = w.hdr.min /\ w'.hdr.max = w.hdr.max /\ w'.hdr.blobs = w.pos
         /\ w'.pos = w.pos + w.blobLen
         /\ But(file, file', {"cells"})
         /\ file'.cells = IF w.blob = "none" THEN file.cells ELSE file.cells \o Blobs
<1>1. Opened
  BY OpenIs DEF copyBlobRegion, At
<1>2. /\ DOMAIN w' = WriterFields /\ DOMAIN w'.hdr = {"min", "max", "blobs"}
      /\ But(w, w', {"step", "blobBuf", "hdr", "pos"}) /\ w'.step = "trailer"
      /\ w'.hdr.min = w.hdr.min /\ w'.hdr.max = w.hdr.max /\ w'.hdr.blobs = w.pos
      /\ w'.pos = w.pos + w.blobLen
  BY <1>1 DEF copyBlobRegion, Goto, But, Opened, WriterFields
<1>3. CASE w.blob = "none"
  <2>1. side' = side /\ file' = file
    BY <1>3 DEF copyBlobRegion
  <2> QED BY <1>1, <1>2, <1>3, <2>1 DEF copyBlobRegion, At, Closing, Opened, But, WriterFields, Steps
<1>4. CASE w.blob # "none"
  <2>1. w.blob = "open" /\ DOMAIN side = {"cells"}
    BY <1>1, <1>4 DEF Opened
  <2>2. side' = Extend(side, w.blobBuf) /\ file' = Extend(file, side'.cells)
    BY <1>4 DEF copyBlobRegion
  <2>3. side'.cells = Blobs /\ DOMAIN side' = {"cells"}
    BY <1>4, <2>1, <2>2, ExtendIs DEF Blobs, But
  <2>4. But(file, file', {"cells"}) /\ file'.cells = file.cells \o Blobs
    BY <1>1, <2>2, <2>3, ExtendIs DEF Opened, FileFields
  <2>5. DOMAIN file' = FileFields
    BY <1>1, <2>4 DEF But, Opened
  <2> QED BY <1>1, <1>2, <1>4, <2>1, <2>3, <2>4, <2>5
          DEF copyBlobRegion, At, Closing, Opened, But, WriterFields, Steps
<1> QED BY <1>3, <1>4

LEMMA TrailerIs ==
  ASSUME Shaped, WriteTrailer
  PROVE  /\ Closing("header") /\ w.step = "trailer" /\ side' = side
         /\ But(w, w', {"step", "pos"}) /\ w'.pos = w.pos + Len(Trailer(w))
         /\ But(file, file', {"cells"}) /\ file'.cells = file.cells \o Trailer(w)
<1>1. Opened
  BY OpenIs DEF WriteTrailer, At
<1>2. But(file, file', {"cells"}) /\ file'.cells = file.cells \o Trailer(w)
  BY <1>1, ExtendIs DEF WriteTrailer, Opened, FileFields
<1>3. DOMAIN file' = FileFields
  BY <1>1, <1>2 DEF But, Opened
<1> QED BY <1>1, <1>2, <1>3 DEF WriteTrailer, At, Goto, Closing, Opened, But, WriterFields, Steps

LEMMA HeaderIs ==
  ASSUME Shaped, WriteHeader
  PROVE  /\ Closing("sync") /\ w.step = "header" /\ side' = side
         /\ But(w, w', {"step"})
         /\ But(file, file', {"cells", "fin"}) /\ file'.fin = 0
         /\ file'.cells = [file.cells EXCEPT ![1] = Header(w)]
<1>1. Opened
  BY OpenIs DEF WriteHeader, At
<1>2. /\ But(file, file', {"cells", "fin"}) /\ file'.fin = 0
      /\ file'.cells = [file.cells EXCEPT ![1] = Header(w)]
  BY <1>1 DEF WriteHeader, Opened, FileFields, But
<1>3. DOMAIN file' = FileFields
  BY <1>1, <1>2 DEF But, Opened
<1> QED BY <1>1, <1>2, <1>3 DEF WriteHeader, At, Goto, Closing, Opened, But, WriterFields, Steps

LEMMA SyncIs ==
  ASSUME Shaped, Sync \/ SyncAgain
  PROVE  /\ Closing(IF Sync THEN "finalize" ELSE "close")
         /\ w.step = IF Sync THEN "sync" ELSE "resync"
         /\ side' = side /\ But(w, w', {"step"})
         /\ But(file, file', {"durCells", "durFin"})
         /\ file'.durCells = file.cells /\ file'.durFin = file.fin
<1>1. Opened
  BY OpenIs DEF Sync, SyncAgain, At
<1>2. /\ But(file, file', {"durCells", "durFin"})
      /\ file'.durCells = file.cells /\ file'.durFin = file.fin
  BY <1>1 DEF Sync, SyncAgain, Synced, Opened, FileFields, But
<1>3. DOMAIN file' = FileFields
  BY <1>1, <1>2 DEF But, Opened
<1>4. CASE Sync
  BY <1>1, <1>2, <1>3, <1>4 DEF Sync, At, Goto, Closing, Opened, But, WriterFields, Steps
<1>5. CASE SyncAgain /\ ~Sync
  BY <1>1, <1>2, <1>3, <1>5 DEF SyncAgain, At, Goto, Closing, Opened, But, WriterFields, Steps
<1> QED BY <1>4, <1>5

LEMMA FinalizeIs ==
  ASSUME Shaped, Finalize
  PROVE  /\ Closing("resync") /\ w.step = "finalize" /\ side' = side
         /\ But(w, w', {"step"})
         /\ But(file, file', {"fin"}) /\ file'.fin = 1
<1>1. Opened
  BY OpenIs DEF Finalize, At
<1>2. But(file, file', {"fin"}) /\ file'.fin = 1
  BY <1>1 DEF Finalize, Opened, FileFields, But
<1>3. DOMAIN file' = FileFields
  BY <1>1, <1>2 DEF But, Opened
<1> QED BY <1>1, <1>2, <1>3 DEF Finalize, At, Goto, Closing, Opened, But, WriterFields, Steps

LEMMA ClosingShaped ==
  ASSUME Shaped, NEW s, Closing(s)
  PROVE  Shaped'
BY FilesDiffer DEF Closing, Opened, Shaped

-----------------------------------------------------------------------------
(***************************************************************************)
(* The end of a writer.                                                    *)
(***************************************************************************)

LEMMA CloseFilesIs ==
  ASSUME Shaped, CloseFiles
  PROVE  /\ Opened /\ w.step = "close" /\ file' = file /\ accepted' = accepted /\ closed' = TRUE
         /\ w'.state = "closed" /\ Shaped' /\ NothingIsLeftBehind'
<1>1. Opened
  BY OpenIs DEF CloseFiles, At
<1>2. /\ DOMAIN w' = WriterFields /\ DOMAIN w'.hdr = {"min", "max", "blobs"}
      /\ w'.state = "closed" /\ w'.step = w.step
      /\ w'.failed = w.failed /\ w'.blobFailed = w.blobFailed
      /\ w'.blob = IF w.blob = "open" THEN "closed" ELSE w.blob
  BY <1>1 DEF CloseFiles, Opened, WriterFields
<1>3. /\ w.step = "close" /\ file' = file /\ accepted' = accepted /\ closed' = TRUE
      /\ side' = IF w.blob = "open" THEN NoFile ELSE side
  BY DEF CloseFiles, At
<1> QED BY <1>1, <1>2, <1>3 DEF Opened, Shaped, NothingIsLeftBehind, Exists

\* Discard leaves what it could not remove, and Abort and CloseFails discard.
LEMMA DiscardIs ==
  ASSUME Shaped, NothingIsLeftBehind, NEW kept, Discard(kept), w.state \in {"open", "aborted"},
         closed' = closed
  PROVE  /\ file' = file \/ file' = NoFile
         /\ w'.state = "aborted" /\ Shaped' /\ NothingIsLeftBehind'
<1>1. /\ DOMAIN w' = WriterFields /\ DOMAIN w'.hdr = {"min", "max", "blobs"}
      /\ w'.state = "aborted" /\ w'.step = w.step
      /\ w'.failed = w.failed /\ w'.blobFailed = w.blobFailed
      /\ w'.blob = IF w.blob = "open" THEN "closed" ELSE w.blob
  BY DEF Discard, Shaped, WriterFields
<1>2. /\ file' = IF "file" \in kept THEN file ELSE NoFile
      /\ side' = IF w.blob = "open" /\ "side" \notin kept THEN NoFile ELSE side
  BY DEF Discard
<1>3. Shaped'
  BY <1>1, <1>2 DEF Shaped
<1>4. "side" \in stuck \/ "side" \in kept => "side" \in stuck'
  BY DEF Discard
<1>5. "file" \in kept => "file" \in stuck'
  BY DEF Discard
<1>6. Exists(file)' => "file" \in stuck'
  BY <1>2, <1>5 DEF Exists
<1>7. ASSUME Exists(side') PROVE "side" \in stuck' \/ w'.blob = "none"
  <2>1. CASE w.blob = "open"
    BY <1>2, <1>4, <1>7, <2>1 DEF Exists
  <2>2. CASE w.blob # "open" /\ w.state = "open"
    BY <1>1, <2>2 DEF Shaped
  <2>3. CASE w.blob # "open" /\ w.state = "aborted"
    BY <1>1, <1>2, <1>4, <1>7, <2>3 DEF NothingIsLeftBehind, Exists
  <2> QED BY <2>1, <2>2, <2>3
<1>8. NothingIsLeftBehind'
  BY <1>1, <1>6, <1>7 DEF NothingIsLeftBehind, Exists
<1> QED BY <1>1, <1>2, <1>3, <1>8

\* What a power loss leaves.
LEMMA SurvivorIs ==
  ASSUME NEW f, NEW g \in Survivors(f)
  PROVE  /\ DOMAIN g = FileFields /\ g.durCells = g.cells /\ g.durFin = g.fin
         /\ g.fin \in {f.fin, f.durFin}
         /\ IsSeq(f.cells) /\ f.durCells = f.cells => g.cells = f.cells
<1> DEFINE old(i) == IF i <= Len(f.durCells) THEN f.durCells[i] ELSE Zero
           dirty == {i \in DOMAIN f.cells : f.cells[i] # old(i)}
           cut == {SubSeq(f.cells, 1, n) : n \in Len(f.durCells) .. Len(f.cells)}
           lost == {[f.cells EXCEPT ![i] = c] : i \in dirty, c \in {Zero, Junk}}
                     \cup {[f.cells EXCEPT ![i] = old(i)] : i \in dirty}
<1>1. PICK c \in cut \cup lost, b \in {f.fin, f.durFin} :
        g = [cells |-> c, fin |-> b, durCells |-> c, durFin |-> b]
  BY DEF Survivors
<1>2. ASSUME IsSeq(f.cells), f.durCells = f.cells
      PROVE  c = f.cells
  <2>1. Len(f.cells) \in Nat /\ DOMAIN f.cells = 1..Len(f.cells)
    BY <1>2, LenIs
  <2>2. dirty = {}
    BY <1>2, <2>1
  <2>3. lost = {}
    BY <2>2
  <2>4. c \in cut
    BY <2>3
  <2> HIDE DEF dirty, lost
  <2>5. c = SubSeq(f.cells, 1, Len(f.cells))
    BY <1>2, <2>1, <2>4
  <2>6. SubSeq(f.cells, 1, Len(f.cells)) = f.cells
    BY <1>2 DEF IsSeq
  <2> QED BY <2>5, <2>6
<1> HIDE DEF cut, lost, dirty, old
<1> QED BY <1>1, <1>2 DEF FileFields

LEMMA CrashIs ==
  ASSUME Shaped, ProcessCrash \/ PowerLoss
  PROVE  /\ w'.state = "none" /\ accepted' = accepted /\ Shaped' /\ NothingIsLeftBehind'
         /\ \/ file' = file /\ closed' = closed
            \/ file' = NoFile /\ closed' = FALSE
            \/ Exists(file) /\ file' \in Survivors(file) /\ closed' = closed
<1>1. /\ w' = NoWriter /\ accepted' = accepted /\ side' \in {NoFile, side}
      /\ \/ file' = file /\ closed' = closed
         \/ file' = NoFile /\ closed' = FALSE
         \/ Exists(file) /\ file' \in Survivors(file) /\ closed' = closed
  <2>1. CASE ProcessCrash
    BY <2>1 DEF ProcessCrash
  <2>2. CASE PowerLoss
    BY <2>2 DEF PowerLoss
  <2> QED BY <2>1, <2>2
<1>2. w'.state = "none"
  BY <1>1 DEF NoWriter
<1>3. file' \in Survivors(file) => DOMAIN file' = FileFields
  BY SurvivorIs
<1>4. Shaped'
  BY <1>1, <1>2, <1>3 DEF Shaped
<1>5. NothingIsLeftBehind'
  BY <1>2 DEF NothingIsLeftBehind
<1> QED BY <1>1, <1>2, <1>4, <1>5

LEMMA ShapedInit ==
  ASSUME Init
  PROVE  Shaped /\ NothingIsLeftBehind
BY DEF Init, Shaped, NothingIsLeftBehind, NoWriter

LEMMA ShapedStep ==
  ASSUME Shaped, NothingIsLeftBehind, [Next]_vars
  PROVE  Shaped' /\ NothingIsLeftBehind'
<1>1. CASE NewWriter
  <2>1. w'.state = "open" \/ w'.state = "none"
    BY <1>1 DEF NewWriter, Writer, NoWriter
  <2> QED BY <1>1, <2>1, NewShaped DEF NothingIsLeftBehind
<1>2. ASSUME NEW key \in Keys, WriteRecord(key) PROVE Shaped' /\ NothingIsLeftBehind'
  BY <1>2, RecordShaped DEF NothingIsLeftBehind
<1>3. ASSUME NEW key \in Keys, NEW l \in Levels, WriteSnapshot(key, l)
      PROVE  Shaped' /\ NothingIsLeftBehind'
  BY <1>3, SnapshotShaped DEF NothingIsLeftBehind
<1>4. ASSUME NEW s, Closing(s) PROVE Shaped' /\ NothingIsLeftBehind'
  <2>1. Shaped'
    BY <1>4, ClosingShaped
  <2>2. w'.state = "open"
    BY <1>4 DEF Closing
  <2> QED BY <2>1, <2>2 DEF NothingIsLeftBehind
<1>5. CASE Close \/ Flush \/ copyBlobRegion \/ WriteTrailer \/ WriteHeader
  BY <1>4, <1>5, CloseIs, FlushIs, CopyIs, TrailerIs, HeaderIs
<1>6. CASE Sync \/ Finalize \/ SyncAgain
  BY <1>4, <1>6, SyncIs, FinalizeIs
<1>7. CASE CloseFiles
  BY <1>7, CloseFilesIs
<1>8. ASSUME NEW kept, CloseFails(kept) \/ Abort(kept) PROVE Shaped' /\ NothingIsLeftBehind'
  <2>1. Discard(kept) /\ w.state \in {"open", "aborted"} /\ closed' = closed
    BY <1>8 DEF CloseFails, Abort, Finishing
  <2> QED BY <2>1, DiscardIs
<1>9. CASE ProcessCrash \/ PowerLoss
  BY <1>9, CrashIs
<1>10. CASE UNCHANGED vars
  BY <1>10 DEF vars, Shaped, NothingIsLeftBehind, Exists
<1> QED BY <1>1, <1>2, <1>3, <1>5, <1>6, <1>7, <1>8, <1>9, <1>10 DEF Next

\* Nothing is left behind: a writer that was aborted, or whose Close failed, leaves no
\* partial file, and one that ended leaves no sidecar of its own, except what the file
\* system refused to remove (discard, closeFiles).
THEOREM LeavesNothing == Spec => []NothingIsLeftBehind
<1>1. Init => Shaped /\ NothingIsLeftBehind
  BY ShapedInit
<1>2. Shaped /\ NothingIsLeftBehind /\ [Next]_vars => Shaped' /\ NothingIsLeftBehind'
  BY ShapedStep
<1> QED BY <1>1, <1>2, PTL DEF Spec

-----------------------------------------------------------------------------
(***************************************************************************)
(* What was accepted, one record longer.                                   *)
(***************************************************************************)

\* Where the blocks of n records start and end.
LEMMA BlockBounds ==
  ASSUME NEW n \in Nat, NEW i \in 1..blockCountFor(n)
  PROVE  /\ (i - 1) * BlockSizeRecords \in Nat /\ (i - 1) * BlockSizeRecords < n
         /\ i * BlockSizeRecords = (i - 1) * BlockSizeRecords + BlockSizeRecords
         /\ i < blockCountFor(n) => i * BlockSizeRecords < n
         /\ i = blockCountFor(n) => n <= i * BlockSizeRecords
<1>1. PICK b \in Nat \ {0} : b = BlockSizeRecords
  BY StoreAssumption
<1>2. PICK k \in Nat : k = blockCountFor(n)
  BY BlockCount
<1>3. n <= k * b /\ k * b < n + b /\ k * b \in Nat /\ i \in 1..k
  BY <1>1, <1>2, BlockCount
<1>4. (k - 1) * b = k * b - b /\ i * b = (i - 1) * b + b /\ (i - 1) * b \in Nat /\ i * b \in Nat
  BY <1>3
<1>5. (i - 1) * b <= (k - 1) * b
  BY <1>3
<1>6. i < k => i * b <= (k - 1) * b
  BY <1>3
<1> QED BY <1>1, <1>2, <1>3, <1>4, <1>5, <1>6

LEMMA RecordsOfIs ==
  ASSUME NEW acc, IsSeq(acc)
  PROVE  /\ IsSeq(RecordsOf(acc)) /\ Len(RecordsOf(acc)) = Len(acc)
         /\ \A i \in 1..Len(acc) : RecordsOf(acc)[i] = acc[i].rec
<1>1. Len(acc) \in Nat
  BY LenIs
<1> DEFINE f == RecordsOf(acc)
<1>2. DOMAIN f = 1..Len(acc) /\ f = [i \in 1..Len(acc) |-> f[i]]
  BY DEF RecordsOf
<1>3. \A i \in 1..Len(acc) : f[i] = acc[i].rec
  BY DEF RecordsOf
<1> HIDE DEF f
<1>4. IsSeq(f) /\ Len(f) = Len(acc)
  BY <1>1, <1>2, FunIs
<1> QED BY <1>3, <1>4 DEF f

LEMMA RecordsAppend ==
  ASSUME NEW acc, IsSeq(acc), NEW item
  PROVE  RecordsOf(Append(acc, item)) = Append(RecordsOf(acc), item.rec)
<1> DEFINE acc2 == Append(acc, item) r == RecordsOf(acc) r2 == RecordsOf(acc2)
           s == Append(r, item.rec)
<1>1. /\ IsSeq(acc2) /\ Len(acc2) = Len(acc) + 1 /\ acc2[Len(acc) + 1] = item
      /\ \A i \in 1..Len(acc) : acc2[i] = acc[i]
  BY AppendIs
<1>2. Len(acc) \in Nat
  BY LenIs
<1>3. /\ IsSeq(r) /\ Len(r) = Len(acc) /\ \A i \in 1..Len(acc) : r[i] = acc[i].rec
  BY RecordsOfIs
<1> HIDE DEF acc2, r
<1>4. /\ IsSeq(r2) /\ Len(r2) = Len(acc2) /\ \A i \in 1..Len(acc2) : r2[i] = acc2[i].rec
  BY <1>1, RecordsOfIs
<1>5. /\ IsSeq(s) /\ Len(s) = Len(r) + 1 /\ s[Len(r) + 1] = item.rec
      /\ \A i \in 1..Len(r) : s[i] = r[i]
  BY <1>3, AppendIs
<1> HIDE DEF r2, s
<1>6. \A i \in 1..Len(r2) : r2[i] = s[i]
  <2> TAKE i \in 1..Len(r2)
  <2>1. CASE i \in 1..Len(acc)
    BY <1>1, <1>2, <1>3, <1>4, <1>5, <2>1
  <2>2. CASE i = Len(acc) + 1
    BY <1>1, <1>2, <1>3, <1>4, <1>5, <2>2
  <2> QED BY <1>1, <1>2, <1>4, <2>1, <2>2
<1>7. r2 = s
  BY <1>1, <1>3, <1>4, <1>5, <1>6, SameIs
<1> QED BY <1>7 DEF r2, s, acc2, r

\* The record a writer may append to what was accepted.
Appendable(acc, rec) ==
  /\ DOMAIN rec = RecordFields /\ validateRecord(rec) /\ rec.key \in Nat \X Nat
  /\ Len(acc) > 0 => KeyBefore(acc[Len(acc)].rec.key, rec.key)
  /\ Len(acc) < MaxRecordCount

LEMMA AppendSorted ==
  ASSUME NEW acc, Sorted(acc), NEW item, Appendable(acc, item.rec)
  PROVE  Sorted(Append(acc, item))
<1> DEFINE a == Append(acc, item)
<1>1. /\ IsSeq(a) /\ Len(a) = Len(acc) + 1 /\ a[Len(acc) + 1] = item
      /\ \A i \in 1..Len(acc) : a[i] = acc[i]
  <2>1. IsSeq(acc)
    BY DEF Sorted
  <2> QED BY <2>1, AppendIs
<1>2. Len(acc) \in Nat /\ MaxRecordCount \in Nat
  BY LenIs, StoreAssumption DEF Sorted
<1> HIDE DEF a
<1>3. \A i \in 1..Len(a) : i \in 1..Len(acc) \/ i = Len(acc) + 1
  BY <1>1, <1>2
<1>4. \A i \in 1..Len(a) : /\ DOMAIN a[i].rec = RecordFields /\ validateRecord(a[i].rec)
                           /\ a[i].rec.key \in Nat \X Nat
  BY <1>1, <1>3 DEF Sorted, Appendable
<1>5. \A i \in 1..Len(acc) : acc[i].rec.key[1] <= item.rec.key[1]
  <2> TAKE i \in 1..Len(acc)
  <2>1. Len(acc) \in 1..Len(acc) /\ i <= Len(acc)
    BY <1>2
  <2>2. acc[i].rec.key[1] <= acc[Len(acc)].rec.key[1]
    BY <2>1 DEF Sorted
  <2>3. /\ acc[i].rec.key[1] \in Nat /\ acc[Len(acc)].rec.key[1] \in Nat /\ item.rec.key[1] \in Nat
    BY <2>1 DEF Sorted, Appendable
  <2>4. acc[Len(acc)].rec.key[1] <= item.rec.key[1]
    BY <1>2, <2>1, <2>3 DEF Appendable, KeyBefore
  <2> QED BY <2>2, <2>3, <2>4
<1>6. item.rec.key[1] <= item.rec.key[1]
  BY DEF Appendable
<1>7. \A i, j \in 1..Len(a) : i <= j => a[i].rec.key[1] <= a[j].rec.key[1]
  <2> SUFFICES ASSUME NEW i \in 1..Len(a), NEW j \in 1..Len(a), i <= j
               PROVE  a[i].rec.key[1] <= a[j].rec.key[1]
    OBVIOUS
  <2>1. CASE j \in 1..Len(acc)
    <3>1. i \in 1..Len(acc)
      BY <1>1, <1>2, <2>1
    <3> QED BY <1>1, <2>1, <3>1 DEF Sorted
  <2>2. CASE j = Len(acc) + 1
    BY <1>1, <1>3, <1>5, <1>6, <2>2
  <2> QED BY <1>3, <2>1, <2>2
<1>8. Len(a) <= MaxRecordCount
  BY <1>1, <1>2 DEF Appendable
<1>9. Sorted(a)
  BY <1>1, <1>4, <1>7, <1>8 DEF Sorted
<1> QED BY <1>9 DEF a

\* The part of the records that lies in front of the new one.
LEMMA BlockKept ==
  ASSUME NEW acc, IsSeq(acc), NEW item, NEW i \in Nat \ {0}, i * BlockSizeRecords <= Len(acc)
  PROVE  BlockOf(Append(acc, item), i) = BlockOf(acc, i)
<1>1. PICK b \in Nat \ {0} : b = BlockSizeRecords
  BY StoreAssumption
<1>2. PICK n \in Nat : n = Len(acc)
  BY LenIs
<1>3. (i - 1) * b \in Nat /\ i * b \in Nat /\ i * b = (i - 1) * b + b
  OBVIOUS
<1>4. PICK lo \in Nat, hi \in Nat : lo = (i - 1) * b /\ hi = i * b
  BY <1>3
<1>5. lo + b = hi /\ hi <= n
  BY <1>1, <1>2, <1>3, <1>4
<1>6. Smaller(hi, n) = hi /\ Smaller(hi, n + 1) = hi
  BY <1>5 DEF Smaller
<1>7. /\ BlockOf(acc, i) = SubSeq(RecordsOf(acc), lo + 1, hi)
      /\ BlockOf(Append(acc, item), i) = SubSeq(RecordsOf(acc) \o <<item.rec>>, lo + 1, hi)
  <2>1. Len(Append(acc, item)) = n + 1
    BY <1>2, AppendIs
  <2>2. RecordsOf(Append(acc, item)) = RecordsOf(acc) \o <<item.rec>>
    <3>1. IsSeq(RecordsOf(acc))
      BY RecordsOfIs
    <3>2. Append(RecordsOf(acc), item.rec) = RecordsOf(acc) \o <<item.rec>>
      BY <3>1, AppendIs
    <3> QED BY <3>2, RecordsAppend
  <2> QED BY <1>1, <1>2, <1>4, <1>6, <2>1, <2>2 DEF BlockOf
<1>8. IsSeq(RecordsOf(acc)) /\ Len(RecordsOf(acc)) = n /\ IsSeq(<<item.rec>>)
  BY <1>2, RecordsOfIs, OneIs
<1>9. SubSeq(RecordsOf(acc) \o <<item.rec>>, lo + 1, hi) = SubSeq(RecordsOf(acc), lo + 1, hi)
  BY <1>5, <1>8, FrontPart
<1> QED BY <1>7, <1>9

\* The time index, with the record entered.
LEMMA AppendTimes ==
  ASSUME NEW acc, Sorted(acc), NEW v, TimesIndexed(v, acc), NEW item, NEW u,
         u.recCount = v.recCount + 1, u.lastKey = item.rec.key,
         u.hdr.min = IF v.recCount = 0 THEN item.rec.key[1] ELSE v.hdr.min,
         u.hdr.max = item.rec.key[1],
         v.recCount % BlockSizeRecords # 0 => u.timeIndex = v.timeIndex,
         v.recCount % BlockSizeRecords = 0 => u.timeIndex = Append(v.timeIndex, item.rec.key[1])
  PROVE  TimesIndexed(u, Append(acc, item))
<1> DEFINE a == Append(acc, item)
<1>1. IsSeq(acc)
  BY DEF Sorted
<1>2. PICK n \in Nat : n = Len(acc)
  BY <1>1, LenIs
<1>3. /\ IsSeq(a) /\ Len(a) = n + 1 /\ a[n + 1] = item
      /\ \A i \in 1..n : a[i] = acc[i]
  <2>1. Longer(acc, item, a)
    BY <1>1, AppendLonger, Zenon
  <2> HIDE DEF a
  <2> QED BY <1>2, <2>1 DEF Longer
<1> HIDE DEF a
<1>4. /\ v.recCount = n /\ IsSeq(v.timeIndex) /\ Len(v.timeIndex) = blockCountFor(n)
      /\ \A i \in 1..Len(v.timeIndex) :
           v.timeIndex[i] = acc[(i - 1) * BlockSizeRecords + 1].rec.key[1]
      /\ n # 0 => v.hdr.min = acc[1].rec.key[1]
  BY <1>2 DEF TimesIndexed
<1>5. \A i \in 1..blockCountFor(n) :
        (i - 1) * BlockSizeRecords \in Nat /\ (i - 1) * BlockSizeRecords < n
  BY BlockBounds
<1>6. \A i \in 1..blockCountFor(n) :
        v.timeIndex[i] = a[(i - 1) * BlockSizeRecords + 1].rec.key[1]
  <2> TAKE i \in 1..blockCountFor(n)
  <2>1. (i - 1) * BlockSizeRecords + 1 \in 1..n
    BY <1>5
  <2> QED BY <1>3, <1>4, <2>1
<1>7. /\ IsSeq(u.timeIndex) /\ Len(u.timeIndex) = blockCountFor(n + 1)
      /\ \A i \in 1..Len(u.timeIndex) :
           u.timeIndex[i] = a[(i - 1) * BlockSizeRecords + 1].rec.key[1]
  <2>1. CASE n % BlockSizeRecords # 0
    BY <1>4, <1>6, <2>1, BlockCountNext
  <2>2. CASE n % BlockSizeRecords = 0
    <3>1. PICK k \in Nat : k = blockCountFor(n)
      BY BlockCount
    <3>2. blockCountFor(n + 1) = k + 1 /\ n = k * BlockSizeRecords
      BY <2>2, <3>1, BlockCountNext, BlockStarts
    <3>3. /\ IsSeq(u.timeIndex) /\ Len(u.timeIndex) = k + 1
          /\ u.timeIndex[k + 1] = item.rec.key[1]
          /\ \A i \in 1..k : u.timeIndex[i] = v.timeIndex[i]
      <4>1. u.timeIndex = Append(v.timeIndex, item.rec.key[1])
        BY <1>4, <2>2
      <4>2. IsSeq(v.timeIndex) /\ Len(v.timeIndex) = k
        BY <1>4, <3>1
      <4>3. Longer(v.timeIndex, item.rec.key[1], u.timeIndex)
        BY <4>1, <4>2, AppendLonger, Zenon
      <4> QED BY <4>2, <4>3 DEF Longer
    <3>4. a[(k + 1 - 1) * BlockSizeRecords + 1].rec.key[1] = item.rec.key[1]
      <4>1. k + 1 - 1 = k
        OBVIOUS
      <4> QED BY <1>3, <3>2, <4>1
    <3>5. \A i \in 1..k + 1 : i \in 1..k \/ i = k + 1
      OBVIOUS
    <3>6. \A i \in 1..k + 1 : u.timeIndex[i] = a[(i - 1) * BlockSizeRecords + 1].rec.key[1]
      <4> TAKE i \in 1..k + 1
      <4>1. CASE i \in 1..k
        BY <1>6, <3>1, <3>3, <4>1, Zenon
      <4>2. CASE i = k + 1
        <5>1. (i - 1) * BlockSizeRecords + 1 = (k + 1 - 1) * BlockSizeRecords + 1
          BY <4>2
        <5>2. u.timeIndex[i] = item.rec.key[1]
          BY <3>3, <4>2, Zenon
        <5> QED BY <3>4, <5>1, <5>2, Zenon
      <4> QED BY <3>5, <4>1, <4>2, Zenon
    <3> QED BY <3>2, <3>3, <3>6
  <2> QED BY <2>1, <2>2
<1>8. u.recCount = n + 1 /\ Len(a) # 0
  BY <1>3, <1>4
<1>9. u.hdr.min = a[1].rec.key[1] /\ u.hdr.max = a[Len(a)].rec.key[1] /\ u.lastKey = a[Len(a)].rec.key
  <2>1. CASE n = 0
    BY <1>3, <1>4, <2>1
  <2>2. CASE n # 0
    BY <1>3, <1>4, <2>2
  <2> QED BY <2>1, <2>2
<1>10. TimesIndexed(u, a)
  BY <1>3, <1>7, <1>8, <1>9 DEF TimesIndexed
<1> QED BY <1>10 DEF a

LEMMA AppendSnapshots ==
  ASSUME NEW acc, Sorted(acc), NEW v, SnapshotsIndexed(v, acc), v.recCount = Len(acc),
         NEW item, NEW u,
         u.snapIndex = IF item.rec.type = "snapshot" THEN Append(v.snapIndex, v.recCount)
                       ELSE v.snapIndex
  PROVE  SnapshotsIndexed(u, Append(acc, item))
<1> DEFINE a == Append(acc, item) s == v.snapIndex t == u.snapIndex
<1>1. IsSeq(acc)
  BY DEF Sorted
<1>2. PICK n \in Nat : n = Len(acc)
  BY <1>1, LenIs
<1>3. /\ IsSeq(a) /\ Len(a) = n + 1 /\ a[n + 1] = item
      /\ \A i \in 1..n : a[i] = acc[i]
  <2>1. Longer(acc, item, a)
    BY <1>1, AppendLonger, Zenon
  <2> HIDE DEF a
  <2> QED BY <1>2, <2>1 DEF Longer
<1>4. /\ IsSeq(s) /\ Len(s) <= n
      /\ \A j \in 1..Len(s) :
           /\ s[j] \in 0..n - 1 /\ acc[s[j] + 1].rec.type = "snapshot"
           /\ j > 1 => s[j - 1] < s[j]
      /\ \A i \in 1..n : acc[i].rec.type = "snapshot" => \E j \in 1..Len(s) : s[j] = i - 1
  BY <1>2 DEF SnapshotsIndexed
<1>5. t = IF item.rec.type = "snapshot" THEN Append(s, n) ELSE s
  BY <1>2
<1> HIDE DEF a, s, t
<1>6. PICK m \in Nat : m = Len(s)
  BY <1>4, LenIs
<1>7. \A i \in 1..n + 1 : i \in 1..n \/ i = n + 1
  OBVIOUS
<1>8. \A j \in 1..m : s[j] \in 0..n /\ a[s[j] + 1].rec.type = "snapshot"
  <2> TAKE j \in 1..m
  <2>1. s[j] \in 0..n - 1 /\ acc[s[j] + 1].rec.type = "snapshot"
    BY <1>4, <1>6
  <2>2. s[j] + 1 \in 1..n /\ s[j] \in 0..n
    BY <2>1
  <2> QED BY <1>3, <2>1, <2>2
<1>9. /\ IsSeq(t) /\ Len(t) <= n + 1
      /\ \A j \in 1..Len(t) :
           /\ t[j] \in 0..n /\ a[t[j] + 1].rec.type = "snapshot"
           /\ j > 1 => t[j - 1] < t[j]
      /\ \A i \in 1..n + 1 : a[i].rec.type = "snapshot" => \E j \in 1..Len(t) : t[j] = i - 1
  <2>1. CASE item.rec.type # "snapshot"
    BY <1>3, <1>4, <1>5, <1>6, <1>7, <1>8, <2>1
  <2>2. CASE item.rec.type = "snapshot"
    <3>1. /\ IsSeq(t) /\ Len(t) = m + 1 /\ t[m + 1] = n
          /\ \A j \in 1..m : t[j] = s[j]
      <4>1. t = Append(s, n)
        BY <1>5, <2>2
      <4>2. Longer(s, n, t)
        BY <1>4, <4>1, AppendLonger, Zenon
      <4> QED BY <1>6, <4>2 DEF Longer
    <3>2. \A j \in 1..m + 1 : j \in 1..m \/ j = m + 1
      OBVIOUS
    <3>3. \A j \in 1..Len(t) : t[j] \in 0..n /\ a[t[j] + 1].rec.type = "snapshot"
      <4> SUFFICES ASSUME NEW j \in 1..m + 1
                   PROVE  t[j] \in 0..n /\ a[t[j] + 1].rec.type = "snapshot"
        BY <3>1
      <4>1. CASE j \in 1..m
        BY <1>8, <3>1, <4>1
      <4>2. CASE j = m + 1
        BY <1>3, <2>2, <3>1, <4>2
      <4> QED BY <3>2, <4>1, <4>2
    <3>4. \A j \in 1..Len(t) : j > 1 => t[j - 1] < t[j]
      <4> SUFFICES ASSUME NEW j \in 1..m + 1, j > 1 PROVE t[j - 1] < t[j]
        BY <3>1
      <4>1. CASE j \in 1..m
        <5>1. j - 1 \in 1..m
          BY <4>1
        <5> QED BY <1>4, <1>6, <3>1, <4>1, <5>1
      <4>2. CASE j = m + 1
        <5>1. m \in 1..m /\ j - 1 = m
          BY <4>2
        <5> QED BY <1>4, <1>6, <3>1, <4>2, <5>1
      <4> QED BY <3>2, <4>1, <4>2
    <3>5. \A i \in 1..n + 1 : a[i].rec.type = "snapshot" => \E j \in 1..Len(t) : t[j] = i - 1
      <4> SUFFICES ASSUME NEW i \in 1..n + 1, a[i].rec.type = "snapshot"
                   PROVE  \E j \in 1..m + 1 : t[j] = i - 1
        BY <3>1
      <4>1. CASE i \in 1..n
        <5>1. PICK j \in 1..m : s[j] = i - 1
          BY <1>3, <1>4, <1>6, <4>1
        <5> QED BY <3>1, <5>1
      <4>2. CASE i = n + 1
        BY <3>1, <4>2
      <4> QED BY <1>7, <4>1, <4>2
    <3>6. Len(t) <= n + 1
      BY <1>4, <1>6, <3>1
    <3> QED BY <3>1, <3>3, <3>4, <3>5, <3>6
  <2> QED BY <2>1, <2>2
<1>10. n + 1 - 1 = n
  OBVIOUS
<1>11. SnapshotsIndexed(u, a)
  <2>1. 0..Len(a) - 1 = 0..n
    BY <1>3, <1>10
  <2> QED BY <1>3, <1>9, <2>1, Zenon DEF SnapshotsIndexed, t
<1> QED BY <1>11 DEF a

LEMMA PartGrows ==
  ASSUME NEW s, IsSeq(s), NEW e, NEW a \in Nat \ {0}, a <= Len(s) + 1
  PROVE  SubSeq(Append(s, e), a, Len(s) + 1) = Append(SubSeq(s, a, Len(s)), e)
<1>1. PICK n \in Nat : n = Len(s)
  BY LenIs
<1>2. Longer(s, e, Append(s, e))
  BY AppendLonger, Zenon
<1> DEFINE p == SubSeq(s, a, n) q == SubSeq(Append(s, e), a, n + 1) r == Append(p, e)
<1>3. /\ IsSeq(p) /\ Len(p) = n - a + 1
      /\ \A i \in 1..n - a + 1 : p[i] = s[a + i - 1]
  BY <1>1, PartIs
<1>4. PICK t : t = Append(s, e)
  OBVIOUS
<1>5. /\ IsSeq(t) /\ Len(t) = n + 1 /\ t[n + 1] = e
      /\ \A i \in 1..n : t[i] = s[i]
  BY <1>1, <1>2, <1>4 DEF Longer
<1>6. q = SubSeq(t, a, n + 1)
  BY <1>4
<1> HIDE DEF q, p
<1>7. /\ IsSeq(q) /\ Len(q) = n - a + 2
      /\ \A i \in 1..n - a + 2 : q[i] = t[a + i - 1]
  <2>1. n + 1 - a + 1 = n - a + 2 /\ a <= n + 1 + 1 /\ n + 1 <= Len(t) /\ n + 1 \in Nat
    BY <1>1, <1>5
  <2> QED BY <1>5, <1>6, <2>1, PartIs
<1>8. Longer(p, e, r)
  BY <1>3, AppendLonger, Zenon
<1> HIDE DEF r
<1>9. IsSeq(r) /\ Len(r) = n - a + 2
  BY <1>1, <1>3, <1>8 DEF Longer
<1>10. \A i \in 1..Len(q) : q[i] = r[i]
  <2> SUFFICES ASSUME NEW i \in 1..n - a + 2 PROVE q[i] = r[i]
    BY <1>7
  <2>1. CASE i \in 1..n - a + 1
    <3>1. a + i - 1 \in 1..n
      BY <1>1, <2>1
    <3> QED BY <1>3, <1>5, <1>7, <1>8, <2>1, <3>1 DEF Longer
  <2>2. CASE i = n - a + 2
    <3>1. a + i - 1 = n + 1 /\ i = Len(p) + 1
      BY <1>1, <1>3, <2>2
    <3> QED BY <1>5, <1>7, <1>8, <3>1 DEF Longer
  <2> QED BY <1>1, <2>1, <2>2
<1>11. q = r
  BY <1>7, <1>9, <1>10, SameIs
<1> QED BY <1>1, <1>11 DEF p, q, r

LEMMA PartNone ==
  ASSUME NEW s, IsSeq(s)
  PROVE  SubSeq(s, Len(s) + 1, Len(s)) = <<>>
<1>1. PICK n \in Nat : n = Len(s)
  BY LenIs
<1>2. IsSeq(SubSeq(s, n + 1, n)) /\ Len(SubSeq(s, n + 1, n)) = 0
  <2>1. n - (n + 1) + 1 = 0 /\ n + 1 \in Nat \ {0} /\ n <= Len(s) /\ n + 1 <= n + 1
    BY <1>1
  <2> QED BY <2>1, PartIs
<1>3. \A i \in 1..0 : SubSeq(s, n + 1, n)[i] = <<>>[i]
  OBVIOUS
<1> QED BY <1>1, <1>2, <1>3, NoneIs, SameIs

\* The footer and the block in progress, with the record entered.
LEMMA AppendBlocks ==
  ASSUME NEW acc, Sorted(acc), NEW v, v.recCount = Len(acc), BlocksEntered(v, acc),
         NEW item, NEW u,
         v.recCount % BlockSizeRecords # 0 =>
           u.footer = v.footer /\ u.block = Append(v.block, item.rec),
         v.recCount % BlockSizeRecords = 0 =>
           /\ u.footer = IF v.recCount > 0
                         THEN Append(v.footer, [start |-> v.recCount - BlockSizeRecords,
                                                blockCRC |-> v.block])
                         ELSE v.footer
           /\ u.block = Append(<<>>, item.rec)
  PROVE  BlocksEntered(u, Append(acc, item))
<1> DEFINE a == Append(acc, item) R == RecordsOf(acc)
           Entry(c, i) == [start |-> (i - 1) * BlockSizeRecords, blockCRC |-> BlockOf(c, i)]
<1>1. IsSeq(acc)
  BY DEF Sorted
<1>2. PICK n \in Nat : n = Len(acc)
  BY <1>1, LenIs
<1>3. Len(a) = n + 1
  <2>1. Longer(acc, item, a)
    BY <1>1, AppendLonger, Zenon
  <2> HIDE DEF a
  <2> QED BY <1>2, <2>1 DEF Longer
<1>4. RecordsOf(a) = Append(R, item.rec)
  BY <1>1, RecordsAppend, Zenon
<1>5. IsSeq(R) /\ Len(R) = n
  BY <1>1, <1>2, RecordsOfIs
<1>6. PICK k \in Nat : k = blockCountFor(n)
  BY BlockCount
<1>7. PICK b \in Nat \ {0} : b = BlockSizeRecords
  BY StoreAssumption
<1>8. n <= k * b /\ k * b < n + b /\ k * b \in Nat
  BY <1>6, <1>7, BlockCount
<1>9. PICK m \in Nat : m = Len(v.footer) /\ m = IF n = 0 THEN 0 ELSE k - 1
  <2>1. n # 0 => k >= 1
    BY <1>8
  <2>2. (IF n = 0 THEN 0 ELSE k - 1) \in Nat
    BY <2>1
  <2> QED BY <1>2, <1>6, <2>2 DEF BlocksEntered
<1>10. /\ IsSeq(v.footer)
       /\ \A i \in 1..m : v.footer[i] = Entry(acc, i)
       /\ v.block = SubSeq(R, m * b + 1, n)
  BY <1>2, <1>7, <1>9 DEF BlocksEntered
<1>11. \A i \in 1..m : Entry(a, i) = Entry(acc, i)
  <2> TAKE i \in 1..m
  <2>1. i \in 1..k /\ i < k
    BY <1>9
  <2>2. i * BlockSizeRecords <= n
    <3>1. i * BlockSizeRecords < n
      BY <1>6, <2>1, BlockBounds
    <3>2. i * BlockSizeRecords \in Nat
      BY <1>7
    <3> QED BY <3>1, <3>2
  <2>3. BlockOf(a, i) = BlockOf(acc, i)
    BY <1>1, <1>2, <2>2, BlockKept
  <2> QED BY <2>3
<1>12. blockCountFor(n + 1) = IF n % b = 0 THEN k + 1 ELSE k
  BY <1>6, <1>7, BlockCountNext
<1>13. n % b = 0 <=> n = k * b
  BY <1>6, <1>7, BlockStarts
<1>14. n = 0 => k = 0
  <2>1. k >= 1 => k * b >= b
    OBVIOUS
  <2> QED BY <1>8, <2>1
<1> HIDE DEF a, R, Entry
<1>15. CASE n % b # 0
  <2>1. n # 0 /\ m = k - 1
    BY <1>9, <1>13, <1>14, <1>15
  <2>2. u.footer = v.footer /\ u.block = Append(v.block, item.rec)
    BY <1>2, <1>7, <1>15
  <2>3. m * b + 1 \in Nat \ {0} /\ m * b + 1 <= n + 1
    <3>1. m * b = k * b - b
      BY <2>1
    <3> QED BY <1>8, <3>1
  <2>4. u.block = SubSeq(RecordsOf(a), m * b + 1, n + 1)
    <3>1. SubSeq(Append(R, item.rec), m * b + 1, n + 1) = Append(SubSeq(R, m * b + 1, n), item.rec)
      BY <1>5, <2>3, PartGrows
    <3> QED BY <1>4, <1>10, <2>2, <3>1
  <2>5. Len(u.footer) = IF Len(a) = 0 THEN 0 ELSE blockCountFor(Len(a)) - 1
    <3>1. Len(u.footer) = m
      BY <1>9, <2>2, Zenon
    <3>2. Len(a) # 0 /\ blockCountFor(Len(a)) = k
      BY <1>3, <1>12, <1>15
    <3> QED BY <2>1, <3>1, <3>2, Zenon
  <2>6. \A i \in 1..Len(u.footer) : u.footer[i] = Entry(a, i)
    BY <1>9, <1>10, <1>11, <2>2
  <2> QED BY <1>3, <1>7, <1>9, <1>10, <2>2, <2>4, <2>5, <2>6 DEF BlocksEntered, a, Entry
<1>16. CASE n % b = 0 /\ n = 0
  <2>1. u.footer = v.footer /\ u.block = Append(<<>>, item.rec) /\ m = 0 /\ k = 0
    BY <1>2, <1>7, <1>9, <1>14, <1>16
  <2>2. u.block = SubSeq(RecordsOf(a), 1, 1)
    <3>1. SubSeq(Append(R, item.rec), 1, 0 + 1) = Append(SubSeq(R, 1, 0), item.rec)
      BY <1>5, <1>16, PartGrows
    <3>2. SubSeq(R, 1, 0) = <<>>
      BY <1>5, <1>16, PartNone
    <3> QED BY <1>4, <2>1, <3>1, <3>2
  <2>3. Len(u.footer) = IF Len(a) = 0 THEN 0 ELSE blockCountFor(Len(a)) - 1
    <3>1. Len(u.footer) = 0
      BY <1>9, <2>1, Zenon
    <3>2. Len(a) # 0 /\ blockCountFor(Len(a)) = 0 + 1
      BY <1>3, <1>12, <1>16, <2>1
    <3> QED BY <3>1, <3>2
  <2>4. \A i \in 1..Len(u.footer) : u.footer[i] = Entry(a, i)
    <3>1. Len(u.footer) = 0
      BY <1>9, <2>1, Zenon
    <3> QED BY <3>1
  <2>5. Len(u.footer) * BlockSizeRecords + 1 = 1 /\ Len(a) = 1
    <3>1. Len(u.footer) = 0
      BY <1>9, <2>1, Zenon
    <3> QED BY <1>3, <1>7, <1>16, <3>1
  <2> QED BY <1>10, <2>1, <2>2, <2>3, <2>4, <2>5 DEF BlocksEntered, a, Entry
<1>17. CASE n % b = 0 /\ n > 0
  <2> DEFINE e == [start |-> n - BlockSizeRecords, blockCRC |-> v.block]
  <2>1. /\ u.footer = Append(v.footer, e)
        /\ u.block = Append(<<>>, item.rec) /\ m = k - 1 /\ n = k * b
    BY <1>2, <1>7, <1>9, <1>13, <1>17
  <2>2. e = Entry(a, k)
    <3>1. k \in Nat \ {0} /\ (k - 1) * b = n - b
      BY <1>9, <2>1
    <3>2. BlockOf(a, k) = BlockOf(acc, k)
      <4>1. k * BlockSizeRecords <= Len(acc)
        BY <1>2, <1>7, <2>1
      <4> QED BY <1>1, <3>1, <4>1, BlockKept DEF a
    <3>3. BlockOf(acc, k) = SubSeq(R, (k - 1) * b + 1, n)
      BY <1>2, <1>7, <2>1 DEF BlockOf, Smaller, R
    <3> QED BY <1>7, <1>10, <2>1, <3>1, <3>2, <3>3 DEF Entry
  <2>3. Longer(v.footer, e, u.footer)
    BY <1>10, <2>1, AppendLonger, Zenon
  <2> HIDE DEF e
  <2>4. /\ IsSeq(u.footer) /\ Len(u.footer) = k /\ u.footer[k] = Entry(a, k)
        /\ \A i \in 1..m : u.footer[i] = Entry(a, i)
    BY <1>9, <1>10, <1>11, <2>1, <2>2, <2>3 DEF Longer
  <2>5. \A i \in 1..Len(u.footer) : u.footer[i] = Entry(a, i)
    <3>1. \A i \in 1..k : i \in 1..m \/ i = k
      BY <2>1
    <3> QED BY <2>4, <3>1, Zenon
  <2>6. u.block = SubSeq(RecordsOf(a), k * b + 1, n + 1)
    <3>1. SubSeq(Append(R, item.rec), n + 1, n + 1) = Append(SubSeq(R, n + 1, n), item.rec)
      BY <1>5, <1>17, PartGrows
    <3>2. SubSeq(R, n + 1, n) = <<>>
      BY <1>5, PartNone
    <3> QED BY <1>4, <2>1, <3>1, <3>2
  <2>7. Len(u.footer) = IF Len(a) = 0 THEN 0 ELSE blockCountFor(Len(a)) - 1
    BY <1>3, <1>12, <1>17, <2>4
  <2>8. Len(u.footer) * BlockSizeRecords = k * b
    BY <1>7, <2>4
  <2> QED BY <1>3, <2>4, <2>5, <2>6, <2>7, <2>8, Zenon DEF BlocksEntered, a, Entry
<1> QED BY <1>15, <1>16, <1>17

\* A blob: its counts and its levels.
LevelPairs == [bids : Seq(Nat), asks : Seq(Nat)]

LEMMA EncodeIs ==
  ASSUME NEW l \in LevelPairs
  PROVE  /\ IsSeq(Encode(l)) /\ Len(Encode(l)) = 1 + Len(l.bids) + Len(l.asks)
         /\ Len(l.bids) \in Nat /\ Len(l.asks) \in Nat
         /\ Encode(l)[1] = [crc |-> l, bids |-> Len(l.bids), asks |-> Len(l.asks)]
         /\ \A i \in 1..Len(l.bids) + Len(l.asks) :
              Encode(l)[1 + i] = [level |-> (l.bids \o l.asks)[i]]
<1> DEFINE head == [crc |-> l, bids |-> Len(l.bids), asks |-> Len(l.asks)]
           all == l.bids \o l.asks
           cells == [i \in DOMAIN all |-> [level |-> all[i]]]
<1>1. l.bids \in Seq(Nat) /\ l.asks \in Seq(Nat)
  BY DEF LevelPairs
<1>2. /\ Len(l.bids) \in Nat /\ Len(l.asks) \in Nat
      /\ DOMAIN all = 1..Len(l.bids) + Len(l.asks)
  <2>1. all \in Seq(Nat) /\ Len(all) = Len(l.bids) + Len(l.asks)
    BY <1>1
  <2> QED BY <1>1, <2>1
<1>3. PICK p \in Nat, q \in Nat : p = Len(l.bids) /\ q = Len(l.asks)
  BY <1>2, Zenon
<1>13. PICK n \in Nat : n = p + q /\ 1 + n = 1 + p + q
  <2>1. p + q \in Nat /\ 1 + (p + q) = 1 + p + q
    OBVIOUS
  <2> QED BY <2>1
<1>4. Encode(l) = <<head>> \o cells
  BY DEF Encode
<1>5. /\ DOMAIN cells = 1..n /\ cells = [i \in 1..n |-> cells[i]]
      /\ \A i \in 1..n : cells[i] = [level |-> all[i]]
  BY <1>2, <1>3, <1>13
<1> HIDE DEF cells, head, all
<1>6. IsSeq(cells) /\ Len(cells) = n
  BY <1>5, FunIs
<1>7. IsSeq(<<head>>) /\ Len(<<head>>) = 1 /\ <<head>>[1] = head
  BY OneIs
<1>8. PICK one : one = <<head>> /\ IsSeq(one) /\ Len(one) = 1 /\ one[1] = head
  BY <1>7
<1>9. /\ IsSeq(one \o cells) /\ Len(one \o cells) = Len(one) + Len(cells)
      /\ \A i \in 1..Len(one) : (one \o cells)[i] = one[i]
      /\ \A i \in 1..Len(cells) : (one \o cells)[Len(one) + i] = cells[i]
  BY <1>6, <1>8, JoinIs
<1>10. PICK x : x = Encode(l)
  OBVIOUS
<1>11. /\ IsSeq(x) /\ Len(x) = 1 + n /\ x[1] = head
       /\ \A i \in 1..n : x[1 + i] = cells[i]
  <2>1. x = one \o cells /\ Len(one) = 1 /\ one[1] = head
    BY <1>4, <1>7, <1>8, <1>10, Zenon
  <2> QED BY <1>6, <1>9, <2>1
<1>12. Len(x) = 1 + Len(l.bids) + Len(l.asks)
  BY <1>3, <1>11, <1>13, Zenon
<1> QED BY <1>2, <1>3, <1>5, <1>10, <1>11, <1>12, <1>13 DEF head, all

\* One snapshot's levels, in the blobs bs.
Held(item, bs) ==
  /\ item.levels \in [bids : Seq(Nat), asks : Seq(Nat)]
  /\ item.rec.off \in Nat /\ item.rec.len = Len(Encode(item.levels))
  /\ item.rec.off + item.rec.len <= Len(bs)
  /\ SubSeq(bs, item.rec.off + 1, item.rec.off + item.rec.len) = Encode(item.levels)

LEMMA HeldIs ==
  ASSUME NEW v, NEW acc, NEW bs
  PROVE  BlobsHeld(v, acc, bs) <=>
           /\ IsSeq(bs) /\ v.blobLen = Len(bs)
           /\ \A i \in 1..Len(acc) : acc[i].rec.type = "snapshot" => Held(acc[i], bs)
BY Zenon DEF BlobsHeld, Held

LEMMA HeldLonger ==
  ASSUME NEW item, NEW bs, NEW more, IsSeq(bs), IsSeq(more), Held(item, bs)
  PROVE  Held(item, bs \o more)
<1>1. Len(bs) \in Nat /\ Len(more) \in Nat /\ Len(bs \o more) = Len(bs) + Len(more)
  BY LenIs, JoinIs
<1>2. PICK e : e = Encode(item.levels)
  OBVIOUS
<1>3. PICK off \in Nat, n \in Nat : off = item.rec.off /\ n = item.rec.len /\ n = Len(e)
  <2>1. Len(e) \in Nat
    BY <1>2, EncodeIs DEF Held, LevelPairs
  <2> QED BY <1>2, <2>1 DEF Held
<1>4. off + n <= Len(bs) /\ SubSeq(bs, off + 1, off + n) = e
  BY <1>2, <1>3 DEF Held
<1>5. SubSeq(bs \o more, off + 1, off + n) = SubSeq(bs, off + 1, off + n)
  BY <1>4, FrontPart
<1>6. off + n <= Len(bs \o more)
  BY <1>1, <1>4
<1> QED BY <1>2, <1>3, <1>4, <1>5, <1>6, Zenon DEF Held

LEMMA HeldLast ==
  ASSUME NEW item, NEW bs, IsSeq(bs), item.levels \in LevelPairs,
         item.rec.off = Len(bs), item.rec.len = Len(Encode(item.levels))
  PROVE  Held(item, bs \o Encode(item.levels))
<1>1. PICK e : e = Encode(item.levels)
  OBVIOUS
<1>2. IsSeq(e) /\ Len(e) \in Nat /\ Len(bs) \in Nat
  BY <1>1, EncodeIs, LenIs
<1>3. Len(bs \o e) = Len(bs) + Len(e)
  BY <1>2, JoinIs
<1>4. SubSeq(bs \o e, Len(bs) + 1, Len(bs) + Len(e)) = e
  <2>1. IsSeq(<<>>) /\ IsSeq(bs \o e)
    BY <1>2, NoneIs, JoinIs
  <2>2. SubSeq((bs \o e) \o <<>>, Len(bs) + 1, Len(bs) + Len(e)) = e
    BY <1>2, <2>1, MiddleIs
  <2>3. (bs \o e) \o <<>> = bs \o e
    BY <2>1, JoinNone
  <2> QED BY <2>2, <2>3
<1>5. Len(bs) + Len(e) <= Len(bs \o e)
  BY <1>2, <1>3
<1> QED BY <1>1, <1>2, <1>4, <1>5, Zenon DEF Held, LevelPairs

\* The blobs, with a record more, and with a snapshot's blob more.
LEMMA AppendBlobs ==
  ASSUME NEW acc, Sorted(acc), NEW v, NEW bs, BlobsHeld(v, acc, bs), NEW item, NEW u, NEW more,
         IsSeq(more), u.blobLen = v.blobLen + Len(more),
         item.rec.type = "snapshot" => Held(item, bs \o more)
  PROVE  BlobsHeld(u, Append(acc, item), bs \o more)
<1>1. IsSeq(acc)
  BY DEF Sorted
<1>2. PICK n \in Nat : n = Len(acc)
  BY <1>1, LenIs
<1>3. PICK a : a = Append(acc, item)
  OBVIOUS
<1>4. /\ Len(a) = n + 1 /\ a[n + 1] = item
      /\ \A i \in 1..n : a[i] = acc[i]
  <2>1. Longer(acc, item, a)
    BY <1>1, <1>3, AppendLonger, Zenon
  <2> QED BY <1>2, <2>1 DEF Longer
<1>5. /\ IsSeq(bs) /\ v.blobLen = Len(bs)
      /\ \A i \in 1..n : acc[i].rec.type = "snapshot" => Held(acc[i], bs)
  BY <1>2, HeldIs, Zenon
<1>6. IsSeq(bs \o more) /\ Len(bs \o more) = Len(bs) + Len(more)
  BY <1>5, JoinIs
<1>7. \A i \in 1..n + 1 : a[i].rec.type = "snapshot" => Held(a[i], bs \o more)
  <2> SUFFICES ASSUME NEW i \in 1..n + 1, a[i].rec.type = "snapshot" PROVE Held(a[i], bs \o more)
    OBVIOUS
  <2>1. CASE i \in 1..n
    BY <1>4, <1>5, <2>1, HeldLonger, Zenon
  <2>2. CASE i = n + 1
    BY <1>4, <2>2, Zenon
  <2>3. i \in 1..n \/ i = n + 1
    OBVIOUS
  <2> QED BY <2>1, <2>2, <2>3
<1>8. BlobsHeld(u, a, bs \o more)
  BY <1>4, <1>5, <1>6, <1>7, HeldIs, Zenon
<1> QED BY <1>3, <1>8

LEMMA FillingSame ==
  ASSUME NEW v, NEW u, NEW acc, NEW c, Filling(v, acc, c),
         u.recCount = v.recCount, u.timeIndex = v.timeIndex, u.hdr = v.hdr, u.lastKey = v.lastKey,
         u.snapIndex = v.snapIndex, u.footer = v.footer, u.block = v.block, u.pos = v.pos,
         u.buf = v.buf
  PROVE  Filling(u, acc, c)
<1>1. TimesIndexed(u, acc)
  BY Zenon DEF Filling, TimesIndexed
<1>2. SnapshotsIndexed(u, acc)
  BY Zenon DEF Filling, SnapshotsIndexed
<1>3. BlocksEntered(u, acc)
  BY Zenon DEF Filling, BlocksEntered
<1> QED BY <1>1, <1>2, <1>3, Zenon DEF Filling

\* The fields of a writer that has entered and buffered a record.
Grown(v, u, rec) ==
  /\ u.recCount = v.recCount + 1 /\ u.lastKey = rec.key /\ u.pos = v.pos + 1
  /\ u.hdr.min = IF v.recCount = 0 THEN rec.key[1] ELSE v.hdr.min
  /\ u.hdr.max = rec.key[1]
  /\ u.snapIndex = IF rec.type = "snapshot" THEN Append(v.snapIndex, v.recCount) ELSE v.snapIndex
  /\ u.buf = IF Len(v.buf) = BufCells THEN <<rec>> ELSE Append(v.buf, rec)
  /\ v.recCount % BlockSizeRecords # 0 =>
       u.timeIndex = v.timeIndex /\ u.footer = v.footer /\ u.block = Append(v.block, rec)
  /\ v.recCount % BlockSizeRecords = 0 =>
       /\ u.timeIndex = Append(v.timeIndex, rec.key[1])
       /\ u.footer = IF v.recCount > 0
                     THEN Append(v.footer, [start |-> v.recCount - BlockSizeRecords,
                                            blockCRC |-> v.block])
                     ELSE v.footer
       /\ u.block = Append(<<>>, rec)

LEMMA GrownIs ==
  ASSUME NEW v, DOMAIN v = WriterFields, DOMAIN v.hdr = {"min", "max", "blobs"}, NEW rec,
         NEW u, But(Buffered(Entered(v, rec), rec), u, {"blobBuf", "blobLen"})
  PROVE  Grown(v, u, rec)
<1>1. PICK e : e = Entered(v, rec)
  OBVIOUS
<1>2. PICK b : b = Buffered(e, rec)
  OBVIOUS
<1>3. /\ But(v, e, {"footer", "block", "timeIndex"})
      /\ v.recCount % BlockSizeRecords # 0 =>
           e.footer = v.footer /\ e.block = v.block /\ e.timeIndex = v.timeIndex
      /\ v.recCount % BlockSizeRecords = 0 =>
           /\ e.footer = IF v.recCount > 0
                         THEN Append(v.footer, [start |-> v.recCount - BlockSizeRecords,
                                                blockCRC |-> v.block])
                         ELSE v.footer
           /\ e.block = <<>> /\ e.timeIndex = Append(v.timeIndex, rec.key[1])
  <2>1. WriterFields \subseteq DOMAIN v
    OBVIOUS
  <2> QED BY <1>1, <2>1, EnteredIs, Zenon
<1>4. /\ DOMAIN e = WriterFields /\ e.hdr = v.hdr /\ e.recCount = v.recCount /\ e.buf = v.buf
      /\ e.snapIndex = v.snapIndex /\ e.pos = v.pos
  BY <1>3 DEF But, WriterFields
<1>5. /\ But(e, b, {"buf", "block", "snapIndex", "hdr", "pos", "recCount", "lastKey"})
      /\ b.buf = IF Len(e.buf) = BufCells THEN <<rec>> ELSE Append(e.buf, rec)
      /\ b.block = Append(e.block, rec)
      /\ b.snapIndex = IF rec.type = "snapshot" THEN Append(e.snapIndex, e.recCount) ELSE e.snapIndex
      /\ b.hdr.min = IF e.recCount = 0 THEN rec.key[1] ELSE e.hdr.min
      /\ b.hdr.max = rec.key[1]
      /\ b.pos = e.pos + 1 /\ b.recCount = e.recCount + 1 /\ b.lastKey = rec.key
  <2>1. WriterFields \subseteq DOMAIN e /\ DOMAIN e.hdr = {"min", "max", "blobs"}
    BY <1>4
  <2> QED BY <1>2, <2>1, BufferedIs, Zenon
<1>6. DOMAIN b = WriterFields /\ b.footer = e.footer /\ b.timeIndex = e.timeIndex
  BY <1>4, <1>5 DEF But, WriterFields
<1>7. But(b, u, {"blobBuf", "blobLen"})
  BY <1>1, <1>2
<1>8. /\ u.footer = b.footer /\ u.timeIndex = b.timeIndex /\ u.block = b.block /\ u.buf = b.buf
      /\ u.hdr = b.hdr /\ u.pos = b.pos /\ u.recCount = b.recCount /\ u.lastKey = b.lastKey
      /\ u.snapIndex = b.snapIndex
  BY <1>6, <1>7 DEF But, WriterFields
<1>9. /\ u.recCount = v.recCount + 1 /\ u.lastKey = rec.key /\ u.pos = v.pos + 1
      /\ u.hdr.min = IF v.recCount = 0 THEN rec.key[1] ELSE v.hdr.min
      /\ u.hdr.max = rec.key[1]
      /\ u.snapIndex = IF rec.type = "snapshot" THEN Append(v.snapIndex, v.recCount) ELSE v.snapIndex
      /\ u.buf = IF Len(v.buf) = BufCells THEN <<rec>> ELSE Append(v.buf, rec)
  BY <1>4, <1>5, <1>8, Zenon
<1>10. v.recCount % BlockSizeRecords # 0 =>
         u.timeIndex = v.timeIndex /\ u.footer = v.footer /\ u.block = Append(v.block, rec)
  BY <1>3, <1>5, <1>6, <1>8, Zenon
<1>11. v.recCount % BlockSizeRecords = 0 =>
         /\ u.timeIndex = Append(v.timeIndex, rec.key[1])
         /\ u.footer = IF v.recCount > 0
                       THEN Append(v.footer, [start |-> v.recCount - BlockSizeRecords,
                                              blockCRC |-> v.block])
                       ELSE v.footer
         /\ u.block = Append(<<>>, rec)
  BY <1>3, <1>5, <1>6, <1>8, Zenon
<1> QED BY <1>9, <1>10, <1>11, Zenon DEF Grown

\* The record goes into the buffer, a full one first to the file.
Spilling(c, buf, rec, d, more) ==
  /\ IsSeq(c) /\ IsSeq(buf)
  /\ more = IF Len(buf) = BufCells THEN <<rec>> ELSE Append(buf, rec)
  /\ d = IF Len(buf) = BufCells THEN c \o buf ELSE c

OneMore(c, buf, rec, d, more) ==
  IsSeq(more) /\ IsSeq(d) /\ d \o more = (c \o buf) \o <<rec>>

LEMMA BufferGrows ==
  ASSUME NEW c, NEW buf, NEW rec, NEW d, NEW more, Spilling(c, buf, rec, d, more)
  PROVE  OneMore(c, buf, rec, d, more)
<1> USE DEF Spilling, OneMore
<1>1. IsSeq(<<rec>>)
  BY OneIs
<1>2. CASE Len(buf) = BufCells
  BY <1>1, <1>2, JoinIs
<1>3. CASE Len(buf) # BufCells
  <2>1. Append(buf, rec) = buf \o <<rec>> /\ IsSeq(Append(buf, rec))
    BY AppendIs
  <2>2. (c \o buf) \o <<rec>> = c \o (buf \o <<rec>>)
    BY <1>1, JoinAssoc
  <2> QED BY <1>3, <2>1, <2>2, Zenon
<1> QED BY <1>2, <1>3

LEMMA FillingGrows ==
  ASSUME NEW v, NEW acc, NEW c, Filling(v, acc, c), NEW item, Appendable(acc, item.rec),
         NEW u, Grown(v, u, item.rec)
  PROVE  Filling(u, Append(acc, item), IF Len(v.buf) = BufCells THEN c \o v.buf ELSE c)
<1>1. PICK a : a = Append(acc, item)
  OBVIOUS
<1>2. PICK d : d = IF Len(v.buf) = BufCells THEN c \o v.buf ELSE c
  OBVIOUS
<1>3. IsSeq(acc) /\ Len(acc) \in Nat
  <2>1. IsSeq(acc)
    BY DEF Filling, Sorted
  <2> QED BY <2>1, LenIs
<1>4. Sorted(acc) /\ v.recCount = Len(acc) /\ v.pos = 1 + Len(acc)
  BY Zenon DEF Filling, TimesIndexed
<1>5. Sorted(a)
  BY <1>1, <1>4, AppendSorted, Zenon
<1>6. TimesIndexed(u, a)
  <2>1. TimesIndexed(v, acc)
    BY DEF Filling
  <2> QED BY <1>1, <1>4, <2>1, AppendTimes, Zenon DEF Grown
<1>7. SnapshotsIndexed(u, a)
  <2>1. SnapshotsIndexed(v, acc)
    BY DEF Filling
  <2> QED BY <1>1, <1>4, <2>1, AppendSnapshots, Zenon DEF Grown
<1>8. BlocksEntered(u, a)
  <2>1. BlocksEntered(v, acc)
    BY DEF Filling
  <2> QED BY <1>1, <1>4, <2>1, AppendBlocks, Zenon DEF Grown
<1>9. u.pos = 1 + Len(a)
  <2>1. Longer(acc, item, a)
    BY <1>1, <1>3, AppendLonger, Zenon
  <2>2. u.pos = v.pos + 1
    BY DEF Grown
  <2> QED BY <1>3, <1>4, <2>1, <2>2 DEF Longer
<1>10. IsSeq(u.buf) /\ IsSeq(d) /\ d \o u.buf = (c \o v.buf) \o <<item.rec>>
  <2>1. IsSeq(c) /\ IsSeq(v.buf)
    BY DEF Filling
  <2>2. u.buf = IF Len(v.buf) = BufCells THEN <<item.rec>> ELSE Append(v.buf, item.rec)
    BY DEF Grown
  <2>3. Spilling(c, v.buf, item.rec, d, u.buf)
    BY <1>2, <2>1, <2>2, Zenon DEF Spilling
  <2>4. OneMore(c, v.buf, item.rec, d, u.buf)
    BY <2>3, BufferGrows, Zenon
  <2> QED BY <2>4, Zenon DEF OneMore
<1>11. (c \o v.buf) \o <<item.rec>> = <<Zero>> \o RecordsOf(a)
  <2>1. c \o v.buf = <<Zero>> \o RecordsOf(acc)
    BY DEF Filling
  <2>2. RecordsOf(a) = RecordsOf(acc) \o <<item.rec>> /\ IsSeq(RecordsOf(acc))
    <3>1. IsSeq(RecordsOf(acc))
      BY <1>3, RecordsOfIs
    <3>2. Append(RecordsOf(acc), item.rec) = RecordsOf(acc) \o <<item.rec>>
      BY <3>1, AppendIs
    <3> QED BY <1>1, <1>3, <3>1, <3>2, RecordsAppend, Zenon
  <2>3. IsSeq(<<Zero>>) /\ IsSeq(<<item.rec>>)
    BY OneIs
  <2>4. (<<Zero>> \o RecordsOf(acc)) \o <<item.rec>> = <<Zero>> \o (RecordsOf(acc) \o <<item.rec>>)
    <3>1. PICK z, r, o : z = <<Zero>> /\ r = RecordsOf(acc) /\ o = <<item.rec>>
      OBVIOUS
    <3>2. (z \o r) \o o = z \o (r \o o)
      BY <2>2, <2>3, <3>1, JoinAssoc
    <3> QED BY <3>1, <3>2, Zenon
  <2> QED BY <2>1, <2>2, <2>4, Zenon
<1>12. Filling(u, a, d)
  BY <1>5, <1>6, <1>7, <1>8, <1>9, <1>10, <1>11, Zenon DEF Filling
<1> QED BY <1>1, <1>2, <1>12, Zenon

-----------------------------------------------------------------------------
(***************************************************************************)
(* The writer at work.                                                     *)
(***************************************************************************)

\* The finalized byte is clear, and not a file that was closed.
LEMMA EarlyDurable ==
  ASSUME file'.fin = 0, file'.durFin = 0, closed' = FALSE
  PROVE  Durable'
BY DEF Durable

\* A writer with an error is not asked about its content.
LEMMA FailedContent ==
  ASSUME w'.failed = TRUE \/ w'.blobFailed = TRUE
  PROVE  Content'
BY Zenon DEF Content

LEMMA NewContent ==
  ASSUME Shaped, NewWriter
  PROVE  Content' /\ Progress' /\ Durable'
<1>1. /\ file'.fin = 0 /\ file'.durFin = 0 /\ file'.cells = <<>> /\ file'.durCells = <<>>
      /\ closed' = FALSE /\ accepted' = <<>>
  BY DEF NewWriter, Empty
<1>2. Durable'
  BY <1>1, EarlyDurable
<1>3. CASE w' = NoWriter
  <2>1. w'.state = "none"
    BY <1>3 DEF NoWriter
  <2> QED BY <1>2, <2>1, Zenon DEF Content, Progress
<1>4. CASE w' = Writer
  <2>1. /\ w'.state = "open" /\ w'.step = "none" /\ w'.buf = <<Zero>> /\ w'.blob = "none"
        /\ w'.blobBuf = <<>> /\ w'.blobLen = 0 /\ w'.pos = 1 /\ w'.recCount = 0
        /\ w'.timeIndex = <<>> /\ w'.snapIndex = <<>> /\ w'.footer = <<>> /\ w'.block = <<>>
        /\ w'.hdr.min = 0 /\ w'.hdr.max = 0
    BY <1>4 DEF Writer
  <2>2. IsSeq(<<>>) /\ Len(<<>>) = 0
    BY NoneIs
  <2>3. IsSeq(RecordsOf(<<>>)) /\ Len(RecordsOf(<<>>)) = 0
    BY <2>2, RecordsOfIs
  <2>4. RecordsOf(<<>>) = <<>>
    <3>1. \A i \in 1..0 : RecordsOf(<<>>)[i] = <<>>[i]
      OBVIOUS
    <3> QED BY <2>2, <2>3, <3>1, SameIs
  <2>5. Sorted(<<>>)
    BY <2>2, StoreAssumption DEF Sorted
  <2>6. blockCountFor(0) = 0
    <3>1. PICK b \in Nat \ {0} : b = BlockSizeRecords
      BY StoreAssumption
    <3>2. 0 * b = 0
      OBVIOUS
    <3> QED BY <3>1, <3>2, BlockCountUnique
  <2>7. TimesIndexed(w', <<>>)
    BY <2>1, <2>2, <2>6 DEF TimesIndexed
  <2>8. SnapshotsIndexed(w', <<>>)
    BY <2>1, <2>2 DEF SnapshotsIndexed
  <2>9. BlocksEntered(w', <<>>)
    <3>1. SubSeq(RecordsOf(<<>>), 1, 0) = <<>>
      BY <2>3, PartNone
    <3>2. Len(w'.footer) * BlockSizeRecords + 1 = 1
      BY <2>1, <2>2, StoreAssumption
    <3> QED BY <2>1, <2>2, <3>1, <3>2 DEF BlocksEntered
  <2>10. IsSeq(<<Zero>>) /\ <<>> \o <<Zero>> = <<Zero>> \o RecordsOf(<<>>)
    <3>1. IsSeq(<<Zero>>)
      BY OneIs
    <3> QED BY <2>4, <3>1, JoinNone
  <2>11. Filling(w, accepted, file.cells)'
    <3>1. 1 + Len(<<>>) = 1
      BY <2>2
    <3> QED BY <1>1, <2>1, <2>2, <2>5, <2>7, <2>8, <2>9, <2>10, <3>1, Zenon DEF Filling
  <2>12. Blobbed'
    <3>1. BlobsHeld(w', <<>>, <<>>)
      BY <2>1, <2>2 DEF BlobsHeld
    <3> QED BY <1>1, <2>1, <3>1 DEF Blobbed, Blobs
  <2>13. Content'
    BY <2>1, <2>11, <2>12 DEF Content
  <2>14. Progress'
    BY <1>1, <2>1 DEF Progress
  <2> QED BY <1>2, <2>13, <2>14
<1> QED BY <1>3, <1>4 DEF NewWriter

\* While records are accepted the finalized byte is clear.
LEMMA Accepting ==
  ASSUME Shaped, Progress, w.state = "open", w.step = "none",
         w'.state = "open", w'.step = "none", closed' = closed,
         file' = file \/ (\E buf : file' = Spilled(file, buf))
  PROVE  Progress' /\ Durable'
<1>1. Opened
  BY OpenIs
<1>2. file.fin = 0 /\ file.durFin = 0
  BY DEF Progress, Steps
<1>3. file'.fin = 0 /\ file'.durFin = 0
  BY <1>1, <1>2, ExtendIs DEF But, Opened, FileFields
<1>4. closed' = FALSE
  BY <1>1 DEF Opened
<1> QED BY <1>3, <1>4, EarlyDurable DEF Progress

LEMMA AppendableIs ==
  ASSUME NEW acc, NEW c, Filling(w, acc, c), NEW rec, Appends(rec),
         DOMAIN rec = RecordFields, rec.key \in Nat \X Nat
  PROVE  Appendable(acc, rec)
<1>1. IsSeq(acc) /\ w.recCount = Len(acc) /\ (Len(acc) # 0 => w.lastKey = acc[Len(acc)].rec.key)
  BY Zenon DEF Filling, Sorted, TimesIndexed
<1>2. Len(acc) \in Nat
  BY <1>1, LenIs
<1>3. /\ validateRecord(rec) /\ (w.recCount > 0 => KeyBefore(w.lastKey, rec.key))
      /\ w.recCount < MaxRecordCount
  BY DEF Appends
<1>4. Len(acc) > 0 => Len(acc) # 0
  BY <1>2
<1> QED BY <1>1, <1>3, <1>4, Zenon DEF Appendable

\* An accepted record, in a writer v of the fields of w.
LEMMA AcceptedFilling ==
  ASSUME NEW v, DOMAIN v = WriterFields, DOMAIN v.hdr = {"min", "max", "blobs"},
         NEW acc, Filling(v, acc, file.cells), NEW item, Appendable(acc, item.rec), Opened,
         v.buf = w.buf, file' = Spilled(file, w.buf),
         NEW u, But(Buffered(Entered(v, item.rec), item.rec), u, {"blobBuf", "blobLen"})
  PROVE  Filling(u, Append(acc, item), file'.cells)
<1>1. Grown(v, u, item.rec)
  BY GrownIs, Zenon
<1>2. file'.cells = IF Len(v.buf) = BufCells THEN file.cells \o v.buf ELSE file.cells
  BY ExtendIs DEF Opened, FileFields
<1>3. PICK c : c = file.cells
  OBVIOUS
<1>4. Filling(u, Append(acc, item), IF Len(v.buf) = BufCells THEN c \o v.buf ELSE c)
  BY <1>1, <1>3, FillingGrows, Zenon
<1> QED BY <1>2, <1>3, <1>4, Zenon

LEMMA RecordContent ==
  ASSUME Shaped, Content, Progress, NEW key \in Keys, WriteRecord(key)
  PROVE  Content' /\ Progress' /\ Durable'
<1> DEFINE rec == Delta(key, 1) item == [rec |-> rec, levels |-> NoLevels]
           b == Buffered(Entered(w, rec), rec)
<1>1. Opened /\ w.step = "none" /\ Appends(rec)
  BY OpenIs DEF WriteRecord, Called
<1>2. DOMAIN w = WriterFields /\ DOMAIN w.hdr = {"min", "max", "blobs"} /\ w.state = "open"
  BY <1>1 DEF Opened
<1>3. /\ Still(w, b) /\ b.failed = w.failed
      /\ Still(w, Refused(w, rec)) /\ Refused(w, rec).failed = TRUE
  BY <1>2, AppendedIs
<1>4. /\ side' = side /\ closed' = closed
      /\ \/ ~w.failed /\ w' = b /\ file' = Spilled(file, w.buf) /\ accepted' = Append(accepted, item)
         \/ w' = Refused(w, rec) /\ file' = file
  BY DEF WriteRecord, Refused
<1>5. /\ rec.key = key /\ rec.type = "delta" /\ DOMAIN rec = RecordFields /\ key \in Nat \X Nat
      /\ item.rec = rec
  BY StoreAssumption DEF Delta, RecordFields
<1> HIDE DEF rec, item, b
<1>6. Still(w, w')
  BY <1>3, <1>4
<1>7. Progress' /\ Durable'
  <2>1. w'.state = "open" /\ w'.step = "none"
    BY <1>1, <1>2, <1>6 DEF Still
  <2>2. file' = file \/ (\E buf : file' = Spilled(file, buf))
    BY <1>4
  <2> QED BY <1>1, <1>2, <1>4, <2>1, <2>2, Accepting
<1>8. CASE w' = Refused(w, rec)
  BY <1>3, <1>7, <1>8, FailedContent
<1>9. CASE ~w.failed /\ w' = b /\ file' = Spilled(file, w.buf) /\ accepted' = Append(accepted, item)
  <2>1. CASE w.blobFailed
    <3>1. w'.blobFailed = TRUE
      BY <1>1, <1>6, <2>1 DEF Still, Opened
    <3> QED BY <1>7, <3>1, FailedContent
  <2>2. CASE ~w.blobFailed
    <3>1. Filling(w, accepted, file.cells) /\ Blobbed
      BY <1>1, <1>2, <1>9, <2>2, Zenon DEF Content
    <3>2. Appendable(accepted, rec)
      BY <1>1, <1>5, <3>1, AppendableIs
    <3>3. Filling(w', accepted', file'.cells)
      <4>1. But(Buffered(Entered(w, item.rec), item.rec), w', {"blobBuf", "blobLen"})
        BY <1>5, <1>9 DEF But, b
      <4>2. Appendable(accepted, item.rec)
        BY <1>5, <3>2
      <4> QED BY <1>1, <1>2, <1>9, <3>1, <4>1, <4>2, AcceptedFilling
    <3>4. Blobs' = Blobs /\ Blobs \o <<>> = Blobs
      <4>1. IsSeq(Blobs)
        BY <3>1 DEF Blobbed, BlobsHeld
      <4>2. Blobs' = Blobs
        BY <1>4, <1>6 DEF Blobs, Still
      <4> QED BY <4>1, <4>2, JoinNone
    <3>5. BlobsHeld(w', accepted', Blobs')
      <4>1. PICK bs : bs = Blobs /\ bs \o <<>> = bs
        BY <3>4
      <4>2. IsSeq(<<>>) /\ w'.blobLen = w.blobLen + Len(<<>>)
        <5>1. w.blobLen = Len(bs) /\ IsSeq(bs)
          BY <3>1, <4>1, Zenon DEF Blobbed, BlobsHeld
        <5>2. w.blobLen \in Nat
          BY <5>1, LenIs
        <5> QED BY <1>6, <5>2, NoneIs DEF Still
      <4>3. Sorted(accepted) /\ BlobsHeld(w, accepted, bs) /\ item.rec.type # "snapshot"
        BY <1>5, <3>1, <4>1 DEF Filling, Blobbed
      <4>4. BlobsHeld(w', Append(accepted, item), bs \o <<>>)
        BY <4>2, <4>3, AppendBlobs, Zenon
      <4> QED BY <1>9, <3>4, <4>1, <4>4, Zenon
    <3>6. Blobbed'
      BY <1>4, <1>6, <3>1, <3>5 DEF Blobbed, Still
    <3>7. w'.step = "none"
      BY <1>1, <1>6 DEF Still
    <3> QED BY <1>7, <3>3, <3>6, <3>7 DEF Content
  <2> QED BY <2>1, <2>2
<1> QED BY <1>4, <1>8, <1>9

\* The sidecar and its buffer, as WriteSnapshot finds or opens them.
LEMMA SidecarIs ==
  ASSUME Opened, Blobbed
  PROVE  /\ IsSeq(openBlobFile.cells) /\ IsSeq(w.blobBuf) /\ DOMAIN openBlobFile = {"cells"}
         /\ Blobs = openBlobFile.cells \o w.blobBuf
<1>1. CASE w.blob = "none"
  <2>1. openBlobFile = [cells |-> <<>>] /\ w.blobBuf = <<>> /\ Blobs = <<>>
    BY <1>1 DEF openBlobFile, Blobs, Blobbed
  <2>2. IsSeq(<<>>) /\ <<>> \o <<>> = <<>>
    BY NoneIs, JoinNone
  <2> QED BY <2>1, <2>2
<1>2. CASE w.blob = "open"
  BY <1>2, Zenon DEF openBlobFile, Blobs, Blobbed, Opened
<1> QED BY <1>1, <1>2 DEF Opened

LEMMA SnapshotContent ==
  ASSUME Shaped, Content, Progress, NEW key \in Keys, NEW l \in Levels, WriteSnapshot(key, l)
  PROVE  Content' /\ Progress' /\ Durable'
<1> DEFINE blob == Encode(l)
           rec == [key |-> key, type |-> "snapshot", value |-> 0, off |-> w.blobLen,
                   len |-> Len(blob), count |-> Len(blob) - 1]
           item == [rec |-> rec, levels |-> l]
           opened == [w EXCEPT !.blob = "open"]
           full == Len(w.blobBuf) + Len(blob) > BufCells
           v == Buffered(Entered(opened, rec), rec)
<1>1. Opened /\ w.step = "none" /\ w.state = "open"
  BY OpenIs DEF WriteSnapshot, Called
<1>2. /\ DOMAIN opened = WriterFields /\ DOMAIN opened.hdr = {"min", "max", "blobs"}
      /\ But(w, opened, {"blob"}) /\ opened.blob = "open"
  BY <1>1 DEF Opened, But, WriterFields
<1>3. /\ rec.key = key /\ rec.type = "snapshot" /\ DOMAIN rec = RecordFields /\ key \in Nat \X Nat
      /\ item.rec = rec /\ item.levels = l /\ l \in LevelPairs
      /\ rec.off = w.blobLen /\ rec.len = Len(blob)
  BY StoreAssumption DEF RecordFields, LevelPairs
<1>4. closed' = closed /\ (file' = file \/ file' = Spilled(file, w.buf))
  BY DEF WriteSnapshot
<1>5. \/ w' = opened /\ side' = openBlobFile /\ file' = file /\ accepted' = accepted /\ w.blob = "none"
      \/ w' = Refused(opened, rec)
      \/ /\ Appends(rec) /\ ~w.failed /\ file' = Spilled(file, w.buf) /\ ~w.blobFailed
         /\ side' = IF full THEN Extend(openBlobFile, w.blobBuf) ELSE openBlobFile
         /\ w' = [v EXCEPT !.blobBuf = IF full THEN blob ELSE @ \o blob,
                           !.blobLen = @ + Len(blob)]
         /\ accepted' = Append(accepted, item)
      \/ w' = [v EXCEPT !.blobFailed = TRUE]
  BY DEF WriteSnapshot, Refused
<1> HIDE DEF opened, rec, item
<1>6. /\ Still(opened, v) /\ v.failed = opened.failed
      /\ Still(opened, Refused(opened, rec)) /\ Refused(opened, rec).failed = TRUE
  BY <1>2, AppendedIs
<1> HIDE DEF v, full, blob
<1>7. /\ opened.state = "open" /\ opened.step = "none" /\ opened.failed = w.failed
      /\ opened.blobFailed = w.blobFailed /\ opened.blobBuf = w.blobBuf
      /\ opened.blobLen = w.blobLen /\ opened.buf = w.buf
  BY <1>1, <1>2 DEF But, WriterFields
<1>8. w'.state = "open" /\ w'.step = "none"
  <2>1. CASE w' = opened
    BY <1>7, <2>1
  <2>2. CASE w' = Refused(opened, rec)
    BY <1>6, <1>7, <2>2 DEF Still
  <2>3. CASE w' = [v EXCEPT !.blobBuf = IF full THEN blob ELSE @ \o blob, !.blobLen = @ + Len(blob)]
    BY <1>6, <1>7, <2>3 DEF Still, WriterFields
  <2>4. CASE w' = [v EXCEPT !.blobFailed = TRUE]
    BY <1>6, <1>7, <2>4 DEF Still, WriterFields
  <2> QED BY <1>5, <2>1, <2>2, <2>3, <2>4
<1>9. Progress' /\ Durable'
  <2>1. file' = file \/ (\E buf : file' = Spilled(file, buf))
    BY <1>4
  <2> QED BY <1>1, <1>4, <1>8, <2>1, Accepting
<1>10. ASSUME ~w.failed, ~w.blobFailed
       PROVE  Filling(w, accepted, file.cells) /\ Blobbed /\ Filling(opened, accepted, file.cells)
  <2>1. Filling(w, accepted, file.cells) /\ Blobbed
    BY <1>1, <1>10, Zenon DEF Content
  <2>2. /\ opened.recCount = w.recCount /\ opened.timeIndex = w.timeIndex /\ opened.hdr = w.hdr
        /\ opened.lastKey = w.lastKey /\ opened.snapIndex = w.snapIndex
        /\ opened.footer = w.footer /\ opened.block = w.block /\ opened.pos = w.pos
        /\ opened.buf = w.buf
    BY <1>1, <1>2 DEF But, WriterFields, Opened
  <2>3. PICK acc, c : acc = accepted /\ c = file.cells
    OBVIOUS
  <2>4. Filling(opened, acc, c)
    BY <2>1, <2>2, <2>3, FillingSame, Zenon
  <2> QED BY <2>1, <2>3, <2>4, Zenon
<1>11. CASE w' = opened /\ side' = openBlobFile /\ file' = file /\ accepted' = accepted /\ w.blob = "none"
  <2>1. CASE w.failed \/ w.blobFailed
    <3>1. w'.failed = TRUE \/ w'.blobFailed = TRUE
      BY <1>1, <1>7, <1>11, <2>1 DEF Opened
    <3> QED BY <1>9, <3>1, FailedContent
  <2>2. CASE ~w.failed /\ ~w.blobFailed
    <3>1. Filling(w', accepted', file'.cells)
      BY <1>10, <1>11, <2>2
    <3>2. /\ IsSeq(openBlobFile.cells) /\ IsSeq(w.blobBuf)
          /\ Blobs = openBlobFile.cells \o w.blobBuf /\ BlobsHeld(w, accepted, Blobs)
      BY <1>1, <1>10, <2>2, SidecarIs DEF Blobbed
    <3>3. Blobs' = Blobs /\ w'.blobLen = w.blobLen /\ w'.blob = "open" /\ w'.blobBuf = w.blobBuf
      BY <1>2, <1>7, <1>11, <3>2 DEF Blobs
    <3>4. BlobsHeld(w', accepted', Blobs')
      BY <1>11, <3>2, <3>3 DEF BlobsHeld
    <3>5. Blobbed'
      BY <1>11, <3>2, <3>3, <3>4 DEF Blobbed
    <3> QED BY <1>8, <1>9, <3>1, <3>5 DEF Content
  <2> QED BY <2>1, <2>2
<1>12. CASE w' = Refused(opened, rec)
  BY <1>6, <1>9, <1>12, FailedContent
<1>13. CASE w' = [v EXCEPT !.blobFailed = TRUE]
  <2>1. w'.blobFailed = TRUE
    BY <1>6, <1>13 DEF Still, WriterFields
  <2> QED BY <1>9, <2>1, FailedContent
<1>14. CASE /\ Appends(rec) /\ ~w.failed /\ file' = Spilled(file, w.buf) /\ ~w.blobFailed
            /\ side' = IF full THEN Extend(openBlobFile, w.blobBuf) ELSE openBlobFile
            /\ w' = [v EXCEPT !.blobBuf = IF full THEN blob ELSE @ \o blob,
                              !.blobLen = @ + Len(blob)]
            /\ accepted' = Append(accepted, item)
  <2>1. Filling(w, accepted, file.cells) /\ Blobbed /\ Filling(opened, accepted, file.cells)
    BY <1>10, <1>14
  <2>2. Appendable(accepted, item.rec)
    <3>1. Appendable(accepted, rec)
      BY <1>3, <1>14, <2>1, AppendableIs
    <3> QED BY <1>3, <3>1
  <2>3. /\ But(v, w', {"blobBuf", "blobLen"}) /\ w'.blob = "open"
        /\ w'.blobBuf = (IF full THEN blob ELSE w.blobBuf \o blob)
        /\ w'.blobLen = w.blobLen + Len(blob)
    BY <1>2, <1>6, <1>7, <1>14 DEF Still, But, WriterFields
  <2>4. Filling(w', accepted', file'.cells)
    <3>1. But(Buffered(Entered(opened, item.rec), item.rec), w', {"blobBuf", "blobLen"})
      BY <1>3, <2>3 DEF v
    <3> QED BY <1>1, <1>2, <1>7, <1>14, <2>1, <2>2, <3>1, AcceptedFilling
  <2>5. PICK q : q = openBlobFile.cells
    OBVIOUS
  <2>6. IsSeq(q) /\ IsSeq(w.blobBuf) /\ Blobs = q \o w.blobBuf /\ DOMAIN openBlobFile = {"cells"}
    BY <1>1, <2>1, <2>5, SidecarIs
  <2>7. IsSeq(blob)
    BY <1>3, EncodeIs DEF blob
  <2>8. Blobs' = Blobs \o blob /\ IsSeq(side'.cells) /\ IsSeq(w'.blobBuf)
    <3>1. CASE full
      <4>1. side'.cells = q \o w.blobBuf /\ w'.blobBuf = blob
        BY <1>14, <2>3, <2>5, <2>6, <3>1, ExtendIs
      <4>2. IsSeq(q \o w.blobBuf)
        BY <2>6, JoinIs
      <4> QED BY <2>3, <2>6, <2>7, <4>1, <4>2 DEF Blobs
    <3>2. CASE ~full
      <4>1. side'.cells = q /\ w'.blobBuf = w.blobBuf \o blob
        BY <1>14, <2>3, <2>5, <3>2
      <4>2. IsSeq(w.blobBuf \o blob) /\ (q \o w.blobBuf) \o blob = q \o (w.blobBuf \o blob)
        <5>1. PICK buf : buf = w.blobBuf
          OBVIOUS
        <5>2. IsSeq(buf \o blob)
          BY <2>6, <2>7, <5>1, JoinIs
        <5>3. (q \o buf) \o blob = q \o (buf \o blob)
          <6>1. IsSeq(q) /\ IsSeq(buf) /\ IsSeq(blob)
            BY <2>6, <2>7, <5>1
          <6>2. Associate(q, buf, blob)
            BY <6>1, JoinAssociates, Zenon
          <6> QED BY <6>2, Zenon DEF Associate
        <5> QED BY <5>1, <5>2, <5>3
      <4>3. Blobs' = side'.cells \o w'.blobBuf
        BY <2>3 DEF Blobs
      <4> QED BY <2>6, <4>1, <4>2, <4>3, Zenon
    <3> QED BY <3>1, <3>2
  <2>9. BlobsHeld(w', accepted', Blobs')
    <3>1. PICK bs : bs = Blobs
      OBVIOUS
    <3>2. Sorted(accepted) /\ BlobsHeld(w, accepted, bs)
      BY <2>1, <3>1, Zenon DEF Filling, Blobbed
    <3>3. IsSeq(bs) /\ w.blobLen = Len(bs)
      BY <3>2, Zenon DEF BlobsHeld
    <3>4. Held(item, bs \o blob)
      <4>1. item.levels \in LevelPairs /\ item.rec.off = Len(bs) /\ item.rec.len = Len(Encode(item.levels))
        BY <1>3, <3>3, Zenon DEF blob
      <4>2. Held(item, bs \o Encode(item.levels))
        BY <3>3, <4>1, HeldLast, Zenon
      <4> QED BY <1>3, <4>2, Zenon DEF blob
    <3>5. BlobsHeld(w', Append(accepted, item), bs \o blob)
      BY <2>3, <2>7, <3>2, <3>4, AppendBlobs, Zenon
    <3> QED BY <1>14, <2>8, <3>1, <3>5, Zenon
  <2>10. Blobbed'
    BY <2>3, <2>8, <2>9 DEF Blobbed
  <2> QED BY <1>8, <1>9, <2>4, <2>10 DEF Content
<1> QED BY <1>5, <1>11, <1>12, <1>13, <1>14

-----------------------------------------------------------------------------
(***************************************************************************)
(* The writer closing.                                                     *)
(***************************************************************************)

LEMMA FinishedSame ==
  ASSUME NEW v, NEW u, NEW acc, Finished(v, acc),
         u.recCount = v.recCount, u.timeIndex = v.timeIndex, u.hdr.min = v.hdr.min,
         u.hdr.max = v.hdr.max, u.lastKey = v.lastKey,
         u.snapIndex = v.snapIndex, u.footer = v.footer
  PROVE  Finished(u, acc)
<1>1. TimesIndexed(u, acc)
  BY Zenon DEF Finished, TimesIndexed
<1>2. SnapshotsIndexed(u, acc)
  BY Zenon DEF Finished, SnapshotsIndexed
<1>3. BlocksFinished(u, acc)
  BY Zenon DEF Finished, BlocksFinished
<1> QED BY <1>1, <1>2, <1>3, Zenon DEF Finished

\* Entries of an index, as the trailer has them.
LEMMA IndexIs ==
  ASSUME NEW s, IsSeq(s)
  PROVE  LET t == [i \in DOMAIN s |-> [entry |-> s[i]]] IN
         /\ IsSeq(t) /\ Len(t) = Len(s) /\ \A i \in 1..Len(s) : t[i].entry = s[i]
<1>1. Len(s) \in Nat /\ DOMAIN s = 1..Len(s)
  BY LenIs
<1>2. PICK n \in Nat : n = Len(s)
  BY <1>1
<1> DEFINE t == [i \in DOMAIN s |-> [entry |-> s[i]]]
<1>3. /\ DOMAIN t = 1..n /\ t = [i \in 1..n |-> t[i]]
      /\ \A i \in 1..n : t[i].entry = s[i]
  BY <1>1, <1>2
<1> HIDE DEF t
<1>4. IsSeq(t) /\ Len(t) = n
  BY <1>3, FunIs
<1> QED BY <1>2, <1>3, <1>4 DEF t

LEMMA TrailerParts ==
  ASSUME NEW v, IsSeq(v.timeIndex), IsSeq(v.snapIndex), IsSeq(v.footer)
  PROVE  \E t, s, f :
           /\ Trailer(v) = t \o s \o f /\ f = v.footer
           /\ IsSeq(t) /\ IsSeq(s) /\ IsSeq(f) /\ IsSeq(Trailer(v))
           /\ Len(t) = Len(v.timeIndex) /\ \A i \in 1..Len(t) : t[i].entry = v.timeIndex[i]
           /\ Len(s) = Len(v.snapIndex) /\ \A i \in 1..Len(s) : s[i].entry = v.snapIndex[i]
           /\ Len(Trailer(v)) = Len(t) + Len(s) + Len(f)
<1>1. PICK a, b, f : a = v.timeIndex /\ b = v.snapIndex /\ f = v.footer
  OBVIOUS
<1>2. PICK t, s : /\ t = [i \in DOMAIN a |-> [entry |-> a[i]]]
                  /\ s = [i \in DOMAIN b |-> [entry |-> b[i]]]
  OBVIOUS
<1>3. IsSeq(t) /\ Len(t) = Len(a) /\ \A i \in 1..Len(a) : t[i].entry = a[i]
  BY <1>1, <1>2, IndexIs
<1>4. IsSeq(s) /\ Len(s) = Len(b) /\ \A i \in 1..Len(b) : s[i].entry = b[i]
  BY <1>1, <1>2, IndexIs
<1>5. Trailer(v) = t \o s \o f
  BY <1>1, <1>2 DEF Trailer
<1>6. IsSeq(f) /\ IsSeq(t \o s) /\ Len(t \o s) = Len(t) + Len(s)
  BY <1>1, <1>3, <1>4, JoinIs
<1>7. PICK ts : ts = t \o s
  OBVIOUS
<1>8. IsSeq(ts \o f) /\ Len(ts \o f) = Len(ts) + Len(f)
  BY <1>6, <1>7, JoinIs
<1> QED BY <1>1, <1>3, <1>4, <1>5, <1>6, <1>7, <1>8

LEMMA TrailerIsSeq ==
  ASSUME NEW v, NEW acc, Finished(v, acc)
  PROVE  IsSeq(Trailer(v)) /\ Len(Trailer(v)) \in Nat
<1>1. IsSeq(v.timeIndex) /\ IsSeq(v.snapIndex) /\ IsSeq(v.footer)
  BY Zenon DEF Finished, TimesIndexed, SnapshotsIndexed, BlocksFinished
<1>2. IsSeq(Trailer(v))
  BY <1>1, TrailerParts
<1> QED BY <1>2, LenIs

\* The file up to the trailer.
LEMMA BodyIs ==
  ASSUME NEW acc, IsSeq(acc), NEW bs, IsSeq(bs)
  PROVE  IsSeq(Body(acc, bs)) /\ Len(Body(acc, bs)) = 1 + Len(acc) + Len(bs)
<1>1. PICK z, r : z = <<Zero>> /\ r = RecordsOf(acc)
  OBVIOUS
<1>2. IsSeq(z) /\ Len(z) = 1 /\ IsSeq(r) /\ Len(r) = Len(acc)
  BY <1>1, OneIs, RecordsOfIs
<1>3. IsSeq(z \o r) /\ Len(z \o r) = 1 + Len(acc)
  <2>1. Joined(z, r, z \o r)
    BY <1>2, JoinJoined, Zenon
  <2> QED BY <1>2, <2>1, Zenon DEF Joined
<1>4. PICK y : y = z \o r
  OBVIOUS
<1>5. IsSeq(y \o bs) /\ Len(y \o bs) = Len(y) + Len(bs)
  BY <1>3, <1>4, JoinIs
<1> QED BY <1>1, <1>3, <1>4, <1>5 DEF Body

\* The header written over the place kept for it.
Replaced(z, h, r) == [<<z>> \o r EXCEPT ![1] = h] = <<h>> \o r

LEMMA FirstReplaced ==
  ASSUME NEW z, NEW h, NEW r, IsSeq(r)
  PROVE  Replaced(z, h, r)
<1>1. PICK a, b : a = <<z>> /\ b = <<h>>
  OBVIOUS
<1>2. IsSeq(a) /\ Len(a) = 1 /\ IsSeq(b) /\ Len(b) = 1 /\ b[1] = h
  BY <1>1, OneIs
<1>3. PICK s, t : s = a \o r /\ t = b \o r
  OBVIOUS
<1>4. PICK n \in Nat : n = Len(r)
  BY LenIs
<1>5. /\ IsSeq(s) /\ Len(s) = 1 + n
      /\ \A i \in 1..1 + n : i \notin 1..1 => s[i] = r[i - 1]
  <2>1. Joined(a, r, s)
    BY <1>2, <1>3, JoinJoined, Zenon
  <2> QED BY <1>2, <1>4, <2>1 DEF Joined
<1>6. /\ IsSeq(t) /\ Len(t) = 1 + n /\ t[1] = h
      /\ \A i \in 1..1 + n : i \notin 1..1 => t[i] = r[i - 1]
  <2>1. Joined(b, r, t)
    BY <1>2, <1>3, JoinJoined, Zenon
  <2> QED BY <1>2, <1>4, <2>1 DEF Joined
<1>7. DOMAIN s = 1..1 + n
  BY <1>5, LenIs
<1>8. PICK u : u = [s EXCEPT ![1] = h]
  OBVIOUS
<1>9. /\ DOMAIN u = 1..1 + n /\ u[1] = h /\ \A i \in 1..1 + n : i # 1 => u[i] = s[i]
      /\ u = [i \in 1..1 + n |-> u[i]]
  <2>1. 1 \in DOMAIN s
    BY <1>7
  <2>2. DOMAIN u = DOMAIN s /\ u[1] = h /\ \A i \in DOMAIN s : i # 1 => u[i] = s[i]
    BY <1>8, <2>1, Zenon
  <2>3. u = [i \in DOMAIN s |-> u[i]]
    BY <1>8, Zenon
  <2> QED BY <1>7, <2>2, <2>3, Zenon
<1>10. IsSeq(u) /\ Len(u) = 1 + n
  <2>1. 1 + n \in Nat
    OBVIOUS
  <2> QED BY <1>9, <2>1, FunIs, Zenon
<1>11. \A i \in 1..Len(u) : u[i] = t[i]
  <2> SUFFICES ASSUME NEW i \in 1..1 + n PROVE u[i] = t[i]
    BY <1>10
  <2>1. CASE i = 1
    BY <1>6, <1>9, <2>1
  <2>2. CASE i # 1
    BY <1>5, <1>6, <1>9, <2>2
  <2> QED BY <2>1, <2>2
<1>12. u = t
  BY <1>6, <1>10, <1>11, SameIs
<1> QED BY <1>1, <1>3, <1>8, <1>12 DEF Replaced

LEMMA HeaderReplaced ==
  ASSUME NEW z, NEW h, NEW r, NEW bs, NEW t, IsSeq(r), IsSeq(bs), IsSeq(t)
  PROVE  [<<z>> \o r \o bs \o t EXCEPT ![1] = h] = <<h>> \o r \o bs \o t
<1>1. IsSeq(r \o bs)
  BY JoinIs
<1>2. PICK rb : rb = r \o bs /\ IsSeq(rb)
  BY <1>1
<1>3. PICK rest : rest = rb \o t /\ IsSeq(rest)
  BY <1>2, JoinIs
<1>4. ASSUME NEW x PROVE <<x>> \o r \o bs \o t = <<x>> \o rest
  <2>1. PICK y : y = <<x>> /\ IsSeq(y)
    BY OneIs
  <2>2. (y \o r) \o bs = y \o rb
    BY <1>2, <2>1, JoinAssoc
  <2>3. (y \o rb) \o t = y \o rest
    BY <1>2, <1>3, <2>1, JoinAssoc
  <2> QED BY <2>1, <2>2, <2>3
<1>5. [<<z>> \o rest EXCEPT ![1] = h] = <<h>> \o rest
  <2>1. Replaced(z, h, rest)
    BY <1>3, FirstReplaced, Zenon
  <2> QED BY <2>1 DEF Replaced
<1> QED BY <1>4, <1>5, Zenon

\* Up to the header the finalized byte is clear.
LEMMA ClosingEarly ==
  ASSUME NEW s, Closing(s), Progress,
         s \in {"flush", "blobs", "trailer", "header", "sync"},
         w.step \in {"none", "flush", "blobs", "trailer", "header"},
         s # "flush" => ~w.failed, s \notin {"flush", "blobs"} => ~w.blobFailed,
         file'.fin = file.fin \/ file'.fin = 0, file'.durFin = file.durFin
  PROVE  Progress' /\ Durable'
<1>1. file.fin = 0 /\ file.durFin = 0
  BY DEF Progress, Closing, Opened, Steps
<1>2. file'.fin = 0 /\ file'.durFin = 0 /\ closed' = FALSE
  BY <1>1 DEF Closing, Opened
<1>3. Durable'
  BY <1>2, EarlyDurable
<1>4. w'.state = "open" /\ w'.step = s /\ w'.failed = w.failed /\ w'.blobFailed = w.blobFailed
  BY DEF Closing
<1>5. Progress'
  BY <1>2, <1>4 DEF Progress
<1> QED BY <1>3, <1>5

\* The last block, entered.
LEMMA LastBlock ==
  ASSUME NEW v, NEW acc, Sorted(acc), v.recCount = Len(acc), BlocksEntered(v, acc), NEW u,
         u.footer = IF Len(v.footer) < blockCountFor(v.recCount)
                    THEN Append(v.footer, [start |-> Len(v.footer) * BlockSizeRecords,
                                           blockCRC |-> v.block])
                    ELSE v.footer
  PROVE  BlocksFinished(u, acc)
<1> DEFINE Entry(i) == [start |-> (i - 1) * BlockSizeRecords, blockCRC |-> BlockOf(acc, i)]
<1>1. IsSeq(acc)
  BY DEF Sorted
<1>2. PICK n \in Nat : n = Len(acc)
  BY <1>1, LenIs
<1>3. PICK k \in Nat : k = blockCountFor(n)
  BY BlockCount
<1>4. PICK b \in Nat \ {0} : b = BlockSizeRecords
  BY StoreAssumption
<1>5. n <= k * b /\ k * b < n + b /\ k * b \in Nat
  BY <1>3, <1>4, BlockCount
<1>6. /\ IsSeq(v.footer) /\ Len(v.footer) = IF n = 0 THEN 0 ELSE k - 1
      /\ \A i \in 1..Len(v.footer) : v.footer[i] = Entry(i)
      /\ v.block = SubSeq(RecordsOf(acc), Len(v.footer) * b + 1, n)
  BY <1>2, <1>3, <1>4, Zenon DEF BlocksEntered
<1> HIDE DEF Entry
<1>7. CASE n = 0
  <2>1. k = 0
    <3>1. k >= 1 => k * b >= b
      OBVIOUS
    <3> QED BY <1>5, <1>7, <3>1
  <2>2. Len(v.footer) = 0
    BY <1>6, <1>7, Zenon
  <2>3. u.footer = v.footer
    <3>1. ~(Len(v.footer) < blockCountFor(v.recCount))
      BY <1>2, <1>3, <2>1, <2>2
    <3> QED BY <3>1, Zenon
  <2> QED BY <1>2, <1>3, <1>6, <2>1, <2>2, <2>3, Zenon DEF BlocksFinished, Entry
<1>8. CASE n # 0
  <2> DEFINE e == [start |-> Len(v.footer) * BlockSizeRecords, blockCRC |-> v.block]
  <2>1. k >= 1 /\ Len(v.footer) = k - 1
    BY <1>5, <1>6, <1>8
  <2>2. u.footer = Append(v.footer, e)
    <3>1. Len(v.footer) < blockCountFor(v.recCount)
      BY <1>2, <1>3, <2>1
    <3> QED BY <3>1, Zenon
  <2>3. e = Entry(k)
    <3>1. Smaller(k * BlockSizeRecords, Len(acc)) = n
      BY <1>2, <1>4, <1>5 DEF Smaller
    <3>2. BlockOf(acc, k) = SubSeq(RecordsOf(acc), (k - 1) * BlockSizeRecords + 1, n)
      BY <3>1, Zenon DEF BlockOf
    <3>3. v.block = SubSeq(RecordsOf(acc), (k - 1) * BlockSizeRecords + 1, n)
      BY <1>4, <1>6, <2>1, Zenon
    <3> QED BY <2>1, <3>2, <3>3, Zenon DEF Entry
  <2>4. Longer(v.footer, e, u.footer)
    BY <1>6, <2>2, AppendLonger, Zenon
  <2> HIDE DEF e
  <2>5. /\ IsSeq(u.footer) /\ Len(u.footer) = k /\ u.footer[k] = Entry(k)
        /\ \A i \in 1..k - 1 : u.footer[i] = v.footer[i]
    BY <2>1, <2>3, <2>4 DEF Longer
  <2>6. \A i \in 1..k : u.footer[i] = Entry(i)
    <3>1. \A i \in 1..k : i \in 1..k - 1 \/ i = k
      OBVIOUS
    <3> QED BY <1>6, <2>1, <2>5, <3>1, Zenon
  <2> QED BY <1>2, <1>3, <2>5, <2>6, Zenon DEF BlocksFinished, Entry
<1> QED BY <1>7, <1>8

LEMMA CloseContent ==
  ASSUME Shaped, Content, Progress, Close
  PROVE  Content' /\ Progress' /\ Durable'
<1>1. /\ Closing("flush") /\ w.step = "none" /\ file' = file /\ side' = side
      /\ But(w, w', {"step", "footer"})
      /\ w'.footer = IF Len(w.footer) < blockCountFor(w.recCount)
                     THEN Append(w.footer, [start |-> Len(w.footer) * BlockSizeRecords,
                                            blockCRC |-> w.block])
                     ELSE w.footer
  BY CloseIs
<1>2. Progress' /\ Durable'
  BY <1>1, ClosingEarly
<1>3. /\ w.state = "open" /\ w'.step = "flush" /\ w'.failed = w.failed
      /\ w'.blobFailed = w.blobFailed /\ accepted' = accepted /\ DOMAIN w = WriterFields
      /\ w.failed \in BOOLEAN /\ w.blobFailed \in BOOLEAN /\ w'.blob = w.blob
  BY <1>1 DEF Closing, Opened
<1>4. CASE w.failed \/ w.blobFailed
  <2>1. w'.failed = TRUE \/ w'.blobFailed = TRUE
    BY <1>3, <1>4
  <2> QED BY <1>2, <2>1, FailedContent
<1>5. CASE ~w.failed /\ ~w.blobFailed
  <2>1. Filling(w, accepted, file.cells) /\ Blobbed
    BY <1>1, <1>3, <1>5, Zenon DEF Content
  <2>2. /\ w'.recCount = w.recCount /\ w'.timeIndex = w.timeIndex /\ w'.hdr = w.hdr
        /\ w'.lastKey = w.lastKey /\ w'.snapIndex = w.snapIndex /\ w'.pos = w.pos
        /\ w'.buf = w.buf /\ w'.blobLen = w.blobLen /\ w'.blobBuf = w.blobBuf
    BY <1>1, <1>3 DEF But, WriterFields
  <2>3. Sorted(accepted) /\ w.recCount = Len(accepted) /\ BlocksEntered(w, accepted)
    BY <2>1, Zenon DEF Filling, TimesIndexed
  <2>4. BlocksFinished(w', accepted)
    BY <1>1, <2>3, LastBlock, Zenon
  <2>5. TimesIndexed(w', accepted)
    BY <2>1, <2>2, Zenon DEF Filling, TimesIndexed
  <2>6. SnapshotsIndexed(w', accepted)
    BY <2>1, <2>2, Zenon DEF Filling, SnapshotsIndexed
  <2>7. Finished(w', accepted')
    BY <1>3, <2>3, <2>4, <2>5, <2>6, Zenon DEF Finished
  <2>8. w'.pos = 1 + Len(accepted') /\ file'.cells \o w'.buf = <<Zero>> \o RecordsOf(accepted')
    BY <1>1, <1>3, <2>1, <2>2, Zenon DEF Filling
  <2>9. Blobbed'
    <3>1. Blobs' = Blobs
      BY <1>1, <1>3, <2>2, Zenon DEF Blobs
    <3>2. BlobsHeld(w', accepted', Blobs')
      BY <1>3, <2>1, <2>2, <3>1, Zenon DEF Blobbed, BlobsHeld
    <3> QED BY <1>1, <1>3, <2>1, <2>2, <3>2, Zenon DEF Blobbed
  <2> QED BY <1>2, <1>3, <2>7, <2>8, <2>9 DEF Content
<1> QED BY <1>4, <1>5

LEMMA FlushContent ==
  ASSUME Shaped, Content, Progress, Flush
  PROVE  Content' /\ Progress' /\ Durable'
<1>1. /\ Closing("blobs") /\ w.step = "flush" /\ ~w.failed /\ side' = side
      /\ But(w, w', {"step", "buf"})
      /\ But(file, file', {"cells"}) /\ file'.cells = file.cells \o w.buf
  BY FlushIs
<1>2. /\ w.state = "open" /\ w'.step = "blobs" /\ w'.failed = w.failed
      /\ w'.blobFailed = w.blobFailed /\ accepted' = accepted /\ DOMAIN w = WriterFields
      /\ w.blobFailed \in BOOLEAN /\ w'.blob = w.blob /\ DOMAIN file = FileFields
  BY <1>1 DEF Closing, Opened
<1>3. file'.fin = file.fin /\ file'.durFin = file.durFin
  BY <1>1, <1>2 DEF But, FileFields
<1>4. Progress' /\ Durable'
  BY <1>1, <1>3, ClosingEarly
<1>5. CASE w.blobFailed
  <2>1. w'.blobFailed = TRUE
    BY <1>2, <1>5
  <2> QED BY <1>4, <2>1, FailedContent
<1>6. CASE ~w.blobFailed
  <2>1. /\ Finished(w, accepted) /\ Blobbed /\ w.pos = 1 + Len(accepted)
        /\ file.cells \o w.buf = <<Zero>> \o RecordsOf(accepted)
    BY <1>1, <1>2, <1>6 DEF Content
  <2>2. /\ w'.recCount = w.recCount /\ w'.timeIndex = w.timeIndex /\ w'.hdr = w.hdr
        /\ w'.lastKey = w.lastKey /\ w'.snapIndex = w.snapIndex /\ w'.pos = w.pos
        /\ w'.footer = w.footer /\ w'.blobLen = w.blobLen /\ w'.blobBuf = w.blobBuf
    BY <1>1, <1>2 DEF But, WriterFields
  <2>3. Finished(w', accepted')
    BY <1>2, <2>1, <2>2, FinishedSame, Zenon
  <2>4. w'.pos = 1 + Len(accepted') /\ file'.cells = <<Zero>> \o RecordsOf(accepted')
    BY <1>1, <1>2, <2>1, <2>2, Zenon
  <2>5. Blobbed'
    <3>1. Blobs' = Blobs
      BY <1>1, <1>2, <2>2, Zenon DEF Blobs
    <3>2. BlobsHeld(w', accepted', Blobs')
      BY <1>2, <2>1, <2>2, <3>1, Zenon DEF Blobbed, BlobsHeld
    <3> QED BY <1>1, <1>2, <2>1, <2>2, <3>2, Zenon DEF Blobbed
  <2> QED BY <1>2, <1>4, <2>3, <2>4, <2>5 DEF Content
<1> QED BY <1>5, <1>6

LEMMA CopyContent ==
  ASSUME Shaped, Content, Progress, copyBlobRegion
  PROVE  Content' /\ Progress' /\ Durable'
<1>1. /\ Closing("trailer") /\ w.step = "blobs" /\ ~w.blobFailed
      /\ But(w, w', {"step", "blobBuf", "hdr", "pos"})
      /\ w'.hdr.min = w.hdr.min /\ w'.hdr.max = w.hdr.max /\ w'.hdr.blobs = w.pos
      /\ w'.pos = w.pos + w.blobLen
      /\ But(file, file', {"cells"})
      /\ file'.cells = IF w.blob = "none" THEN file.cells ELSE file.cells \o Blobs
  BY CopyIs
<1>2. /\ w.state = "open" /\ w'.step = "trailer" /\ accepted' = accepted
      /\ DOMAIN w = WriterFields /\ DOMAIN file = FileFields
  BY <1>1 DEF Closing, Opened
<1>3. ~w.failed
  BY <1>1, <1>2 DEF Progress
<1>4. file'.fin = file.fin /\ file'.durFin = file.durFin
  BY <1>1, <1>2 DEF But, FileFields
<1>5. Progress' /\ Durable'
  BY <1>1, <1>3, <1>4, ClosingEarly
<1>6. /\ Finished(w, accepted) /\ Blobbed /\ w.pos = 1 + Len(accepted)
      /\ file.cells = <<Zero>> \o RecordsOf(accepted)
  BY <1>1, <1>2, <1>3 DEF Content
<1>7. /\ w'.recCount = w.recCount /\ w'.timeIndex = w.timeIndex /\ w'.blobLen = w.blobLen
      /\ w'.lastKey = w.lastKey /\ w'.snapIndex = w.snapIndex /\ w'.footer = w.footer
  BY <1>1, <1>2 DEF But, WriterFields
<1>8. Finished(w', accepted')
  BY <1>1, <1>2, <1>6, <1>7, FinishedSame, Zenon
<1>9. PICK bs : bs = Blobs
  OBVIOUS
<1>10. BlobsHeld(w, accepted, bs) /\ IsSeq(bs) /\ w.blobLen = Len(bs)
  BY <1>6, <1>9, Zenon DEF Blobbed, BlobsHeld
<1>11. BlobsHeld(w', accepted', bs)
  BY <1>2, <1>7, <1>10, Zenon DEF BlobsHeld
<1>12. w'.hdr.blobs = 1 + Len(accepted') /\ w'.pos = 1 + Len(accepted') + Len(bs)
  BY <1>1, <1>2, <1>6, <1>10, Zenon
<1>13. file'.cells = Body(accepted', bs)
  <2>1. CASE w.blob = "none"
    <3>1. bs = <<>>
      BY <1>9, <2>1 DEF Blobs
    <3>2. IsSeq(<<Zero>>) /\ IsSeq(RecordsOf(accepted))
      BY <1>6, OneIs, RecordsOfIs DEF Finished, Sorted
    <3>3. PICK z, r : z = <<Zero>> /\ r = RecordsOf(accepted)
      OBVIOUS
    <3>4. IsSeq(z \o r)
      BY <3>2, <3>3, JoinIs
    <3>5. PICK y : y = z \o r
      OBVIOUS
    <3>6. y \o <<>> = y
      BY <3>4, <3>5, JoinNone
    <3>7. file'.cells = y
      BY <1>1, <1>6, <2>1, <3>3, <3>5, Zenon
    <3> QED BY <1>2, <3>1, <3>3, <3>5, <3>6, <3>7, Zenon DEF Body
  <2>2. CASE w.blob # "none"
    BY <1>1, <1>2, <1>6, <1>9, <2>2, Zenon DEF Body
  <2> QED BY <2>1, <2>2
<1>14. \E x : /\ BlobsHeld(w', accepted', x) /\ w'.hdr.blobs = 1 + Len(accepted')
              /\ w'.pos = 1 + Len(accepted') + Len(x)
              /\ file'.cells = Body(accepted', x)
  BY <1>11, <1>12, <1>13, Zenon
<1> QED BY <1>2, <1>5, <1>8, <1>14 DEF Content

\* The trailer has what the indexes and the footer have.
LEMMA TrailerSame ==
  ASSUME NEW v, NEW u, u.timeIndex = v.timeIndex, u.snapIndex = v.snapIndex, u.footer = v.footer
  PROVE  Trailer(u) = Trailer(v)
BY Zenon DEF Trailer

LEMMA TrailerContent ==
  ASSUME Shaped, Content, Progress, WriteTrailer
  PROVE  Content' /\ Progress' /\ Durable'
<1>1. /\ Closing("header") /\ w.step = "trailer" /\ side' = side
      /\ But(w, w', {"step", "pos"}) /\ w'.pos = w.pos + Len(Trailer(w))
      /\ But(file, file', {"cells"}) /\ file'.cells = file.cells \o Trailer(w)
  BY TrailerIs
<1>2. /\ w.state = "open" /\ w'.step = "header" /\ accepted' = accepted
      /\ DOMAIN w = WriterFields /\ DOMAIN file = FileFields
  BY <1>1 DEF Closing, Opened
<1>3. ~w.failed /\ ~w.blobFailed
  BY <1>1, <1>2 DEF Progress
<1>4. file'.fin = file.fin /\ file'.durFin = file.durFin
  BY <1>1, <1>2 DEF But, FileFields
<1>5. Progress' /\ Durable'
  BY <1>1, <1>3, <1>4, ClosingEarly
<1>6. Finished(w, accepted)
  BY <1>1, <1>2, <1>3 DEF Content
<1>7. PICK bs : /\ BlobsHeld(w, accepted, bs) /\ w.hdr.blobs = 1 + Len(accepted)
                /\ w.pos = 1 + Len(accepted) + Len(bs) /\ file.cells = Body(accepted, bs)
  BY <1>1, <1>2, <1>3 DEF Content
<1>8. /\ w'.recCount = w.recCount /\ w'.timeIndex = w.timeIndex /\ w'.blobLen = w.blobLen
      /\ w'.lastKey = w.lastKey /\ w'.snapIndex = w.snapIndex /\ w'.footer = w.footer
      /\ w'.hdr = w.hdr
  BY <1>1, <1>2 DEF But, WriterFields
<1>9. Finished(w', accepted')
  BY <1>2, <1>6, <1>8, FinishedSame, Zenon
<1>10. BlobsHeld(w', accepted', bs)
  BY <1>2, <1>7, <1>8, Zenon DEF BlobsHeld
<1>11. Trailer(w') = Trailer(w)
  BY <1>8, TrailerSame, Zenon
<1>12. /\ w'.hdr.blobs = 1 + Len(accepted')
       /\ w'.pos = 1 + Len(accepted') + Len(bs) + Len(Trailer(w'))
       /\ file'.cells = Body(accepted', bs) \o Trailer(w')
  BY <1>1, <1>2, <1>7, <1>8, <1>11, Zenon
<1>13. \E x : /\ BlobsHeld(w', accepted', x) /\ w'.hdr.blobs = 1 + Len(accepted')
              /\ w'.pos = 1 + Len(accepted') + Len(x) + Len(Trailer(w'))
              /\ file'.cells = Body(accepted', x) \o Trailer(w')
  BY <1>10, <1>12, Zenon
<1> QED BY <1>2, <1>5, <1>9, <1>13 DEF Content

LEMMA HeaderContent ==
  ASSUME Shaped, Content, Progress, WriteHeader
  PROVE  Content' /\ Progress' /\ Durable'
<1>1. /\ Closing("sync") /\ w.step = "header" /\ side' = side
      /\ But(w, w', {"step"})
      /\ But(file, file', {"cells", "fin"}) /\ file'.fin = 0
      /\ file'.cells = [file.cells EXCEPT ![1] = Header(w)]
  BY HeaderIs
<1>2. /\ w.state = "open" /\ w'.step = "sync" /\ accepted' = accepted
      /\ DOMAIN w = WriterFields /\ DOMAIN file = FileFields
  BY <1>1 DEF Closing, Opened
<1>3. ~w.failed /\ ~w.blobFailed
  BY <1>1, <1>2 DEF Progress
<1>4. file'.durFin = file.durFin
  BY <1>1, <1>2 DEF But, FileFields
<1>5. Progress' /\ Durable'
  BY <1>1, <1>3, <1>4, ClosingEarly
<1>6. Finished(w, accepted)
  BY <1>1, <1>2, <1>3 DEF Content
<1>7. PICK bs : /\ BlobsHeld(w, accepted, bs) /\ w.hdr.blobs = 1 + Len(accepted)
                /\ w.pos = 1 + Len(accepted) + Len(bs) + Len(Trailer(w))
                /\ file.cells = Body(accepted, bs) \o Trailer(w)
  BY <1>1, <1>2, <1>3 DEF Content
<1>8. /\ w'.recCount = w.recCount /\ w'.timeIndex = w.timeIndex
      /\ w'.lastKey = w.lastKey /\ w'.snapIndex = w.snapIndex /\ w'.footer = w.footer
      /\ w'.hdr = w.hdr
  BY <1>1, <1>2 DEF But, WriterFields
<1>9. Finished(w', accepted')
  BY <1>2, <1>6, <1>8, FinishedSame, Zenon
<1>10. PICK r, t, h : r = RecordsOf(accepted) /\ t = Trailer(w) /\ h = Header(w)
  OBVIOUS
<1>11. IsSeq(r) /\ IsSeq(bs) /\ IsSeq(t)
  <2>1. IsSeq(accepted)
    BY <1>6 DEF Finished, Sorted
  <2>2. IsSeq(r)
    BY <1>10, <2>1, RecordsOfIs
  <2>3. IsSeq(t)
    BY <1>6, <1>10, TrailerIsSeq
  <2>4. IsSeq(bs)
    BY <1>7, Zenon DEF BlobsHeld
  <2> QED BY <2>2, <2>3, <2>4
<1>12. file'.cells = <<h>> \o r \o bs \o t
  <2>1. file.cells = <<Zero>> \o r \o bs \o t
    BY <1>7, <1>10, Zenon DEF Body
  <2>2. [<<Zero>> \o r \o bs \o t EXCEPT ![1] = h] = <<h>> \o r \o bs \o t
    BY <1>11, HeaderReplaced
  <2>3. file'.cells = [file.cells EXCEPT ![1] = h]
    BY <1>1, <1>10
  <2> QED BY <2>1, <2>2, <2>3
<1>13. Complete(w, bs, file'.cells, accepted')
  BY <1>2, <1>6, <1>7, <1>10, <1>12, Zenon DEF Complete
<1>14. PICK v : Complete(v, bs, file'.cells, accepted')
  BY <1>13, Zenon
<1>15. Whole(file'.cells, accepted')
  BY <1>14, Zenon DEF Whole
<1> QED BY <1>2, <1>5, <1>9, <1>15 DEF Content

LEMMA WholeIsSeq ==
  ASSUME NEW cells, NEW acc, Whole(cells, acc)
  PROVE  IsSeq(cells)
<1>1. PICK v, bs : Complete(v, bs, cells, acc)
  BY Zenon DEF Whole
<1>2. PICK h, r, t : h = <<Header(v)>> /\ r = RecordsOf(acc) /\ t = Trailer(v)
  OBVIOUS
<1>3. IsSeq(h) /\ IsSeq(r) /\ IsSeq(t) /\ IsSeq(bs)
  <2>1. Finished(v, acc) /\ BlobsHeld(v, acc, bs)
    BY <1>1, Zenon DEF Complete
  <2>2. IsSeq(acc) /\ IsSeq(bs)
    BY <2>1, Zenon DEF Finished, Sorted, BlobsHeld
  <2>3. IsSeq(r)
    BY <1>2, <2>2, RecordsOfIs
  <2>4. IsSeq(t)
    BY <1>2, <2>1, TrailerIsSeq
  <2>5. IsSeq(h)
    BY <1>2, OneIs
  <2> QED BY <2>2, <2>3, <2>4, <2>5
<1>4. cells = h \o r \o bs \o t
  BY <1>1, <1>2, Zenon DEF Complete
<1>5. PICK a : a = h \o r /\ IsSeq(a)
  BY <1>3, JoinIs
<1>6. PICK b : b = a \o bs /\ IsSeq(b)
  BY <1>3, <1>5, JoinIs
<1>7. PICK c : c = b \o t /\ IsSeq(c)
  BY <1>3, <1>6, JoinIs
<1> QED BY <1>4, <1>5, <1>6, <1>7

LEMMA SyncContent ==
  ASSUME Shaped, Content, Progress, Durable, Sync \/ SyncAgain
  PROVE  Content' /\ Progress' /\ Durable'
<1>1. /\ Closing(IF Sync THEN "finalize" ELSE "close")
      /\ w.step = IF Sync THEN "sync" ELSE "resync"
      /\ But(file, file', {"durCells", "durFin"})
      /\ file'.durCells = file.cells /\ file'.durFin = file.fin
  BY SyncIs
<1>2. /\ w.state = "open" /\ w'.state = "open" /\ accepted' = accepted /\ DOMAIN file = FileFields
      /\ w'.failed = w.failed /\ w'.blobFailed = w.blobFailed /\ closed' = FALSE
  BY <1>1 DEF Closing, Opened
<1>3. file'.cells = file.cells /\ file'.fin = file.fin
  BY <1>1, <1>2 DEF But, FileFields
<1>4. CASE Sync
  <2>1. w.step = "sync" /\ w'.step = "finalize"
    BY <1>1, <1>4 DEF Closing
  <2>2. ~w.failed /\ ~w.blobFailed /\ file.fin = 0
    BY <1>2, <2>1 DEF Progress, Steps
  <2>3. Whole(file.cells, accepted)
    BY <1>2, <2>1, <2>2 DEF Content
  <2>4. Durable'
    BY <1>1, <1>2, <1>3, <2>2, EarlyDurable
  <2>5. Progress'
    BY <1>1, <1>2, <1>3, <2>1, <2>2, <2>3 DEF Progress
  <2>6. Content'
    BY <2>1 DEF Content
  <2> QED BY <2>4, <2>5, <2>6
<1>5. CASE SyncAgain /\ ~Sync
  <2>1. w.step = "resync" /\ w'.step = "close"
    BY <1>1, <1>5 DEF Closing
  <2>2. ~w.failed /\ ~w.blobFailed /\ file.fin = 1 /\ Whole(file.cells, accepted)
    BY <1>2, <2>1 DEF Progress
  <2>3. Durable'
    BY <1>1, <1>2, <1>3, <2>2 DEF Durable
  <2>4. Progress'
    BY <1>1, <1>2, <1>3, <2>1, <2>2 DEF Progress
  <2>5. Content'
    BY <2>1 DEF Content
  <2> QED BY <2>3, <2>4, <2>5
<1> QED BY <1>4, <1>5

LEMMA FinalizeContent ==
  ASSUME Shaped, Content, Progress, Durable, Finalize
  PROVE  Content' /\ Progress' /\ Durable'
<1>1. /\ Closing("resync") /\ w.step = "finalize"
      /\ But(file, file', {"fin"}) /\ file'.fin = 1
  BY FinalizeIs
<1>2. /\ w.state = "open" /\ w'.state = "open" /\ accepted' = accepted /\ DOMAIN file = FileFields
      /\ w'.failed = w.failed /\ w'.blobFailed = w.blobFailed /\ closed' = FALSE
      /\ w'.step = "resync"
  BY <1>1 DEF Closing, Opened
<1>3. /\ file'.cells = file.cells /\ file'.durCells = file.durCells /\ file'.durFin = file.durFin
  BY <1>1, <1>2 DEF But, FileFields
<1>4. /\ ~w.failed /\ ~w.blobFailed /\ file.durFin = 0
      /\ file.durCells = file.cells /\ Whole(file.cells, accepted)
  BY <1>1, <1>2 DEF Progress, Steps
<1>5. Durable'
  BY <1>1, <1>2, <1>3, <1>4 DEF Durable
<1>6. Progress'
  BY <1>1, <1>2, <1>3, <1>4 DEF Progress
<1>7. Content'
  BY <1>2 DEF Content
<1> QED BY <1>5, <1>6, <1>7

LEMMA CloseFilesContent ==
  ASSUME Shaped, Progress, Durable, CloseFiles
  PROVE  Content' /\ Progress' /\ Durable'
<1>1. /\ Opened /\ w.step = "close" /\ file' = file /\ accepted' = accepted /\ closed' = TRUE
      /\ w'.state = "closed"
  BY CloseFilesIs
<1>2. Exists(file) /\ file.fin = 1 /\ file.durFin = 1
  BY <1>1 DEF Progress, Opened
<1>3. Durable'
  BY <1>1, <1>2 DEF Durable, Exists
<1> QED BY <1>1, <1>3 DEF Content, Progress

LEMMA DiscardContent ==
  ASSUME Shaped, NothingIsLeftBehind, Durable, NEW kept, CloseFails(kept) \/ Abort(kept)
  PROVE  Content' /\ Progress' /\ Durable'
<1>1. /\ Discard(kept) /\ w.state \in {"open", "aborted"} /\ closed' = closed
      /\ accepted' = accepted
  BY DEF CloseFails, Abort, Finishing
<1>2. (file' = file \/ file' = NoFile) /\ w'.state = "aborted"
  BY <1>1, DiscardIs
<1>3. ~closed
  BY <1>1 DEF Shaped, Durable
<1>4. Durable'
  BY <1>1, <1>2, <1>3 DEF Durable, Exists
<1> QED BY <1>2, <1>4 DEF Content, Progress

LEMMA CrashContent ==
  ASSUME Shaped, Durable, ProcessCrash \/ PowerLoss
  PROVE  Content' /\ Progress' /\ Durable'
<1>1. /\ w'.state = "none" /\ accepted' = accepted
      /\ \/ file' = file /\ closed' = closed
         \/ file' = NoFile /\ closed' = FALSE
         \/ Exists(file) /\ file' \in Survivors(file) /\ closed' = closed
  BY CrashIs
<1>2. CASE file' = file /\ closed' = closed
  BY <1>1, <1>2 DEF Durable, Content, Progress, Exists
<1>3. CASE file' = NoFile /\ closed' = FALSE
  BY <1>1, <1>3 DEF Durable, Content, Progress, Exists
<1>4. CASE Exists(file) /\ file' \in Survivors(file) /\ closed' = closed
  <2>1. /\ DOMAIN file' = FileFields /\ file'.durCells = file'.cells /\ file'.durFin = file'.fin
        /\ file'.fin \in {file.fin, file.durFin}
        /\ IsSeq(file.cells) /\ file.durCells = file.cells => file'.cells = file.cells
    BY <1>4, SurvivorIs
  <2>2. Exists(file')
    BY <2>1, FilesDiffer
  <2>3. file'.fin = 1 => file.durCells = file.cells /\ Whole(file.cells, accepted)
    BY <1>4, <2>1 DEF Durable
  <2>4. file'.fin = 1 => file'.cells = file.cells
    BY <2>1, <2>3, WholeIsSeq
  <2>5. file'.fin \in {0, 1} /\ (closed => file'.fin = 1)
    BY <1>4, <2>1 DEF Durable
  <2>6. Durable'
    BY <1>1, <1>4, <2>1, <2>2, <2>3, <2>4, <2>5 DEF Durable
  <2> QED BY <1>1, <2>6 DEF Content, Progress
<1> QED BY <1>1, <1>2, <1>3, <1>4

LEMMA StoreInit ==
  ASSUME Init
  PROVE  StoreInv
<1>1. w.state = "none" /\ ~Exists(file) /\ closed = FALSE
  BY DEF Init, NoWriter, Exists
<1> QED BY <1>1, ShapedInit DEF StoreInv, Content, Progress, Durable

LEMMA StoreStep ==
  ASSUME StoreInv, [Next]_vars
  PROVE  StoreInv'
<1> USE DEF StoreInv
<1>1. Shaped' /\ NothingIsLeftBehind'
  BY ShapedStep
<1>2. CASE NewWriter
  BY <1>1, <1>2, NewContent
<1>3. ASSUME NEW key \in Keys, WriteRecord(key) PROVE StoreInv'
  BY <1>1, <1>3, RecordContent
<1>4. ASSUME NEW key \in Keys, NEW l \in Levels, WriteSnapshot(key, l) PROVE StoreInv'
  BY <1>1, <1>4, SnapshotContent
<1>5. CASE Close \/ Flush \/ copyBlobRegion \/ WriteTrailer \/ WriteHeader
  BY <1>1, <1>5, CloseContent, FlushContent, CopyContent, TrailerContent, HeaderContent
<1>6. CASE Sync \/ SyncAgain
  BY <1>1, <1>6, SyncContent
<1>7. CASE Finalize
  BY <1>1, <1>7, FinalizeContent
<1>8. CASE CloseFiles
  BY <1>1, <1>8, CloseFilesContent
<1>9. ASSUME NEW kept, CloseFails(kept) \/ Abort(kept) PROVE StoreInv'
  BY <1>1, <1>9, DiscardContent
<1>10. CASE ProcessCrash \/ PowerLoss
  BY <1>1, <1>10, CrashContent
<1>11. CASE UNCHANGED vars
  <2>1. Content'
    BY <1>11 DEF vars, Content, Blobbed, Blobs
  <2>2. Progress' /\ Durable'
    BY <1>11 DEF vars, Progress, Durable, Exists
  <2> QED BY <1>1, <2>1, <2>2
<1> QED BY <1>2, <1>3, <1>4, <1>5, <1>6, <1>7, <1>8, <1>9, <1>10, <1>11 DEF Next

-----------------------------------------------------------------------------
(***************************************************************************)
(* The reader, on a whole file.                                            *)
(***************************************************************************)

\* p is what s has after off cells.
Part(s, off, p) ==
  /\ off \in Nat /\ IsSeq(p) /\ off + Len(p) <= Len(s)
  /\ \A i \in 1..Len(p) : s[off + i] = p[i]

LEMMA PartSelf ==
  ASSUME NEW p, IsSeq(p)
  PROVE  Part(p, 0, p)
<1>1. Len(p) \in Nat
  BY LenIs
<1>2. \A i \in 1..Len(p) : 0 + i = i
  BY <1>1
<1>3. 0 + Len(p) <= Len(p)
  BY <1>1
<1> QED BY <1>2, <1>3 DEF Part

LEMMA PartLeft ==
  ASSUME NEW a, NEW b, NEW c, Joined(a, b, c), IsSeq(a), IsSeq(b), NEW off, NEW p, Part(a, off, p)
  PROVE  Part(c, off, p)
<1>1. Len(a) \in Nat /\ Len(b) \in Nat /\ Len(p) \in Nat /\ off \in Nat
  BY LenIs DEF Part
<1>2. Len(c) = Len(a) + Len(b) /\ \A i \in 1..Len(a) : c[i] = a[i]
  BY Zenon DEF Joined
<1>3. off + Len(p) <= Len(a) /\ \A i \in 1..Len(p) : a[off + i] = p[i]
  BY DEF Part
<1>4. \A i \in 1..Len(p) : c[off + i] = p[i]
  <2> TAKE i \in 1..Len(p)
  <2>1. off + i \in 1..Len(a)
    BY <1>1, <1>3
  <2> QED BY <1>2, <1>3, <2>1
<1>5. off + Len(p) <= Len(c)
  BY <1>1, <1>2, <1>3
<1>6. IsSeq(p)
  BY DEF Part
<1> QED BY <1>1, <1>4, <1>5, <1>6, Zenon DEF Part

LEMMA PartRight ==
  ASSUME NEW a, NEW b, NEW c, Joined(a, b, c), IsSeq(a), IsSeq(b), NEW off, NEW p, Part(b, off, p)
  PROVE  Part(c, Len(a) + off, p)
<1>1. Len(a) \in Nat /\ Len(b) \in Nat /\ Len(p) \in Nat /\ off \in Nat
  BY LenIs DEF Part
<1>2. Len(c) = Len(a) + Len(b) /\ \A i \in 1..Len(b) : c[Len(a) + i] = b[i]
  BY Zenon DEF Joined
<1>3. off + Len(p) <= Len(b) /\ \A i \in 1..Len(p) : b[off + i] = p[i]
  BY DEF Part
<1>4. \A i \in 1..Len(p) : c[(Len(a) + off) + i] = p[i]
  <2> TAKE i \in 1..Len(p)
  <2>1. off + i \in 1..Len(b) /\ (Len(a) + off) + i = Len(a) + (off + i)
    BY <1>1, <1>3
  <2> QED BY <1>2, <1>3, <2>1
<1>5. (Len(a) + off) + Len(p) <= Len(c)
  BY <1>1, <1>2, <1>3
<1>6. IsSeq(p) /\ Len(a) + off \in Nat
  BY <1>1 DEF Part
<1> QED BY <1>4, <1>5, <1>6, Zenon DEF Part

LEMMA PartSub ==
  ASSUME NEW s, IsSeq(s), NEW off, NEW p, Part(s, off, p)
  PROVE  SubSeq(s, off + 1, off + Len(p)) = p
<1>1. PICK m \in Nat : m = Len(p)
  BY LenIs DEF Part
<1>2. off \in Nat /\ off + m <= Len(s) /\ IsSeq(p)
  BY <1>1 DEF Part
<1>3. PICK a \in Nat \ {0}, b \in Nat : a = off + 1 /\ b = off + m
  BY <1>2
<1>4. b - a + 1 = m /\ a <= b + 1 /\ b <= Len(s)
  BY <1>2, <1>3
<1>5. PICK q : q = SubSeq(s, a, b)
  OBVIOUS
<1>6. IsSeq(q) /\ Len(q) = m /\ \A i \in 1..m : q[i] = s[a + i - 1]
  BY <1>4, <1>5, PartIs
<1>7. \A i \in 1..m : q[i] = p[i]
  <2> TAKE i \in 1..m
  <2>1. a + i - 1 = off + i
    BY <1>2, <1>3
  <2> QED BY <1>1, <1>6, <2>1 DEF Part
<1>8. q = p
  BY <1>1, <1>2, <1>6, <1>7, SameIs
<1> QED BY <1>1, <1>3, <1>5, <1>8

\* The six regions of a file.
Six(h, r, bs, t, s, f, tail, cells) ==
  /\ IsSeq(h) /\ IsSeq(r) /\ IsSeq(bs) /\ IsSeq(t) /\ IsSeq(s) /\ IsSeq(f)
  /\ tail = t \o s \o f /\ cells = h \o r \o bs \o tail
Regions(h, r, bs, t, s, f, tail, cells) ==
  /\ IsSeq(cells) /\ Len(cells) = Len(h) + Len(r) + Len(bs) + Len(tail)
  /\ Len(tail) = Len(t) + Len(s) + Len(f)
  /\ Part(cells, 0, h) /\ Part(cells, Len(h), r) /\ Part(cells, Len(h) + Len(r), bs)
  /\ Part(cells, Len(h) + Len(r) + Len(bs), tail)
  /\ Part(cells, Len(h) + Len(r) + Len(bs), t)
  /\ Part(cells, Len(h) + Len(r) + Len(bs) + Len(t), s)
  /\ Part(cells, Len(h) + Len(r) + Len(bs) + Len(t) + Len(s), f)

LEMMA PartsOfSix ==
  ASSUME NEW h, NEW r, NEW bs, NEW t, NEW s, NEW f, NEW tail, NEW cells,
         Six(h, r, bs, t, s, f, tail, cells)
  PROVE  Regions(h, r, bs, t, s, f, tail, cells)
<1>0. /\ IsSeq(h) /\ IsSeq(r) /\ IsSeq(bs) /\ IsSeq(t) /\ IsSeq(s) /\ IsSeq(f)
      /\ tail = t \o s \o f /\ cells = h \o r \o bs \o tail
  BY DEF Six
<1> USE <1>0
<1>1. PICK hr : hr = h \o r
  OBVIOUS
<1>2. Joined(h, r, hr) /\ IsSeq(hr)
  BY <1>1, JoinJoined, Zenon
<1>3. PICK hrb : hrb = hr \o bs
  OBVIOUS
<1>4. Joined(hr, bs, hrb) /\ IsSeq(hrb)
  BY <1>2, <1>3, JoinJoined, Zenon
<1>5. PICK ts : ts = t \o s
  OBVIOUS
<1>6. Joined(t, s, ts) /\ IsSeq(ts)
  BY <1>5, JoinJoined, Zenon
<1>7. Joined(ts, f, tail) /\ IsSeq(tail)
  BY <1>5, <1>6, JoinJoined, Zenon
<1>8. Joined(hrb, tail, cells) /\ IsSeq(cells)
  BY <1>1, <1>3, <1>4, <1>7, JoinJoined, Zenon
<1>9. PICK lh \in Nat, lr \in Nat, lb \in Nat, lt \in Nat, ls \in Nat, lf \in Nat :
        /\ lh = Len(h) /\ lr = Len(r) /\ lb = Len(bs) /\ lt = Len(t) /\ ls = Len(s) /\ lf = Len(f)
  BY LenIs
<1>10. /\ Len(hr) = lh + lr /\ Len(hrb) = lh + lr + lb /\ Len(ts) = lt + ls
       /\ Len(tail) = lt + ls + lf /\ Len(cells) = lh + lr + lb + Len(tail)
  BY <1>2, <1>4, <1>6, <1>7, <1>8, <1>9 DEF Joined
<1>11. Part(cells, 0, h)
  BY <1>2, <1>4, <1>7, <1>8, PartSelf, PartLeft
<1>12. Part(cells, Len(h), r)
  <2>1. Part(hr, Len(h) + 0, r)
    BY <1>2, PartSelf, PartRight
  <2>2. Len(h) + 0 = Len(h)
    BY <1>9
  <2> QED BY <1>2, <1>4, <1>7, <1>8, <2>1, <2>2, PartLeft
<1>13. Part(cells, Len(h) + Len(r), bs)
  <2>1. Part(hrb, Len(hr) + 0, bs)
    BY <1>2, <1>4, PartSelf, PartRight
  <2>2. Len(hr) + 0 = Len(h) + Len(r)
    BY <1>9, <1>10
  <2>3. Part(hrb, Len(h) + Len(r), bs)
    BY <2>1, <2>2
  <2> QED BY <1>4, <1>7, <1>8, <2>3, PartLeft
<1>14. ASSUME NEW off \in Nat, NEW p, Part(tail, off, p)
       PROVE  Part(cells, lh + lr + lb + off, p)
  <2>1. Part(cells, Len(hrb) + off, p)
    BY <1>4, <1>7, <1>8, <1>14, PartRight
  <2>2. Len(hrb) + off = lh + lr + lb + off
    BY <1>10
  <2> QED BY <2>1, <2>2
<1>15. Part(tail, 0, tail) /\ Part(tail, 0, t) /\ Part(tail, lt, s) /\ Part(tail, lt + ls, f)
  <2>1. Part(tail, 0, tail)
    BY <1>7, PartSelf
  <2>2. Part(tail, 0, t)
    BY <1>6, <1>7, PartSelf, PartLeft
  <2>3. Part(ts, Len(t) + 0, s)
    BY <1>6, PartSelf, PartRight
  <2>4. Part(tail, Len(ts) + 0, f)
    BY <1>6, <1>7, PartSelf, PartRight
  <2>5. Len(t) + 0 = lt /\ Len(ts) + 0 = lt + ls
    BY <1>9, <1>10
  <2>6. Part(ts, lt, s)
    BY <2>3, <2>5
  <2>7. Part(tail, lt, s)
    BY <1>6, <1>7, <2>6, PartLeft
  <2> QED BY <2>1, <2>2, <2>4, <2>5, <2>7
<1>16. /\ lh + lr + lb + 0 = lh + lr + lb
       /\ lh + lr + lb + (lt + ls) = lh + lr + lb + lt + ls
       /\ lt + ls \in Nat
  OBVIOUS
<1>17. /\ Part(cells, lh + lr + lb, tail) /\ Part(cells, lh + lr + lb, t)
       /\ Part(cells, lh + lr + lb + lt, s) /\ Part(cells, lh + lr + lb + lt + ls, f)
  <2>1. Part(cells, lh + lr + lb + 0, tail) /\ Part(cells, lh + lr + lb + 0, t)
    BY <1>14, <1>15
  <2>2. Part(cells, lh + lr + lb + lt, s)
    BY <1>14, <1>15
  <2>3. Part(cells, lh + lr + lb + (lt + ls), f)
    BY <1>14, <1>15, <1>16
  <2> QED BY <1>16, <2>1, <2>2, <2>3
<1> QED BY <1>8, <1>9, <1>10, <1>11, <1>12, <1>13, <1>17 DEF Regions

\* What the reader finds in a whole file f, h its header.
Layout(f, h, acc, v, bs) ==
  /\ IsSeq(f.cells) /\ Len(f.cells) = 1 + Len(acc) + Len(bs) + Len(Trailer(v))
  /\ Len(Trailer(v)) = blockCountFor(Len(acc)) + Len(v.snapIndex) + blockCountFor(Len(acc))
  /\ h = f.cells[1] /\ h \notin {Zero, Junk}
  /\ h.RecordCount = Len(acc) /\ h.Min = v.hdr.min /\ h.Max = v.hdr.max
  /\ h.BlobOffset = 1 + Len(acc) /\ h.BlobLen = Len(bs)
  /\ h.TimeOffset = 1 + Len(acc) + Len(bs) /\ h.TimeCount = blockCountFor(Len(acc))
  /\ h.SnapOffset = 1 + Len(acc) + Len(bs) + blockCountFor(Len(acc))
  /\ h.SnapCount = Len(v.snapIndex)
  /\ h.FooterOffset = 1 + Len(acc) + Len(bs) + blockCountFor(Len(acc)) + Len(v.snapIndex)
  /\ h.TrailerCRC = Trailer(v)
  /\ Records(h, f) = RecordsOf(acc) /\ TimeIndex(h, f) = v.timeIndex
  /\ SnapIndex(h, f) = v.snapIndex /\ Footer(h, f) = v.footer
  /\ Region(f, h.TimeOffset, Len(f.cells) - h.TimeOffset) = Trailer(v)
  /\ Part(f.cells, 1 + Len(acc), bs)

LEMMA HeaderIsNoHole ==
  ASSUME NEW v
  PROVE  Header(v) \notin {Zero, Junk}
<1>1. "RecordCount" \in DOMAIN Header(v)
  BY DEF Header
<1>2. "RecordCount" \notin DOMAIN Zero /\ "RecordCount" \notin DOMAIN Junk
  BY DEF Zero, Junk
<1> QED BY <1>1, <1>2, Zenon

\* The entries of a region read back as the index.
LEMMA EntriesBack ==
  ASSUME NEW t, NEW s, IsSeq(t), IsSeq(s), Len(t) = Len(s), \A i \in 1..Len(t) : t[i].entry = s[i]
  PROVE  Entries(t) = s
<1>1. PICK n \in Nat : n = Len(t)
  BY LenIs
<1>2. DOMAIN t = 1..n
  BY <1>1, LenIs
<1>3. PICK e : e = Entries(t)
  OBVIOUS
<1>4. /\ DOMAIN e = 1..n /\ e = [i \in 1..n |-> e[i]]
      /\ \A i \in 1..n : e[i] = t[i].entry
  BY <1>2, <1>3 DEF Entries
<1>5. IsSeq(e) /\ Len(e) = n
  BY <1>4, FunIs
<1>6. e = s
  BY <1>1, <1>4, <1>5, SameIs
<1> QED BY <1>3, <1>6

LEMMA WholeRead ==
  ASSUME NEW v, NEW bs, NEW f, NEW acc, Complete(v, bs, f.cells, acc)
  PROVE  Layout(f, f.cells[1], acc, v, bs)
<1>1. /\ Finished(v, acc) /\ BlobsHeld(v, acc, bs) /\ v.hdr.blobs = 1 + Len(acc)
      /\ v.pos = 1 + Len(acc) + Len(bs) + Len(Trailer(v))
      /\ f.cells = <<Header(v)>> \o RecordsOf(acc) \o bs \o Trailer(v)
  BY Zenon DEF Complete
<1>2. /\ IsSeq(acc) /\ IsSeq(v.timeIndex) /\ Len(v.timeIndex) = blockCountFor(Len(acc))
      /\ v.recCount = Len(acc) /\ IsSeq(v.snapIndex) /\ IsSeq(v.footer)
      /\ Len(v.footer) = blockCountFor(Len(acc)) /\ IsSeq(bs) /\ v.blobLen = Len(bs)
  BY <1>1, Zenon DEF Finished, Sorted, TimesIndexed, SnapshotsIndexed, BlocksFinished, BlobsHeld
<1>3. PICK t, s, ft :
        /\ Trailer(v) = t \o s \o ft /\ ft = v.footer
        /\ IsSeq(t) /\ IsSeq(s) /\ IsSeq(ft) /\ IsSeq(Trailer(v))
        /\ Len(t) = Len(v.timeIndex) /\ \A i \in 1..Len(t) : t[i].entry = v.timeIndex[i]
        /\ Len(s) = Len(v.snapIndex) /\ \A i \in 1..Len(s) : s[i].entry = v.snapIndex[i]
        /\ Len(Trailer(v)) = Len(t) + Len(s) + Len(ft)
  BY <1>2, TrailerParts
<1>4. PICK hh, r, tail, cells :
        hh = <<Header(v)>> /\ r = RecordsOf(acc) /\ tail = Trailer(v) /\ cells = f.cells
  OBVIOUS
<1>5. IsSeq(hh) /\ Len(hh) = 1 /\ hh[1] = Header(v) /\ IsSeq(r) /\ Len(r) = Len(acc)
  BY <1>2, <1>4, OneIs, RecordsOfIs
<1>6. tail = t \o s \o ft /\ cells = hh \o r \o bs \o tail
  BY <1>1, <1>3, <1>4, Zenon
<1>7. PICK n \in Nat, m \in Nat, k \in Nat, j \in Nat :
        n = Len(acc) /\ m = Len(bs) /\ k = blockCountFor(n) /\ j = Len(v.snapIndex)
  BY <1>2, LenIs, BlockCount
<1>8. Len(t) = k /\ Len(s) = j /\ Len(ft) = k /\ Len(r) = n
  BY <1>2, <1>3, <1>5, <1>7
<1>9. /\ IsSeq(cells) /\ Len(cells) = 1 + n + m + Len(tail) /\ Len(tail) = k + j + k
      /\ Part(cells, 0, hh) /\ Part(cells, 1, r) /\ Part(cells, 1 + n, bs)
      /\ Part(cells, 1 + n + m, tail) /\ Part(cells, 1 + n + m, t)
      /\ Part(cells, 1 + n + m + k, s) /\ Part(cells, 1 + n + m + k + j, ft)
  <2>1. Six(hh, r, bs, t, s, ft, tail, cells)
    BY <1>2, <1>3, <1>5, <1>6 DEF Six
  <2>2. Regions(hh, r, bs, t, s, ft, tail, cells)
    BY <2>1, PartsOfSix, Zenon
  <2> QED BY <1>5, <1>7, <1>8, <2>2 DEF Regions
<1>10. PICK h : h = f.cells[1]
  OBVIOUS
<1>11. h = Header(v)
  <2>1. \A i \in 1..1 : cells[0 + i] = hh[i]
    BY <1>5, <1>9 DEF Part
  <2> QED BY <1>4, <1>5, <1>10, <2>1
<1>12. /\ h.RecordCount = n /\ h.Min = v.hdr.min /\ h.Max = v.hdr.max
       /\ h.BlobOffset = 1 + n /\ h.BlobLen = m
       /\ h.TimeOffset = 1 + n + m /\ h.TimeCount = k /\ h.SnapOffset = 1 + n + m + k
       /\ h.SnapCount = j /\ h.FooterOffset = 1 + n + m + k + j /\ h.TrailerCRC = tail
  <2>1. /\ h.RecordCount = v.recCount /\ h.Min = v.hdr.min /\ h.Max = v.hdr.max
        /\ h.BlobOffset = v.hdr.blobs /\ h.BlobLen = v.blobLen
        /\ h.TimeOffset = v.pos - Len(Trailer(v)) /\ h.TimeCount = Len(v.timeIndex)
        /\ h.SnapOffset = v.pos - Len(Trailer(v)) + Len(v.timeIndex)
        /\ h.SnapCount = Len(v.snapIndex)
        /\ h.FooterOffset = v.pos - Len(Trailer(v)) + Len(v.timeIndex) + Len(v.snapIndex)
        /\ h.TrailerCRC = Trailer(v)
    BY <1>11 DEF Header
  <2>2. Len(v.timeIndex) = k /\ Len(v.snapIndex) = j
    BY <1>2, <1>7
  <2>3. v.pos - Len(Trailer(v)) = 1 + n + m
    BY <1>1, <1>4, <1>7, <1>9
  <2> QED BY <1>1, <1>2, <1>4, <1>7, <2>1, <2>2, <2>3
<1>13. Count(h) = k
  BY <1>7, <1>12 DEF Count
<1>14. ASSUME NEW off \in Nat, NEW p, Part(cells, off, p)
       PROVE  Region(f, off, Len(p)) = p
  BY <1>4, <1>9, <1>14, PartSub DEF Region
<1>15. Records(h, f) = r
  BY <1>8, <1>9, <1>12, <1>14 DEF Records
<1>16. TimeIndex(h, f) = v.timeIndex
  <2>1. Region(f, h.TimeOffset, h.TimeCount) = t
    BY <1>8, <1>9, <1>12, <1>14
  <2>2. Entries(t) = v.timeIndex
    BY <1>2, <1>3, EntriesBack
  <2> QED BY <2>1, <2>2 DEF TimeIndex
<1>17. SnapIndex(h, f) = v.snapIndex
  <2>1. Region(f, h.SnapOffset, h.SnapCount) = s
    BY <1>8, <1>9, <1>12, <1>14
  <2>2. Entries(s) = v.snapIndex
    BY <1>2, <1>3, EntriesBack
  <2> QED BY <2>1, <2>2 DEF SnapIndex
<1>18. Footer(h, f) = v.footer
  BY <1>3, <1>8, <1>9, <1>12, <1>13, <1>14 DEF Footer
<1>19. Region(f, h.TimeOffset, Len(f.cells) - h.TimeOffset) = tail
  <2>1. Len(f.cells) - h.TimeOffset = Len(tail)
    BY <1>4, <1>9, <1>12
  <2>2. 1 + n + m \in Nat
    OBVIOUS
  <2>3. Region(f, 1 + n + m, Len(tail)) = tail
    BY <1>9, <1>14, <2>2, Zenon
  <2> QED BY <1>12, <2>1, <2>3, Zenon
<1>20. h \notin {Zero, Junk}
  BY <1>11, HeaderIsNoHole, Zenon
<1>21. /\ IsSeq(f.cells) /\ Len(f.cells) = 1 + Len(acc) + Len(bs) + Len(Trailer(v))
       /\ Len(Trailer(v)) = blockCountFor(Len(acc)) + Len(v.snapIndex) + blockCountFor(Len(acc))
       /\ Part(f.cells, 1 + Len(acc), bs)
  BY <1>4, <1>7, <1>9, Zenon
<1>22. /\ h.RecordCount = Len(acc) /\ h.Min = v.hdr.min /\ h.Max = v.hdr.max
       /\ h.BlobOffset = 1 + Len(acc) /\ h.BlobLen = Len(bs)
       /\ h.TimeOffset = 1 + Len(acc) + Len(bs) /\ h.TimeCount = blockCountFor(Len(acc))
       /\ h.SnapOffset = 1 + Len(acc) + Len(bs) + blockCountFor(Len(acc))
       /\ h.SnapCount = Len(v.snapIndex)
       /\ h.FooterOffset = 1 + Len(acc) + Len(bs) + blockCountFor(Len(acc)) + Len(v.snapIndex)
       /\ h.TrailerCRC = Trailer(v)
  BY <1>4, <1>7, <1>12, Zenon
<1>23. Layout(f, h, acc, v, bs)
  BY <1>4, <1>10, <1>15, <1>16, <1>17, <1>18, <1>19, <1>20, <1>21, <1>22, Zenon DEF Layout
<1> QED BY <1>10, <1>23, Zenon

LEMMA OpensWhole ==
  ASSUME NEW v, NEW acc, Finished(v, acc), NEW bs, IsSeq(bs), NEW f, NEW h,
         Layout(f, h, acc, v, bs), f.fin = 1
  PROVE  Opens(f)
<1>1. Sorted(acc) /\ TimesIndexed(v, acc) /\ SnapshotsIndexed(v, acc) /\ BlocksFinished(v, acc)
  BY Zenon DEF Finished
<1>2. IsSeq(acc)
  BY <1>1, Zenon DEF Sorted
<1>3. PICK n \in Nat, m \in Nat, k \in Nat, j \in Nat :
        n = Len(acc) /\ m = Len(bs) /\ k = blockCountFor(n) /\ j = Len(v.snapIndex)
  BY <1>1, <1>2, LenIs, BlockCount DEF SnapshotsIndexed
<1>4. /\ Len(f.cells) = 1 + n + m + (k + j + k) /\ h = f.cells[1] /\ h \notin {Zero, Junk}
      /\ h.RecordCount = n /\ h.Min = v.hdr.min /\ h.Max = v.hdr.max
      /\ h.BlobOffset = 1 + n /\ h.BlobLen = m
      /\ h.TimeOffset = 1 + n + m /\ h.TimeCount = k /\ h.SnapOffset = 1 + n + m + k
      /\ h.SnapCount = j /\ h.FooterOffset = 1 + n + m + k + j /\ h.TrailerCRC = Trailer(v)
  BY <1>3, Zenon DEF Layout
<1>5. /\ Records(h, f) = RecordsOf(acc) /\ TimeIndex(h, f) = v.timeIndex
      /\ SnapIndex(h, f) = v.snapIndex /\ Footer(h, f) = v.footer
      /\ Region(f, h.TimeOffset, Len(f.cells) - h.TimeOffset) = Trailer(v)
  BY Zenon DEF Layout
<1>6. decodeHeader(f)
  BY <1>4 DEF decodeHeader
<1>7. validateHeader(h, f)
  <2>1. n <= MaxRecordCount /\ j <= n
    BY <1>1, <1>3 DEF Sorted, SnapshotsIndexed
  <2>2. Count(h) = k
    BY <1>3, <1>4 DEF Count
  <2>3. 1 + n + m + (k + j + k) = 1 + n + m + k + j + k
    OBVIOUS
  <2> QED BY <1>4, <2>1, <2>2, <2>3 DEF validateHeader
<1>8. decodeIndexes(h, f)
  <2>1. PICK time, snap, footer : time = v.timeIndex /\ snap = v.snapIndex /\ footer = v.footer
    OBVIOUS
  <2>2. /\ IsSeq(time) /\ Len(time) = k
        /\ \A i \in 1..k : time[i] = acc[(i - 1) * BlockSizeRecords + 1].rec.key[1]
    BY <1>1, <1>3, <2>1, Zenon DEF TimesIndexed
  <2>3. \A i \in 2..Len(time) : time[i - 1] <= time[i]
    <3> SUFFICES ASSUME NEW i \in 2..k PROVE time[i - 1] <= time[i]
      BY <2>2
    <3>1. i \in 1..k /\ i - 1 \in 1..k
      OBVIOUS
    <3>2. PICK p \in Nat, q \in Nat :
            p = (i - 1 - 1) * BlockSizeRecords /\ q = (i - 1) * BlockSizeRecords
      BY <1>3, <3>1, BlockBounds
    <3>3. q < n /\ q = p + BlockSizeRecords
      BY <1>3, <3>1, <3>2, BlockBounds
    <3>4. p + 1 \in 1..n /\ q + 1 \in 1..n /\ p + 1 <= q + 1
      BY <3>2, <3>3, StoreAssumption
    <3>5. time[i - 1] = acc[p + 1].rec.key[1] /\ time[i] = acc[q + 1].rec.key[1]
      BY <2>2, <3>1, <3>2
    <3> QED BY <1>1, <1>3, <3>4, <3>5 DEF Sorted
  <2>4. DOMAIN snap = 1..j
    BY <1>1, <1>3, <2>1, LenIs DEF SnapshotsIndexed
  <2>5. \A i \in DOMAIN snap : snap[i] < h.RecordCount /\ (i > 1 => snap[i - 1] < snap[i])
    <3> SUFFICES ASSUME NEW i \in 1..j PROVE snap[i] < n /\ (i > 1 => snap[i - 1] < snap[i])
      BY <1>4, <2>4
    <3>1. snap[i] \in 0..n - 1 /\ (i > 1 => snap[i - 1] < snap[i])
      BY <1>1, <1>3, <2>1 DEF SnapshotsIndexed
    <3> QED BY <3>1
  <2>6. DOMAIN footer = 1..Len(footer)
    BY <1>1, <2>1, LenIs DEF BlocksFinished
  <2>7. \A i \in DOMAIN footer : footer[i].start = (i - 1) * BlockSizeRecords
    <3> SUFFICES ASSUME NEW i \in 1..Len(footer)
                 PROVE  footer[i].start = (i - 1) * BlockSizeRecords
      BY <2>6
    <3>1. footer[i] = [start |-> (i - 1) * BlockSizeRecords, blockCRC |-> BlockOf(acc, i)]
      BY <1>1, <2>1, Zenon DEF BlocksFinished
    <3> QED BY <3>1
  <2> QED BY <1>5, <2>1, <2>3, <2>5, <2>7 DEF decodeIndexes
<1>9. checkTimestampRange(h, f)
  <2>1. CASE n = 0
    BY <1>1, <1>3, <1>4, <2>1 DEF checkTimestampRange, TimesIndexed
  <2>2. CASE n # 0
    <3>1. v.hdr.min = acc[1].rec.key[1] /\ v.hdr.max = acc[n].rec.key[1]
      BY <1>1, <1>3, <2>2, Zenon DEF TimesIndexed
    <3>2. \A i \in 1..n : decodeRecord(Records(h, f)[i]) = acc[i].rec
      <4> TAKE i \in 1..n
      <4>1. Records(h, f)[i] = acc[i].rec
        BY <1>2, <1>3, <1>5, RecordsOfIs
      <4>2. DOMAIN acc[i].rec = RecordFields
        BY <1>1, <1>3 DEF Sorted
      <4>3. acc[i].rec # Zero
        BY <4>2 DEF Zero, RecordFields
      <4> QED BY <4>1, <4>3 DEF decodeRecord
    <3>3. 1 \in 1..n /\ n \in 1..n
      BY <2>2
    <3> QED BY <1>4, <2>2, <3>1, <3>2, <3>3 DEF checkTimestampRange
  <2> QED BY <2>1, <2>2
<1> QED BY <1>4, <1>5, <1>6, <1>7, <1>8, <1>9 DEF Opens

\* The levels of a blob, read back.
LEMMA LevelsBack ==
  ASSUME NEW l \in LevelPairs
  PROVE  AppendLevels(Encode(l)) = l
<1>1. PICK e : e = Encode(l)
  OBVIOUS
<1>2. PICK x \in Seq(Nat), y \in Seq(Nat) : x = l.bids /\ y = l.asks
  BY DEF LevelPairs
<1>3. PICK p \in Nat, q \in Nat : p = Len(x) /\ q = Len(y)
  OBVIOUS
<1>4. /\ Len(e) = 1 + p + q /\ e[1] = [crc |-> l, bids |-> p, asks |-> q]
      /\ \A i \in 1..p + q : e[1 + i] = [level |-> (x \o y)[i]]
  BY <1>1, <1>2, <1>3, EncodeIs, Zenon
<1>5. PICK all : all = [i \in 1..(Len(e) - 1) |-> e[i + 1].level]
  OBVIOUS
<1>6. Len(e) - 1 = p + q /\ p + q \in Nat
  BY <1>4
<1>7. /\ DOMAIN all = 1..p + q /\ all = [i \in 1..p + q |-> all[i]]
      /\ \A i \in 1..p + q : all[i] = e[i + 1].level
  BY <1>5, <1>6
<1>8. \A i \in 1..p + q : all[i] = (x \o y)[i]
  <2> TAKE i \in 1..p + q
  <2>1. i + 1 = 1 + i
    OBVIOUS
  <2>2. e[1 + i].level = (x \o y)[i]
    <3>1. PICK c : c = (x \o y)[i]
      OBVIOUS
    <3>2. e[1 + i] = [level |-> c]
      BY <1>4, <3>1, Zenon
    <3>3. e[1 + i].level = c
      BY <3>2
    <3> QED BY <3>1, <3>3, Zenon
  <2> QED BY <1>7, <2>1, <2>2
<1>9. IsSeq(all) /\ Len(all) = p + q
  BY <1>6, <1>7, FunIs
<1>10. PICK xy : xy = x \o y
  OBVIOUS
<1>11. xy \in Seq(Nat) /\ Len(xy) = p + q
  BY <1>3, <1>10
<1>12. all = xy
  BY <1>8, <1>9, <1>10, <1>11, SeqIs, SameIs
<1>13. SubSeq(xy, 1, p) = x /\ SubSeq(xy, p + 1, p + q) = y
  <2>1. IsSeq(x) /\ IsSeq(y)
    BY SeqIs
  <2>2. Joined(x, y, xy) /\ IsSeq(xy)
    BY <1>10, <2>1, JoinJoined, Zenon
  <2>3. Part(xy, 0, x)
    BY <2>1, <2>2, PartSelf, PartLeft
  <2>4. Part(xy, p + 0, y)
    BY <1>3, <2>1, <2>2, PartSelf, PartRight
  <2>5. SubSeq(xy, 0 + 1, 0 + Len(x)) = x
    BY <2>2, <2>3, PartSub, Zenon
  <2>6. SubSeq(xy, p + 0 + 1, p + 0 + Len(y)) = y
    BY <2>2, <2>4, PartSub, Zenon
  <2>7. 0 + 1 = 1 /\ 0 + Len(x) = p /\ p + 0 + 1 = p + 1 /\ p + 0 + Len(y) = p + q
    BY <1>3
  <2> QED BY <2>5, <2>6, <2>7, Zenon
<1>14. AppendLevels(e) = [bids |-> SubSeq(all, 1, p), asks |-> SubSeq(all, p + 1, Len(all))]
  <2>1. e[1].bids = p
    BY <1>4
  <2> QED BY <1>5, <2>1 DEF AppendLevels
<1>15. l = [bids |-> x, asks |-> y]
  BY <1>2 DEF LevelPairs
<1> QED BY <1>1, <1>9, <1>12, <1>13, <1>14, <1>15

\* A snapshot's blob, in the file.
LEMMA BlobBack ==
  ASSUME NEW acc, Sorted(acc), NEW v, NEW bs, BlobsHeld(v, acc, bs), NEW f, NEW h,
         Layout(f, h, acc, v, bs), NEW i \in 1..Len(acc), acc[i].rec.type = "snapshot"
  PROVE  /\ BlobCells(h, f, acc[i].rec) = Encode(acc[i].levels)
         /\ AppendLevels(BlobCells(h, f, acc[i].rec)) = acc[i].levels
         /\ Blob(h, f, acc[i].rec)
<1>1. PICK rec, l : rec = acc[i].rec /\ l = acc[i].levels
  OBVIOUS
<1>2. IsSeq(acc) /\ IsSeq(bs)
  BY Zenon DEF Sorted, BlobsHeld
<1>3. PICK n \in Nat, m \in Nat : n = Len(acc) /\ m = Len(bs)
  BY <1>2, LenIs
<1>4. /\ h.BlobOffset = 1 + n /\ h.BlobLen = m /\ IsSeq(f.cells) /\ Part(f.cells, 1 + n, bs)
  BY <1>3, Zenon DEF Layout
<1>5. l \in LevelPairs
  BY <1>1, Zenon DEF BlobsHeld, LevelPairs
<1>6. PICK e : e = Encode(l)
  OBVIOUS
<1>7. PICK p \in Nat, q \in Nat : p = Len(l.bids) /\ q = Len(l.asks)
  BY <1>5, EncodeIs, Zenon
<1>8. /\ IsSeq(e) /\ Len(e) = 1 + p + q /\ e[1] = [crc |-> l, bids |-> p, asks |-> q]
      /\ \A x \in 1..p + q : e[1 + x] = [level |-> (l.bids \o l.asks)[x]]
  BY <1>5, <1>6, <1>7, EncodeIs, Zenon
<1>9. PICK off \in Nat, len \in Nat : off = rec.off /\ len = rec.len /\ len = Len(e)
  <2>1. rec.off \in Nat /\ rec.len = Len(e)
    BY <1>1, <1>6, Zenon DEF BlobsHeld
  <2>2. Len(e) \in Nat
    BY <1>8
  <2> QED BY <2>1, <2>2
<1>10. off + len <= m /\ SubSeq(bs, off + 1, off + len) = e
  BY <1>1, <1>3, <1>6, <1>9, Zenon DEF BlobsHeld
<1>11. Part(f.cells, 1 + n + off, e)
  <2>1. \A x \in 1..len : e[x] = bs[off + x]
    <3>1. PICK a \in Nat \ {0}, b \in Nat : a = off + 1 /\ b = off + len
      OBVIOUS
    <3>2. b - a + 1 = len /\ a <= b + 1 /\ b <= Len(bs)
      BY <1>3, <1>10, <3>1
    <3>3. \A x \in 1..len : SubSeq(bs, a, b)[x] = bs[a + x - 1]
      BY <1>2, <3>2, PartIs
    <3>4. SubSeq(bs, a, b) = e
      BY <1>10, <3>1
    <3>5. \A x \in 1..len : a + x - 1 = off + x
      BY <3>1
    <3> QED BY <3>3, <3>4, <3>5, Zenon
  <2>2. \A x \in 1..len : off + x \in 1..m /\ 1 + n + (off + x) = 1 + n + off + x
    BY <1>10
  <2>3. 1 + n + m <= Len(f.cells) /\ \A x \in 1..m : f.cells[1 + n + x] = bs[x]
    BY <1>3, <1>4 DEF Part
  <2>4. Len(f.cells) \in Nat
    BY <1>4, LenIs
  <2>5. 1 + n + off \in Nat /\ 1 + n + off + len <= Len(f.cells)
    BY <1>10, <2>3, <2>4
  <2>6. \A x \in 1..len : f.cells[1 + n + off + x] = e[x]
    <3> TAKE x \in 1..len
    <3>1. f.cells[1 + n + (off + x)] = bs[off + x]
      BY <2>2, <2>3
    <3> QED BY <2>1, <2>2, <3>1
  <2> QED BY <1>8, <1>9, <2>5, <2>6 DEF Part
<1>12. BlobCells(h, f, rec) = e
  <2>1. SubSeq(f.cells, 1 + n + off + 1, 1 + n + off + Len(e)) = e
    BY <1>4, <1>11, PartSub, Zenon
  <2> QED BY <1>4, <1>9, <2>1, Zenon DEF BlobCells, Region
<1>13. AppendLevels(e) = l
  BY <1>5, <1>6, LevelsBack, Zenon
<1>14. DOMAIN rec = RecordFields /\ validateRecord(rec) /\ rec.type = "snapshot"
  BY <1>1, Zenon DEF Sorted
<1>15. rec \notin {Zero, Junk}
  BY <1>14 DEF Zero, Junk, RecordFields
<1>16. rec.off <= h.BlobLen /\ rec.len <= h.BlobLen - rec.off
  BY <1>4, <1>9, <1>10
<1>17. DOMAIN e[1] = {"crc", "bids", "asks"} /\ e[1].bids = p /\ e[1].asks = q /\ e[1].crc = l
  BY <1>8
<1>18. \A x \in 2..Len(e) : DOMAIN e[x] = {"level"}
  <2> SUFFICES ASSUME NEW x \in 2..1 + p + q PROVE DOMAIN e[x] = {"level"}
    BY <1>8
  <2>1. PICK y \in 1..p + q : x = 1 + y
    <3>1. x - 1 \in 1..p + q /\ x = 1 + (x - 1)
      OBVIOUS
    <3> QED BY <3>1
  <2>2. PICK c : c = (l.bids \o l.asks)[y]
    OBVIOUS
  <2>3. e[x] = [level |-> c]
    BY <1>8, <2>1, <2>2, Zenon
  <2> QED BY <2>3
<1>19. e[1].bids + e[1].asks = rec.count
  <2>1. rec.count = rec.len - 1
    BY <1>14 DEF validateRecord
  <2>2. rec.len - 1 = p + q
    BY <1>8, <1>9
  <2> QED BY <1>17, <2>1, <2>2
<1>20. Blob(h, f, rec)
  BY <1>12, <1>13, <1>14, <1>15, <1>16, <1>17, <1>18, <1>19, Zenon DEF Blob
<1> QED BY <1>1, <1>6, <1>12, <1>13, <1>20, Zenon

LEMMA VerifiesWhole ==
  ASSUME NEW v, NEW acc, Finished(v, acc), NEW bs, BlobsHeld(v, acc, bs), NEW f, NEW h,
         Layout(f, h, acc, v, bs)
  PROVE  VerifyAll(f)
<1>1. Sorted(acc) /\ SnapshotsIndexed(v, acc) /\ BlocksFinished(v, acc)
  BY Zenon DEF Finished
<1>2. IsSeq(acc)
  BY <1>1, Zenon DEF Sorted
<1>3. PICK n \in Nat, k \in Nat, B \in Nat \ {0} :
        n = Len(acc) /\ k = blockCountFor(n) /\ B = BlockSizeRecords
  BY <1>2, LenIs, BlockCount, StoreAssumption
<1>4. /\ h = f.cells[1] /\ h.RecordCount = n /\ Records(h, f) = RecordsOf(acc)
      /\ SnapIndex(h, f) = v.snapIndex /\ Footer(h, f) = v.footer
  BY <1>3, Zenon DEF Layout
<1>5. Count(h) = k
  BY <1>3, <1>4 DEF Count
<1>6. ASSUME NEW b \in 0..(k - 1) PROVE verifyBlock(h, f, b)
  <2>1. PICK i \in 1..k : i = b + 1
    <3>1. b + 1 \in 1..k
      BY <1>6
    <3> QED BY <3>1
  <2>2. v.footer[i] = [start |-> (i - 1) * BlockSizeRecords, blockCRC |-> BlockOf(acc, i)]
    BY <1>1, <1>3, Zenon DEF BlocksFinished
  <2>3. Footer(h, f)[b + 1].blockCRC = BlockOf(acc, i)
    BY <1>4, <2>1, <2>2
  <2>4. (IF (b + 1) * B > n THEN n ELSE (b + 1) * B) = Smaller(i * B, n)
    <3>1. i * B \in Nat
      OBVIOUS
    <3> QED BY <2>1, <3>1 DEF Smaller
  <2>5. b = i - 1
    BY <2>1
  <2>6. blockRecordBytes(h, f, b) = SubSeq(RecordsOf(acc), b * B + 1,
                                           IF (b + 1) * B > n THEN n ELSE (b + 1) * B)
    BY <1>3, <1>4, Zenon DEF blockRecordBytes
  <2>7. BlockOf(acc, i) = SubSeq(RecordsOf(acc), (i - 1) * B + 1, Smaller(i * B, n))
    BY <1>3, Zenon DEF BlockOf
  <2>8. blockRecordBytes(h, f, b) = BlockOf(acc, i)
    BY <2>4, <2>5, <2>6, <2>7, Zenon
  <2> QED BY <2>3, <2>8, Zenon DEF verifyBlock
<1>7. ASSUME NEW j \in DOMAIN v.snapIndex PROVE Blob(h, f, Records(h, f)[v.snapIndex[j] + 1])
  <2>1. j \in 1..Len(v.snapIndex)
    BY <1>1, <1>7, LenIs DEF SnapshotsIndexed
  <2>2. v.snapIndex[j] \in 0..n - 1 /\ acc[v.snapIndex[j] + 1].rec.type = "snapshot"
    BY <1>1, <1>3, <2>1 DEF SnapshotsIndexed
  <2>3. PICK i \in 1..n : i = v.snapIndex[j] + 1
    <3>1. v.snapIndex[j] + 1 \in 1..n
      BY <2>2
    <3> QED BY <3>1
  <2>4. acc[i].rec.type = "snapshot" /\ i \in 1..Len(acc)
    BY <1>3, <2>2, <2>3
  <2>5. Blob(h, f, acc[i].rec)
    BY <1>1, <2>4, BlobBack, Zenon
  <2>6. RecordsOf(acc)[i] = acc[i].rec
    BY <1>2, <2>4, RecordsOfIs
  <2> QED BY <1>4, <2>3, <2>5, <2>6, Zenon
<1> QED BY <1>4, <1>5, <1>6, <1>7, Zenon DEF VerifyAll

\* An image with the finalized byte set is what was accepted.
LEMMA InvOpens ==
  ASSUME StoreInv
  PROVE  OpensOnlyWhole /\ ClosedFileOpens
<1>1. ASSUME Exists(file), file.fin = 1
      PROVE  \E v, bs : /\ Finished(v, accepted) /\ BlobsHeld(v, accepted, bs) /\ IsSeq(bs)
                        /\ Layout(file, file.cells[1], accepted, v, bs)
  <2>1. Whole(file.cells, accepted)
    BY <1>1 DEF StoreInv, Durable
  <2>2. PICK v, bs : Complete(v, bs, file.cells, accepted)
    BY <2>1, Zenon DEF Whole
  <2>3. Finished(v, accepted) /\ BlobsHeld(v, accepted, bs)
    BY <2>2, Zenon DEF Complete
  <2>4. IsSeq(bs)
    BY <2>3, Zenon DEF BlobsHeld
  <2>5. PICK f, acc : f = file /\ acc = accepted
    OBVIOUS
  <2>6. Layout(f, f.cells[1], acc, v, bs)
    BY <2>2, <2>5, WholeRead, Zenon
  <2> QED BY <2>3, <2>4, <2>5, <2>6, Zenon
<1>2. ClosedFileOpens
  <2> SUFFICES ASSUME closed PROVE Exists(file) /\ Opens(file)
    BY DEF ClosedFileOpens
  <2>1. Exists(file) /\ file.fin = 1
    BY DEF StoreInv, Durable
  <2> QED BY <1>1, <2>1, OpensWhole
<1>3. OpensOnlyWhole
  <2> SUFFICES ASSUME Exists(file), Opens(file)
               PROVE  LET h == file.cells[1] IN
                      /\ h.RecordCount = Len(accepted)
                      /\ \A i \in 1 .. h.RecordCount : Records(h, file)[i] = accepted[i].rec
                      /\ VerifyAll(file)
                      /\ \A i \in 1 .. h.RecordCount : accepted[i].rec.type = "snapshot" =>
                           AppendLevels(BlobCells(h, file, accepted[i].rec)) = accepted[i].levels
    BY DEF OpensOnlyWhole
  <2>1. file.fin = 1
    BY DEF Opens, validateHeader
  <2>2. PICK h : h = file.cells[1]
    OBVIOUS
  <2>3. PICK v, bs : /\ Finished(v, accepted) /\ BlobsHeld(v, accepted, bs)
                     /\ Layout(file, h, accepted, v, bs)
    BY <1>1, <2>1, <2>2
  <2>4. Sorted(accepted) /\ IsSeq(accepted)
    BY <2>3, Zenon DEF Finished, Sorted
  <2>5. h.RecordCount = Len(accepted) /\ Records(h, file) = RecordsOf(accepted)
    BY <2>3, Zenon DEF Layout
  <2>6. \A i \in 1 .. h.RecordCount : Records(h, file)[i] = accepted[i].rec
    BY <2>4, <2>5, RecordsOfIs
  <2>7. VerifyAll(file)
    BY <2>3, VerifiesWhole
  <2>8. \A i \in 1 .. h.RecordCount : accepted[i].rec.type = "snapshot" =>
          AppendLevels(BlobCells(h, file, accepted[i].rec)) = accepted[i].levels
    BY <2>3, <2>4, <2>5, BlobBack
  <2> QED BY <2>2, <2>5, <2>6, <2>7, <2>8
<1> QED BY <1>2, <1>3

\* Whatever image a reader finds, Open accepts it only if it holds exactly what was
\* accepted, every block and blob verifies and every snapshot has its levels: for every
\* block size, buffer, content and sequence of failures and crashes (Writer.finish, Open).
THEOREM OpenedIsWhole == Spec => []OpensOnlyWhole
<1>1. Init => StoreInv
  BY StoreInit
<1>2. StoreInv /\ [Next]_vars => StoreInv'
  BY StoreStep
<1>3. StoreInv => OpensOnlyWhole
  BY InvOpens
<1> QED BY <1>1, <1>2, <1>3, PTL DEF Spec

\* Once Close has returned nil the file opens, whatever the writer is asked to do next and
\* whichever crash follows: the second fsync, and Abort after Close.
THEOREM ClosedOpens == Spec => []ClosedFileOpens
<1>1. Init => StoreInv
  BY StoreInit
<1>2. StoreInv /\ [Next]_vars => StoreInv'
  BY StoreStep
<1>3. StoreInv => ClosedFileOpens
  BY InvOpens
<1> QED BY <1>1, <1>2, <1>3, PTL DEF Spec

-----------------------------------------------------------------------------
(***************************************************************************)
(* Seeks.                                                                  *)
(***************************************************************************)

\* A set of numbers that is not empty has a least one.
LEMMA LeastNumber ==
  ASSUME NEW T \in SUBSET Nat, T # {}
  PROVE  \E x \in T : \A y \in T : x <= y
<1> DEFINE R == OpToRel(<, Nat)
<1>1. IsWellFoundedOn(R, Nat)
  BY NatLessThanWellFounded, Zenon
<1>2. \A x, y \in Nat : x < y => <<x, y>> \in R
  BY DEF OpToRel
<1>3. \E x \in T : \A y \in T : ~(<<y, x>> \in R)
  <2> HIDE DEF R
  <2> QED BY <1>1, WFMin
<1>4. PICK x \in T : \A y \in T : ~(<<y, x>> \in R)
  BY <1>3
<1>5. \A y \in T : ~(y < x)
  <2> HIDE DEF R
  <2> QED BY <1>2, <1>4, Zenon
<1>6. \A y \in T : y \in Int /\ x \in Int
  OBVIOUS
<1>7. \A y \in T : x <= y
  BY <1>5, <1>6
<1> QED BY <1>7

\* What sort.Search finds, L being the entries for which the test holds.
LEMMA SearchFinds ==
  ASSUME NEW n \in Nat, NEW L
  PROVE  \E j \in 0..n : (j = n \/ (j + 1) \in L) /\ \A i \in 1..j : i \notin L
<1> DEFINE T == {j \in 0..n : j = n \/ (j + 1) \in L}
<1>1. T \in SUBSET Nat /\ n \in T
  OBVIOUS
<1>2. PICK j \in T : \A y \in T : j <= y
  BY <1>1, LeastNumber
<1>3. ASSUME NEW i \in 1..j PROVE i \notin L
  <2>1. i - 1 \in 0..n /\ (i - 1) + 1 = i /\ i - 1 < j
    OBVIOUS
  <2>2. i - 1 \notin T
    BY <1>2, <2>1
  <2> QED BY <2>1, <2>2
<1> QED BY <1>3

LEMMA TimeSearch ==
  ASSUME NEW n \in Nat, NEW idx, Len(idx) = n, NEW t
  PROVE  LET b == searchTimeIndex(idx, t)
         IN  b \in 0..n /\ (b = n \/ idx[b + 1] >= t) /\ \A i \in 1..b : ~(idx[i] >= t)
<1> DEFINE L == {i \in 1..n : idx[i] >= t}
<1>1. PICK j \in 0..n : (j = n \/ (j + 1) \in L) /\ \A i \in 1..j : i \notin L
  <2> HIDE DEF L
  <2> QED BY SearchFinds
<1>2. \A i \in 1..j : ~(idx[i] >= t)
  BY <1>1
<1>3. j = n \/ idx[j + 1] >= t
  BY <1>1
<1>4. \E x \in 0..n : (x = n \/ idx[x + 1] >= t) /\ \A i \in 1..x : ~(idx[i] >= t)
  BY <1>2, <1>3
<1>5. searchTimeIndex(idx, t) =
        CHOOSE x \in 0..n : (x = n \/ idx[x + 1] >= t) /\ \A i \in 1..x : ~(idx[i] >= t)
  BY Zenon DEF searchTimeIndex, FirstAt
<1> QED BY <1>4, <1>5, Zenon

LEMMA SnapshotSearch ==
  ASSUME NEW n \in Nat, NEW idx, Len(idx) = n, NEW t
  PROVE  LET b == searchSnapshotIndex(idx, t)
         IN  b \in 0..n /\ (b = n \/ idx[b + 1] > t) /\ \A i \in 1..b : ~(idx[i] > t)
<1> DEFINE L == {i \in 1..n : idx[i] > t}
<1>1. PICK j \in 0..n : (j = n \/ (j + 1) \in L) /\ \A i \in 1..j : i \notin L
  <2> HIDE DEF L
  <2> QED BY SearchFinds
<1>2. \A i \in 1..j : ~(idx[i] > t)
  BY <1>1
<1>3. j = n \/ idx[j + 1] > t
  BY <1>1
<1>4. \E x \in 0..n : (x = n \/ idx[x + 1] > t) /\ \A i \in 1..x : ~(idx[i] > t)
  BY <1>2, <1>3
<1>5. searchSnapshotIndex(idx, t) =
        CHOOSE x \in 0..n : (x = n \/ idx[x + 1] > t) /\ \A i \in 1..x : ~(idx[i] > t)
  BY Zenon DEF searchSnapshotIndex, FirstAt
<1> QED BY <1>4, <1>5, Zenon

\* SeekTime with what it reads: n records of times recs, m blocks, the block b found.
SeekIn(n, m, recs, b, t) ==
  LET lo == (b - 1) * BlockSizeRecords
      end == lo + BlockSizeRecords
      hi == IF b = m \/ end > n - 1 THEN n - 1 ELSE end
      hits == {i \in lo..hi : recs[i + 1].key[1] >= t}
  IN  IF n = 0 \/ b = 0 THEN 0
      ELSE IF hits = {} THEN n ELSE CHOOSE i \in hits : \A j \in hits : i <= j

\* The first of the numbers lo..hi at or after t, n if there is none.
Scan(time, t, lo, hi, n) ==
  LET hits == {i \in lo..hi : time[i] >= t}
  IN  IF hits = {} THEN n ELSE CHOOSE i \in hits : \A j \in hits : i <= j

\* It is the first of all, when what is before lo is early and what is after hi late.
LEMMA ScanFinds ==
  ASSUME NEW n \in Nat, NEW time \in [0..n - 1 -> Nat], NEW t \in Nat,
         \A i, j \in 0..n - 1 : i <= j => time[i] <= time[j],
         NEW lo \in 0..n - 1, NEW hi \in 0..n - 1, lo <= hi, time[lo] < t,
         hi = n - 1 \/ time[hi] >= t
  PROVE  LET s == Scan(time, t, lo, hi, n)
         IN  s \in 0..n /\ \A i \in 0..n - 1 : i < s <=> time[i] < t
<1> DEFINE hits == {i \in lo..hi : time[i] >= t}
<1>1. PICK s : s = Scan(time, t, lo, hi, n)
  OBVIOUS
<1>2. CASE hits = {}
  <2>1. s = n
    BY <1>1, <1>2 DEF Scan
  <2>2. hi = n - 1
    BY <1>2
  <2>3. ASSUME NEW i \in 0..n - 1 PROVE time[i] < t
    <3>1. CASE i <= lo
      BY <3>1
    <3>2. CASE i >= lo
      <4>1. i \in lo..hi /\ i \notin hits /\ time[i] \in Nat
        BY <1>2, <2>2, <3>2
      <4> QED BY <4>1
    <3> QED BY <3>1, <3>2
  <2> QED BY <1>1, <2>1, <2>3
<1>3. CASE hits # {}
  <2>1. hits \in SUBSET Nat
    OBVIOUS
  <2>2. \E x \in hits : \A j \in hits : x <= j
    BY <1>3, <2>1, LeastNumber
  <2>3. s = CHOOSE x \in hits : \A j \in hits : x <= j
    BY <1>1, <1>3 DEF Scan
  <2>4. s \in hits /\ \A j \in hits : s <= j
    BY <2>2, <2>3, Zenon
  <2>5. s \in 0..n - 1 /\ time[s] >= t /\ s <= hi
    BY <2>4
  <2>6. ASSUME NEW i \in 0..n - 1, i < s PROVE time[i] < t
    <3>1. CASE i <= lo
      BY <3>1
    <3>2. CASE i >= lo
      <4>1. i \in lo..hi /\ i \notin hits
        BY <2>4, <2>5, <2>6, <3>2
      <4> QED BY <4>1
    <3> QED BY <3>1, <3>2
  <2>7. ASSUME NEW i \in 0..n - 1, ~(i < s) PROVE ~(time[i] < t)
    <3>1. time[s] <= time[i]
      BY <2>5, <2>7
    <3>2. time[s] \in Nat /\ time[i] \in Nat
      BY <2>5
    <3> QED BY <2>5, <3>1, <3>2
  <2> QED BY <1>1, <2>5, <2>6, <2>7
<1> QED BY <1>2, <1>3

LEMMA SeekTimeFinds ==
  ASSUME NEW v, NEW acc, Finished(v, acc), NEW bs, NEW f, NEW h, Layout(f, h, acc, v, bs),
         NEW t \in Nat
  PROVE  /\ SeekTime(h, f, t) \in 0..Len(acc)
         /\ \A i \in 0..Len(acc) - 1 : i < SeekTime(h, f, t) <=> acc[i + 1].rec.key[1] < t
<1>1. Sorted(acc) /\ TimesIndexed(v, acc) /\ IsSeq(acc)
  BY Zenon DEF Finished, Sorted
<1>2. PICK n \in Nat, k \in Nat, B \in Nat \ {0} :
        n = Len(acc) /\ k = blockCountFor(n) /\ B = BlockSizeRecords
  BY <1>1, LenIs, BlockCount, StoreAssumption
<1>3. n <= k * B /\ k * B < n + B /\ k * B \in Nat
  BY <1>2, BlockCount
<1>4. PICK idx : idx = v.timeIndex
  OBVIOUS
<1>5. h.RecordCount = n /\ Records(h, f) = RecordsOf(acc) /\ TimeIndex(h, f) = idx
  BY <1>2, <1>4, Zenon DEF Layout
<1>6. Len(idx) = k /\ \A i \in 1..k : idx[i] = acc[(i - 1) * B + 1].rec.key[1]
  BY <1>1, <1>2, <1>4 DEF TimesIndexed
<1>7. PICK time : time = [i \in 0..n - 1 |-> acc[i + 1].rec.key[1]]
  OBVIOUS
<1>8. \A i \in 0..n - 1 : i + 1 \in 1..n
  OBVIOUS
<1>9. \A i \in 1..n : acc[i].rec.key[1] \in Nat
  BY <1>1, <1>2 DEF Sorted
<1>10. time \in [0..n - 1 -> Nat]
  BY <1>7, <1>8, <1>9
<1>11. ASSUME NEW i \in 0..n - 1, NEW j \in 0..n - 1, i <= j PROVE time[i] <= time[j]
  <2>1. i + 1 \in 1..n /\ j + 1 \in 1..n /\ i + 1 <= j + 1
    BY <1>11
  <2>2. acc[i + 1].rec.key[1] <= acc[j + 1].rec.key[1]
    BY <1>1, <1>2, <2>1 DEF Sorted
  <2> QED BY <1>7, <2>2
<1>12. ASSUME NEW i \in 0..n - 1 PROVE Records(h, f)[i + 1].key[1] = time[i]
  <2>1. RecordsOf(acc)[i + 1] = acc[i + 1].rec
    BY <1>1, <1>2, <1>8, RecordsOfIs
  <2> QED BY <1>5, <1>7, <2>1
<1>13. PICK b : b = searchTimeIndex(idx, t)
  OBVIOUS
<1>14. b \in 0..k /\ (b = k \/ idx[b + 1] >= t) /\ \A i \in 1..b : ~(idx[i] >= t)
  BY <1>6, <1>13, TimeSearch
<1>15. ASSUME NEW i \in 1..k PROVE (i - 1) * B \in 0..n - 1 /\ idx[i] = time[(i - 1) * B]
  <2>1. (i - 1) * B \in Nat
    OBVIOUS
  <2>2. (i - 1) * B <= (k - 1) * B
    OBVIOUS
  <2>3. (k - 1) * B = k * B - B
    OBVIOUS
  <2>4. (i - 1) * B <= n - 1
    BY <1>3, <2>1, <2>2, <2>3
  <2>5. PICK p \in Nat : p = (i - 1) * B
    BY <2>1
  <2>6. p \in 0..n - 1
    BY <2>4, <2>5
  <2> QED BY <1>6, <1>7, <2>5, <2>6
<1> SUFFICES /\ SeekTime(h, f, t) \in 0..n
             /\ \A i \in 0..n - 1 : i < SeekTime(h, f, t) <=> time[i] < t
  BY <1>2, <1>7
<1>16. CASE n = 0 \/ b = 0
  <2>1. SeekTime(h, f, t) = 0
    BY <1>5, <1>13, <1>16 DEF SeekTime
  <2>2. ASSUME NEW i \in 0..n - 1 PROVE ~(time[i] < t)
    <3>1. b = 0 /\ n > 0
      BY <1>16
    <3>2. k # 0
      BY <1>3, <3>1
    <3>3. 1 \in 1..k /\ (1 - 1) * B = 0
      BY <3>2
    <3>4. idx[1] >= t /\ idx[1] = time[0] /\ 0 \in 0..n - 1
      BY <1>14, <1>15, <3>1, <3>2, <3>3
    <3>5. time[0] <= time[i] /\ time[0] \in Nat /\ time[i] \in Nat
      BY <1>10, <1>11, <3>4
    <3> QED BY <3>4, <3>5
  <2> QED BY <2>1, <2>2
<1>17. CASE ~(n = 0 \/ b = 0)
  <2>1. PICK lo, hi : /\ lo = (b - 1) * B
                      /\ hi = IF b = k \/ lo + B > n - 1 THEN n - 1 ELSE lo + B
    OBVIOUS
  <2>2. b \in 1..k
    BY <1>14, <1>17
  <2>3. lo \in 0..n - 1 /\ idx[b] = time[lo]
    BY <1>15, <2>1, <2>2
  <2>4. time[lo] < t
    BY <1>10, <1>14, <2>2, <2>3
  <2>5. hi \in 0..n - 1 /\ lo <= hi
    BY <2>1, <2>3
  <2>6. hi = n - 1 \/ time[hi] >= t
    <3>1. SUFFICES ASSUME b # k, ~(lo + B > n - 1) PROVE time[hi] >= t
      BY <2>1
    <3>2. b + 1 \in 1..k /\ idx[b + 1] >= t
      BY <1>14, <3>1
    <3>3. idx[b + 1] = time[((b + 1) - 1) * B]
      BY <1>15, <3>2
    <3>4. ((b + 1) - 1) * B = (b - 1) * B + B
      BY <2>2
    <3>5. hi = lo + B
      BY <2>1, <3>1
    <3> QED BY <2>1, <3>2, <3>3, <3>4, <3>5
  <2>7. SeekTime(h, f, t) = Scan(time, t, lo, hi, n)
    <3>1. {i \in lo..hi : Records(h, f)[i + 1].key[1] >= t} = {i \in lo..hi : time[i] >= t}
      <4>1. \A i \in lo..hi : i \in 0..n - 1
        BY <2>3, <2>5
      <4> QED BY <1>12, <4>1
    <3>2. SeekTime(h, f, t) =
            LET hits == {i \in lo..hi : Records(h, f)[i + 1].key[1] >= t}
            IN  IF hits = {} THEN n ELSE CHOOSE i \in hits : \A j \in hits : i <= j
      <4>1. SeekTime(h, f, t) =
              SeekIn(h.RecordCount, Len(TimeIndex(h, f)), Records(h, f),
                     searchTimeIndex(TimeIndex(h, f), t), t)
        BY Zenon DEF SeekTime, SeekIn
      <4>2. SeekTime(h, f, t) = SeekIn(n, k, Records(h, f), b, t)
        BY <1>5, <1>6, <1>13, <4>1, Zenon
      <4> QED BY <1>2, <1>17, <2>1, <4>2, Zenon DEF SeekIn
    <3> QED BY <3>1, <3>2, Zenon DEF Scan
  <2>8. \A i, j \in 0..n - 1 : i <= j => time[i] <= time[j]
    BY <1>11
  <2>9. /\ Scan(time, t, lo, hi, n) \in 0..n
        /\ \A i \in 0..n - 1 : i < Scan(time, t, lo, hi, n) <=> time[i] < t
    BY <1>10, <2>3, <2>4, <2>5, <2>6, <2>8, ScanFinds, Zenon
  <2> QED BY <2>7, <2>9, Zenon
<1> QED BY <1>16, <1>17

\* A sequence that rises from each entry to the next rises.
LEMMA Rising ==
  ASSUME NEW m \in Nat, NEW s, \A j \in 1..m : s[j] \in Nat,
         \A j \in 1..m : j > 1 => s[j - 1] < s[j],
         NEW p \in 1..m, NEW q \in 1..m, p < q
  PROVE  s[p] < s[q]
<1> DEFINE T == {x \in 1..m : p < x /\ ~(s[p] < s[x])}
<1>1. SUFFICES ASSUME T # {} PROVE FALSE
  OBVIOUS
<1>2. T \in SUBSET Nat
  OBVIOUS
<1>3. PICK x \in T : \A y \in T : x <= y
  BY <1>1, <1>2, LeastNumber
<1>4. x - 1 \in 1..m /\ x > 1 /\ s[x - 1] < s[x]
  BY <1>3
<1>5. x - 1 \notin T
  BY <1>3, <1>4
<1>6. s[p] \in Nat /\ s[x - 1] \in Nat /\ s[x] \in Nat
  BY <1>3, <1>4
<1>7. CASE x - 1 = p
  BY <1>3, <1>4, <1>7
<1>8. CASE x - 1 > p
  BY <1>3, <1>4, <1>5, <1>6, <1>8
<1> QED BY <1>3, <1>4, <1>7, <1>8

\* The snapshots up to record r.
SnapsTo(acc, r) == {i \in 0..Len(acc) - 1 : i <= r /\ acc[i + 1].rec.type = "snapshot"}

LEMMA SnapshotBeforeFinds ==
  ASSUME NEW v, NEW acc, Finished(v, acc), NEW bs, NEW f, NEW h, Layout(f, h, acc, v, bs),
         NEW r \in 0..Len(acc) - 1, NEW S, S = SnapsTo(acc, r)
  PROVE  IF S = {} THEN SnapshotBefore(h, f, r) = -1
         ELSE SnapshotBefore(h, f, r) \in S /\ \A i \in S : i <= SnapshotBefore(h, f, r)
<1>1. SnapshotsIndexed(v, acc) /\ IsSeq(acc)
  BY Zenon DEF Finished, Sorted
<1>2. PICK n \in Nat : n = Len(acc)
  BY <1>1, LenIs
<1> USE DEF SnapsTo
<1>3. PICK idx : idx = v.snapIndex
  OBVIOUS
<1>4. PICK m \in Nat : m = Len(idx)
  BY <1>1, <1>3, LenIs DEF SnapshotsIndexed
<1>5. SnapIndex(h, f) = idx
  BY <1>3, Zenon DEF Layout
<1>6. /\ \A j \in 1..m : /\ idx[j] \in 0..n - 1 /\ acc[idx[j] + 1].rec.type = "snapshot"
                         /\ j > 1 => idx[j - 1] < idx[j]
      /\ \A i \in 1..n : acc[i].rec.type = "snapshot" => \E j \in 1..m : idx[j] = i - 1
  BY <1>1, <1>2, <1>3, <1>4, Zenon DEF SnapshotsIndexed
<1>7. ASSUME NEW p \in 1..m, NEW q \in 1..m, p < q PROVE idx[p] < idx[q]
  <2>1. \A j \in 1..m : idx[j] \in Nat
    BY <1>6
  <2>2. \A j \in 1..m : j > 1 => idx[j - 1] < idx[j]
    BY <1>6, Zenon
  <2> QED BY <1>7, <2>1, <2>2, Rising, Zenon
<1>8. PICK b : b = searchSnapshotIndex(idx, r)
  OBVIOUS
<1>9. b \in 0..m /\ (b = m \/ idx[b + 1] > r) /\ \A i \in 1..b : ~(idx[i] > r)
  BY <1>4, <1>8, SnapshotSearch
<1>10. ASSUME NEW i \in S PROVE \E j \in 1..b : idx[j] = i
  <2>1. i \in 0..n - 1 /\ i <= r /\ acc[i + 1].rec.type = "snapshot" /\ i + 1 \in 1..n
    BY <1>2
  <2>2. PICK j \in 1..m : idx[j] = (i + 1) - 1
    BY <1>6, <2>1
  <2>3. idx[j] = i
    BY <2>1, <2>2
  <2>4. ASSUME j > b PROVE FALSE
    <3>1. b + 1 \in 1..m /\ idx[b + 1] > r
      BY <1>9, <2>4
    <3>2. b + 1 = j \/ idx[b + 1] < idx[j]
      <4>1. b + 1 = j \/ b + 1 < j
        BY <1>9, <2>4
      <4> QED BY <1>7, <3>1, <4>1
    <3>3. idx[b + 1] \in Nat /\ r \in Nat
      BY <1>2, <1>6, <3>1
    <3> QED BY <2>1, <2>3, <3>1, <3>2, <3>3
  <2> QED BY <1>9, <2>3, <2>4
<1>11. CASE b = 0
  <2>1. S = {}
    BY <1>10, <1>11
  <2>2. SnapshotBefore(h, f, r) = -1
    BY <1>5, <1>8, <1>11 DEF SnapshotBefore
  <2> QED BY <2>1, <2>2
<1>12. CASE b # 0
  <2>1. b \in 1..m /\ SnapshotBefore(h, f, r) = idx[b]
    BY <1>5, <1>8, <1>9, <1>12 DEF SnapshotBefore
  <2>2. idx[b] \in 0..n - 1 /\ acc[idx[b] + 1].rec.type = "snapshot" /\ ~(idx[b] > r)
    BY <1>6, <1>9, <2>1
  <2>3. idx[b] \in S
    BY <1>2, <2>2
  <2>4. ASSUME NEW i \in S PROVE i <= idx[b]
    <3>1. PICK j \in 1..b : idx[j] = i
      BY <1>10
    <3>2. j = b \/ idx[j] < idx[b]
      BY <1>7, <2>1, <3>1
    <3> QED BY <1>2, <2>2, <3>1, <3>2
  <2> QED BY <2>1, <2>3, <2>4
<1> QED BY <1>11, <1>12

LEMMA InvSeeks ==
  ASSUME StoreInv
  PROVE  SeeksAreExact
<1> SUFFICES ASSUME Exists(file), Opens(file) PROVE SeeksAreExact
  BY DEF SeeksAreExact
<1>1. PICK f, acc, h : f = file /\ acc = accepted /\ h = file.cells[1]
  OBVIOUS
<1>2. PICK v, bs : Complete(v, bs, f.cells, acc)
  <2>1. file.fin = 1
    BY DEF Opens, validateHeader
  <2>2. Whole(file.cells, accepted)
    BY <2>1 DEF StoreInv, Durable
  <2> QED BY <1>1, <2>2, Zenon DEF Whole
<1>3. Finished(v, acc)
  BY <1>2, Zenon DEF Complete
<1>4. Layout(f, h, acc, v, bs)
  BY <1>1, <1>2, WholeRead, Zenon
<1>5. PICK n \in Nat : n = Len(acc)
  BY <1>3, LenIs DEF Finished, Sorted
<1>6. h.RecordCount = n /\ h.RecordCount = Len(acc)
  BY <1>4, <1>5, Zenon DEF Layout
<1>7. ASSUME NEW t \in 0..(1 + h.Max)
      PROVE  /\ \A i \in 0..n - 1 : i < SeekTime(h, f, t) <=> acc[i + 1].rec.key[1] < t
             /\ SeekTime(h, f, t) \in 0..n
  <2>1. t \in Nat
    OBVIOUS
  <2> QED BY <1>3, <1>4, <1>5, <2>1, SeekTimeFinds
<1>8. ASSUME NEW r \in 0..n - 1
      PROVE  LET S == {i \in 0..n - 1 : i <= r /\ acc[i + 1].rec.type = "snapshot"}
                 s == SnapshotBefore(h, f, r)
             IN  IF S = {} THEN s = -1 ELSE s \in S /\ \A i \in S : i <= s
  <2>1. PICK S : S = {i \in 0..n - 1 : i <= r /\ acc[i + 1].rec.type = "snapshot"}
    OBVIOUS
  <2>2. r \in 0..Len(acc) - 1
    BY <1>5
  <2>3. S = SnapsTo(acc, r)
    BY <1>5, <2>1 DEF SnapsTo
  <2>4. IF S = {} THEN SnapshotBefore(h, f, r) = -1
        ELSE SnapshotBefore(h, f, r) \in S /\ \A i \in S : i <= SnapshotBefore(h, f, r)
    BY <1>3, <1>4, <2>2, <2>3, SnapshotBeforeFinds, Zenon
  <2> QED BY <2>1, <2>4, Zenon
<1> QED BY <1>1, <1>6, <1>7, <1>8, Zenon DEF SeeksAreExact

\* In a file that opens SeekTime and SnapshotBefore are exact, for every block size,
\* however many records share a timestamp across the boundary of a block and wherever
\* the snapshots lie: the binary searches over the indexes and the scan of one block.
THEOREM SeeksExact == Spec => []SeeksAreExact
<1>1. Init => StoreInv
  BY StoreInit
<1>2. StoreInv /\ [Next]_vars => StoreInv'
  BY StoreStep
<1>3. StoreInv => SeeksAreExact
  BY InvSeeks
<1> QED BY <1>1, <1>2, <1>3, PTL DEF Spec

=============================================================================
