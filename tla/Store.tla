-------------------------------- MODULE Store --------------------------------
(***************************************************************************)
(* internal/store: one hot-tier file, from NewWriter to Reader.            *)
(*                                                                         *)
(* A file is a sequence of cells: the header, a record, a blob's counts or *)
(* one of its levels, an index or footer entry are one cell each, so every *)
(* size constant of the format is 1.  A checksum is modelled as the cells  *)
(* it covers.  The finalized byte is apart, the header's checksum does not *)
(* cover it.  A file has a durable image beside the one in the page cache; *)
(* a power loss keeps an arbitrary mixture of the two, and keeps or        *)
(* forgets the directory entry, which nothing syncs.                       *)
(***************************************************************************)
EXTENDS Integers, Sequences, FiniteSets

CONSTANTS
  Keys,             \* the ordering keys offered, <<exchange_ts, sequence_number>>
  Levels,           \* the snapshots offered, [bids, asks]
  MaxLevels,        \* ^uint16(0)
  MaxRecordCount,   \* maxRecordCount
  BlockSizeRecords, \* writerOptions.blockSizeRecords
  BufCells,         \* writerBufSize
  MaxWrites,        \* bound on the records offered, over all writers
  MaxLives,         \* bound on the calls of NewWriter
  MaxFaults,        \* bound on the operations of the file system that fail
  MaxCrashes        \* bound on crashes

ASSUME StoreAssumption ==
  /\ Keys \subseteq Nat \X Nat
  /\ \A l \in Levels : l \in [bids : Seq(Nat), asks : Seq(Nat)]
  /\ MaxLevels \in Nat /\ MaxRecordCount \in Nat
  /\ BlockSizeRecords \in Nat \ {0} /\ BufCells \in Nat \ {0}
  /\ {MaxWrites, MaxLives, MaxFaults, MaxCrashes} \subseteq Nat

VARIABLES
  file,     \* the file at path: [cells, fin, durCells, durFin], NoFile when absent
  side,     \* the blob sidecar, [cells], NoFile when absent
  w,        \* the Writer, NoWriter before the first one and after a crash
  accepted, \* what the writer of the file at path accepted, [rec, levels]
  closed,   \* Close returned nil for the file at path
  stuck,    \* which of the two files a removal failed on
  lives, writes, faults, crashes

counters == <<lives, writes, faults, crashes>>
vars == <<file, side, w, accepted, closed, stuck, counters>>

NoFile == [absent |-> TRUE]
NoWriter == [state |-> "none"]
NoLevels == [bids |-> <<>>, asks |-> <<>>]
Exists(f) == f # NoFile

\* What a lost write leaves in place of a cell: zeros, or bytes of no meaning.
Zero == [hole |-> "zero"]
Junk == [hole |-> "junk"]

------------------------------------------------------------------------------
(* Records and blobs *)

\* compareKey(a, b) < 0; venue and instrument are the same throughout.
KeyBefore(a, b) == a[1] < b[1] \/ (a[1] = b[1] /\ a[2] < b[2])

Delta(key, value) ==
  [key |-> key, type |-> "delta", value |-> value, off |-> 0, len |-> 0, count |-> 0]

Encode(l) ==
  <<[crc |-> l, bids |-> Len(l.bids), asks |-> Len(l.asks)]>>
    \o [i \in DOMAIN (l.bids \o l.asks) |-> [level |-> (l.bids \o l.asks)[i]]]

\* value stands for price, size and side_flags, 0 when all of them are.
validateRecord(rec) ==
  /\ rec.type \in {"delta", "snapshot"}
  /\ rec.type = "delta" => rec.off = 0 /\ rec.len = 0 /\ rec.count = 0
  /\ rec.type = "snapshot" =>
       rec.value = 0 /\ rec.len >= 1 /\ rec.count = rec.len - 1

\* DecodeRecordFields: zeros read as a valid delta of time 0.
decodeRecord(cell) == IF cell = Zero THEN Delta(<<0, 0>>, 0) ELSE cell

blockCountFor(n) == (n + BlockSizeRecords - 1) \div BlockSizeRecords

------------------------------------------------------------------------------
(* The writer *)

Writer ==
  [state |-> "open", step |-> "none", buf |-> <<Zero>>, failed |-> FALSE,
   blob |-> "none", blobBuf |-> <<>>, blobFailed |-> FALSE, blobLen |-> 0,
   pos |-> 1, recCount |-> 0, lastKey |-> <<>>, timeIndex |-> <<>>,
   snapIndex |-> <<>>, footer |-> <<>>, block |-> <<>>, hdr |-> [min |-> 0, max |-> 0, blobs |-> 0]]

Empty == [cells |-> <<>>, fin |-> 0, durCells |-> <<>>, durFin |-> 0]

Init ==
  /\ file = NoFile /\ side = NoFile /\ w = NoWriter
  /\ accepted = <<>> /\ closed = FALSE /\ stuck = {}
  /\ lives = 0 /\ writes = 0 /\ faults = 0 /\ crashes = 0

Fault == faults < MaxFaults /\ faults' = faults + 1
Extend(f, cells) == [f EXCEPT !.cells = @ \o cells]

\* newWriter.  O_EXCL: an existing file is refused and nothing changes.  The
\* options it validates first are constants here.  When the reservation of the
\* header fails the file is discarded, which leaves it only if that fails too.
NewWriter ==
  /\ w.state # "open" /\ ~Exists(file) /\ lives < MaxLives
  /\ lives' = lives + 1 /\ file' = Empty
  /\ accepted' = <<>> /\ closed' = FALSE
  /\ \/ w' = Writer /\ stuck' = {} /\ UNCHANGED faults
     \/ w' = NoWriter /\ stuck' = {"file"} /\ faults + 2 <= MaxFaults /\ faults' = faults + 2
  /\ UNCHANGED <<side, writes, crashes>>

\* append's conditions, in the order of its early returns.
Appends(rec) ==
  /\ validateRecord(rec)
  /\ w.recCount > 0 => KeyBefore(w.lastKey, rec.key)
  /\ w.recCount < MaxRecordCount

\* The record goes to the block in progress; a full one is first entered in the
\* footer, and the record that starts a block gives the time index its entry.
Entered(v, rec) ==
  LET starts == v.recCount % BlockSizeRecords = 0
  IN  [v EXCEPT
        !.footer = IF starts /\ v.recCount > 0
                   THEN Append(@, [start |-> v.recCount - BlockSizeRecords, blockCRC |-> v.block])
                   ELSE @,
        !.block = IF starts THEN <<>> ELSE @,
        !.timeIndex = IF starts THEN Append(@, rec.key[1]) ELSE @]

\* bw.Write: a full buffer goes to the file first.  When that fails the buffer
\* keeps the error and every later write and flush returns it; the record is not
\* counted but the block it started has been entered.
Buffered(v, rec) ==
  [v EXCEPT !.buf = IF Len(@) = BufCells THEN <<rec>> ELSE Append(@, rec),
            !.block = Append(@, rec),
            !.snapIndex = IF rec.type = "snapshot" THEN Append(@, v.recCount) ELSE @,
            !.hdr.min = IF v.recCount = 0 THEN rec.key[1] ELSE @, !.hdr.max = rec.key[1],
            !.pos = @ + 1, !.recCount = @ + 1, !.lastKey = rec.key]
Spilled(f, buf) == IF Len(buf) = BufCells THEN Extend(f, buf) ELSE f

Called == w.state = "open" /\ w.step = "none" /\ writes < MaxWrites /\ writes' = writes + 1

\* WriteRecord; a record it refuses changes nothing and is not a step.
WriteRecord(key) ==
  LET rec == Delta(key, 1) IN
  /\ Called /\ Appends(rec)
  /\ \/ /\ ~w.failed
        /\ w' = Buffered(Entered(w, rec), rec)
        /\ file' = Spilled(file, w.buf)
        /\ accepted' = Append(accepted, [rec |-> rec, levels |-> NoLevels])
        /\ UNCHANGED faults
     \/ /\ w.failed \/ Len(w.buf) = BufCells
        /\ w' = [Entered(w, rec) EXCEPT !.failed = TRUE]
        /\ IF w.failed THEN UNCHANGED faults ELSE Fault
        /\ UNCHANGED <<file, accepted>>
  /\ UNCHANGED <<side, closed, stuck, lives, crashes>>

\* openBlobFile: O_TRUNC, a sidecar an earlier writer left is emptied.
openBlobFile == IF w.blob = "none" THEN [cells |-> <<>>] ELSE side

\* WriteSnapshot: the sidecar is opened, the record appended, then the blob
\* written.  Either buffer may fail; when only the blob's does, the record is in
\* the file with no blob, and the error stays in the sidecar's buffer.
WriteSnapshot(key, l) ==
  LET blob == Encode(l)
      rec == [key |-> key, type |-> "snapshot", value |-> 0, off |-> w.blobLen,
              len |-> Len(blob), count |-> Len(blob) - 1]
      opened == [w EXCEPT !.blob = "open"]
      full == Len(w.blobBuf) + Len(blob) > BufCells
  IN
  /\ Called /\ Len(l.bids) + Len(l.asks) <= MaxLevels
  /\ \/ /\ ~Appends(rec) /\ w.blob = "none"
        /\ w' = opened /\ side' = openBlobFile
        /\ UNCHANGED <<file, accepted, faults>>
     \/ /\ Appends(rec) /\ (w.failed \/ Len(w.buf) = BufCells)
        /\ w' = [Entered(opened, rec) EXCEPT !.failed = TRUE]
        /\ side' = openBlobFile
        /\ IF w.failed THEN UNCHANGED faults ELSE Fault
        /\ UNCHANGED <<file, accepted>>
     \/ /\ Appends(rec) /\ ~w.failed
        /\ file' = Spilled(file, w.buf)
        /\ LET v == Buffered(Entered(opened, rec), rec) IN
           \/ /\ ~w.blobFailed
              /\ side' = IF full THEN Extend(openBlobFile, w.blobBuf) ELSE openBlobFile
              /\ w' = [v EXCEPT !.blobBuf = IF full THEN blob ELSE @ \o blob,
                                !.blobLen = @ + Len(blob)]
              /\ accepted' = Append(accepted, [rec |-> rec, levels |-> l])
              /\ UNCHANGED faults
           \/ /\ w.blobFailed \/ full
              /\ w' = [v EXCEPT !.blobFailed = TRUE]
              /\ side' = openBlobFile
              /\ IF w.blobFailed THEN UNCHANGED faults ELSE Fault
              /\ UNCHANGED accepted
  /\ UNCHANGED <<closed, stuck, lives, crashes>>

At(step) == w.state = "open" /\ w.step = step
Goto(v, step) == [v EXCEPT !.step = step]
Finishing == w.state = "open" /\ w.step # "none"

\* Close is called: finish enters the last block and flushes the records.
Close ==
  /\ At("none")
  /\ w' = Goto([w EXCEPT !.footer =
             IF Len(@) < blockCountFor(w.recCount)
             THEN Append(@, [start |-> Len(@) * BlockSizeRecords, blockCRC |-> w.block])
             ELSE @], "flush")
  /\ UNCHANGED <<file, side, accepted, closed, stuck, counters>>

Flush ==
  /\ At("flush") /\ ~w.failed
  /\ file' = Extend(file, w.buf)
  /\ w' = Goto([w EXCEPT !.buf = <<>>], "blobs")
  /\ UNCHANGED <<side, accepted, closed, stuck, counters>>

copyBlobRegion ==
  /\ At("blobs") /\ ~w.blobFailed
  /\ side' = IF w.blob = "none" THEN side ELSE Extend(side, w.blobBuf)
  /\ file' = IF w.blob = "none" THEN file ELSE Extend(file, side'.cells)
  /\ w' = Goto([w EXCEPT !.blobBuf = <<>>,
                         !.hdr.blobs = w.pos, !.pos = @ + w.blobLen],
                "trailer")
  /\ UNCHANGED <<accepted, closed, stuck, counters>>

Trailer(v) ==
  [i \in DOMAIN v.timeIndex |-> [entry |-> v.timeIndex[i]]]
    \o [i \in DOMAIN v.snapIndex |-> [entry |-> v.snapIndex[i]]] \o v.footer

WriteTrailer ==
  /\ At("trailer")
  /\ file' = Extend(file, Trailer(w))
  /\ w' = Goto([w EXCEPT !.pos = @ + Len(Trailer(w))], "header")
  /\ UNCHANGED <<side, accepted, closed, stuck, counters>>

\* encodeHeader of the fields finish has filled in, with the finalized byte clear.
Header(v) ==
  LET time == v.pos - Len(Trailer(v))
      snap == time + Len(v.timeIndex)
  IN  [RecordCount |-> v.recCount, Min |-> v.hdr.min, Max |-> v.hdr.max,
       BlobOffset |-> v.hdr.blobs, BlobLen |-> v.blobLen,
       TimeOffset |-> time, TimeCount |-> Len(v.timeIndex),
       SnapOffset |-> snap, SnapCount |-> Len(v.snapIndex),
       FooterOffset |-> snap + Len(v.snapIndex), TrailerCRC |-> Trailer(v)]

WriteHeader ==
  /\ At("header")
  /\ file' = [file EXCEPT !.cells[1] = Header(w), !.fin = 0]
  /\ w' = Goto(w, "sync")
  /\ UNCHANGED <<side, accepted, closed, stuck, counters>>

Synced == [file EXCEPT !.durCells = file.cells, !.durFin = file.fin]

\* The first fsync forgotten: one at the end has to do for both.
SyncSkipped ==
  /\ At("sync")
  /\ w' = Goto(w, "finalize")
  /\ UNCHANGED <<file, side, accepted, closed, stuck, counters>>

Sync ==
  /\ At("sync")
  /\ file' = Synced
  /\ w' = Goto(w, "finalize")
  /\ UNCHANGED <<side, accepted, closed, stuck, counters>>

Finalize ==
  /\ At("finalize")
  /\ file' = [file EXCEPT !.fin = 1]
  /\ w' = Goto(w, "resync")
  /\ UNCHANGED <<side, accepted, closed, stuck, counters>>

\* The second fsync forgotten.
SyncAgainSkipped ==
  /\ At("resync")
  /\ w' = Goto(w, "close")
  /\ UNCHANGED <<file, side, accepted, closed, stuck, counters>>

SyncAgain ==
  /\ At("resync")
  /\ file' = Synced
  /\ w' = Goto(w, "close")
  /\ UNCHANGED <<side, accepted, closed, stuck, counters>>

\* closeFiles as the last step of finish, with nothing failing.
CloseFiles ==
  /\ At("close")
  /\ side' = IF w.blob = "open" THEN NoFile ELSE side
  /\ w' = [w EXCEPT !.state = "closed", !.blob = IF @ = "open" THEN "closed" ELSE @]
  /\ closed' = TRUE
  /\ UNCHANGED <<file, accepted, stuck, counters>>

\* discard that returns as soon as closeFiles reports an error.
DiscardStopsAtError(kept) ==
  /\ kept \subseteq {"file"} \cup (IF w.blob = "open" THEN {"side"} ELSE {})
  /\ file' = IF kept # {} THEN file ELSE NoFile
  /\ side' = IF w.blob = "open" /\ "side" \notin kept THEN NoFile ELSE side
  /\ stuck' = stuck \cup kept
  /\ w' = [w EXCEPT !.state = "aborted", !.blob = IF @ = "open" THEN "closed" ELSE @]

\* discard: both handles are closed, then what can be removed is: kept holds the
\* names whose removal fails.
Discard(kept) ==
  /\ kept \subseteq {"file"} \cup (IF w.blob = "open" THEN {"side"} ELSE {})
  /\ file' = IF "file" \in kept THEN file ELSE NoFile
  /\ side' = IF w.blob = "open" /\ "side" \notin kept THEN NoFile ELSE side
  /\ stuck' = IF "file" \in kept THEN stuck \cup kept ELSE (stuck \cup kept) \ {"file"}
  /\ w' = [w EXCEPT !.state = "aborted", !.blob = IF @ = "open" THEN "closed" ELSE @]

\* Any step of finish fails: Close discards the file and reports the error.  The
\* flush of a buffer that holds an error always does.
CloseFails(kept) ==
  /\ Finishing /\ w.step # "none"
  /\ LET sticky == (w.step = "flush" /\ w.failed) \/ (w.step = "blobs" /\ w.blobFailed)
         cost == Cardinality(kept) + IF sticky THEN 0 ELSE 1
     IN  faults + cost <= MaxFaults /\ faults' = faults + cost
  /\ Discard(kept)
  /\ UNCHANGED <<accepted, closed, lives, writes, crashes>>

\* Abort: nothing after a Close that succeeded.
Abort(kept) ==
  /\ w.state \in {"open", "aborted"} /\ (w.state = "open" => w.step = "none")
  /\ faults + Cardinality(kept) <= MaxFaults /\ faults' = faults + Cardinality(kept)
  /\ Exists(file) /\ Discard(kept)
  /\ UNCHANGED <<accepted, closed, lives, writes, crashes>>

------------------------------------------------------------------------------
(* Crashes *)

\* What a power loss can leave of a file: any length from the durable one to the
\* cached one, and one of the cells that were not durable lost on top.
Survivors(f) ==
  LET old(i) == IF i <= Len(f.durCells) THEN f.durCells[i] ELSE Zero
      dirty == {i \in DOMAIN f.cells : f.cells[i] # old(i)}
      cut == {SubSeq(f.cells, 1, n) : n \in Len(f.durCells) .. Len(f.cells)}
      lost == {[f.cells EXCEPT ![i] = c] : i \in dirty, c \in {Zero, Junk}}
              \cup {[f.cells EXCEPT ![i] = old(i)] : i \in dirty}
  IN  {[cells |-> c, fin |-> b, durCells |-> c, durFin |-> b] :
         c \in cut \cup lost, b \in {f.fin, f.durFin}}

\* The process dies: what it had handed to the system stays.
ProcessCrash ==
  /\ crashes < MaxCrashes /\ crashes' = crashes + 1
  /\ w.state = "open"
  /\ w' = NoWriter
  /\ UNCHANGED <<file, side, accepted, closed, stuck, lives, writes, faults>>

\* The machine dies: neither the file's data nor its name need have reached the disk.
PowerLoss ==
  /\ crashes < MaxCrashes /\ crashes' = crashes + 1
  /\ Exists(file) /\ w' = NoWriter
  /\ \/ file' \in Survivors(file) /\ UNCHANGED <<closed, stuck>>
     \/ file' = NoFile /\ closed' = FALSE /\ stuck' = stuck \ {"file"}
  /\ side' \in {NoFile, side}
  /\ UNCHANGED <<accepted, lives, writes, faults>>

------------------------------------------------------------------------------
(* The reader.  It works on an image f of the file; a record cell of no meaning *)
(* may decode as anything and is let through wherever no checksum is tested.    *)

Count(h) == blockCountFor(h.RecordCount)

\* decodeHeader: magic and checksum; neither zeros nor a torn header pass.
decodeHeader(f) == Len(f.cells) >= 1 /\ f.cells[1] \notin {Zero, Junk}

\* validateHeader: the finalized byte, the counts, and a chain of regions that
\* leaves no gap and ends with the file.
validateHeader(h, f) ==
  /\ f.fin = 1
  /\ h.RecordCount <= MaxRecordCount
  /\ h.TimeCount = Count(h) /\ h.SnapCount <= h.RecordCount
  /\ h.BlobOffset = 1 + h.RecordCount
  /\ h.TimeOffset = h.BlobOffset + h.BlobLen
  /\ h.SnapOffset = h.TimeOffset + h.TimeCount
  /\ h.FooterOffset = h.SnapOffset + h.SnapCount
  /\ Len(f.cells) = h.FooterOffset + Count(h)

Region(f, offset, n) == SubSeq(f.cells, offset + 1, offset + n)
Entries(cells) == [i \in DOMAIN cells |-> cells[i].entry]
Records(h, f) == Region(f, 1, h.RecordCount)
TimeIndex(h, f) == Entries(Region(f, h.TimeOffset, h.TimeCount))
SnapIndex(h, f) == Entries(Region(f, h.SnapOffset, h.SnapCount))
Footer(h, f) == Region(f, h.FooterOffset, Count(h))

decodeIndexes(h, f) ==
  LET time == TimeIndex(h, f)
      snap == SnapIndex(h, f)
      footer == Footer(h, f)
  IN  /\ \A i \in 2 .. Len(time) : time[i - 1] <= time[i]
      /\ \A i \in DOMAIN snap : snap[i] < h.RecordCount /\ (i > 1 => snap[i - 1] < snap[i])
      /\ \A i \in DOMAIN footer : footer[i].start = (i - 1) * BlockSizeRecords

checkTimestampRange(h, f) ==
  LET time(i) == decodeRecord(Records(h, f)[i]).key[1]
      known(i) == Records(h, f)[i] # Junk
  IN  IF h.RecordCount = 0 THEN h.Min = 0 /\ h.Max = 0
      ELSE /\ known(1) => time(1) = h.Min
           /\ known(h.RecordCount) => time(h.RecordCount) = h.Max

\* Open returns a Reader.
Opens(f) ==
  /\ decodeHeader(f)
  /\ LET h == f.cells[1] IN
     /\ validateHeader(h, f)
     /\ Region(f, h.TimeOffset, Len(f.cells) - h.TimeOffset) = h.TrailerCRC
     /\ decodeIndexes(h, f)
     /\ checkTimestampRange(h, f)

\* The records of block b, 0 the first; the last one may be short.
blockRecordBytes(h, f, b) ==
  LET end == (b + 1) * BlockSizeRecords
  IN  SubSeq(Records(h, f), b * BlockSizeRecords + 1,
             IF end > h.RecordCount THEN h.RecordCount ELSE end)

verifyBlock(h, f, b) == blockRecordBytes(h, f, b) = Footer(h, f)[b + 1].blockCRC

\* A blob's cells in the blob region, and the levels AppendLevels makes of them.
BlobCells(h, f, rec) == Region(f, h.BlobOffset + rec.off, rec.len)
AppendLevels(cells) ==
  LET all == [i \in 1 .. (Len(cells) - 1) |-> cells[i + 1].level]
  IN  [bids |-> SubSeq(all, 1, cells[1].bids), asks |-> SubSeq(all, cells[1].bids + 1, Len(all))]

\* Blob: the pointer is consistent, in the region, and its checksum holds.
Blob(h, f, rec) ==
  LET cells == BlobCells(h, f, rec) IN
  /\ rec \notin {Zero, Junk} /\ validateRecord(rec) /\ rec.type = "snapshot"
  /\ rec.off <= h.BlobLen /\ rec.len <= h.BlobLen - rec.off
  /\ DOMAIN cells[1] = {"crc", "bids", "asks"}
  /\ \A i \in 2 .. Len(cells) : DOMAIN cells[i] = {"level"}
  /\ cells[1].bids + cells[1].asks = rec.count
  /\ AppendLevels(cells) = cells[1].crc

VerifyAll(f) ==
  LET h == f.cells[1] IN
  /\ \A b \in 0 .. (Count(h) - 1) : verifyBlock(h, f, b)
  /\ \A i \in DOMAIN SnapIndex(h, f) : Blob(h, f, Records(h, f)[SnapIndex(h, f)[i] + 1])

\* sort.Search: the number of leading entries for which the test is false.
FirstAt(n, Test(_)) == CHOOSE j \in 0 .. n : (j = n \/ Test(j + 1)) /\ \A i \in 1 .. j : ~Test(i)

\* The block whose first record is the last one at or before t.
searchTimeIndexLast(idx, t) == LET Late(i) == idx[i] > t IN FirstAt(Len(idx), Late)

\* The first entry at or after t, the first one past record n.
searchTimeIndex(idx, t) == LET Late(i) == idx[i] >= t IN FirstAt(Len(idx), Late)
searchSnapshotIndex(idx, n) == LET Past(i) == idx[i] > n IN FirstAt(Len(idx), Past)

\* SeekTime: the scan covers the block before the entry found, and one record more.
SeekTime(h, f, t) ==
  LET n == h.RecordCount
      idx == TimeIndex(h, f)
      b == searchTimeIndex(idx, t)
      lo == (b - 1) * BlockSizeRecords
      end == lo + BlockSizeRecords
      hi == IF b = Len(idx) \/ end > n - 1 THEN n - 1 ELSE end
      hits == {i \in lo .. hi : Records(h, f)[i + 1].key[1] >= t}
  IN  IF n = 0 \/ b = 0 THEN 0
      ELSE IF hits = {} THEN n ELSE CHOOSE i \in hits : \A j \in hits : i <= j

\* SnapshotBefore, -1 when there is none.
SnapshotBefore(h, f, i) ==
  LET n == searchSnapshotIndex(SnapIndex(h, f), i)
  IN  IF n = 0 THEN -1 ELSE SnapIndex(h, f)[n]

------------------------------------------------------------------------------
Next ==
  \/ NewWriter
  \/ \E key \in Keys : WriteRecord(key)
  \/ \E key \in Keys, l \in Levels : WriteSnapshot(key, l)
  \/ Close \/ Flush \/ copyBlobRegion \/ WriteTrailer \/ WriteHeader
  \/ Sync \/ Finalize \/ SyncAgain \/ CloseFiles
  \/ \E kept \in SUBSET {"file", "side"} : CloseFails(kept) \/ Abort(kept)
  \/ ProcessCrash \/ PowerLoss

Spec == Init /\ [][Next]_vars

------------------------------------------------------------------------------
(* What is checked *)

Steps == {"none", "flush", "blobs", "trailer", "header", "sync", "finalize", "resync", "close"}

\* The bookkeeping of the writer agrees with itself: the footer and the time index
\* follow the block arithmetic, pos is where the next cell goes, and every index
\* and blob offset stays inside what was accepted (Writer's fields).
TypeOK ==
  /\ stuck \subseteq {"file", "side"}
  /\ w.state \in {"none", "open", "closed", "aborted"}
  /\ Exists(file) => file.fin \in 0 .. 1 /\ file.durFin \in 0 .. 1
  /\ w.state # "none" =>
       /\ w.step \in Steps /\ w.blob \in {"none", "open", "closed"}
       /\ w.recCount \in 0 .. MaxRecordCount
       /\ ~w.failed => /\ Len(w.timeIndex) = blockCountFor(w.recCount)
                       /\ Len(w.footer) \in {Len(w.timeIndex), Len(w.timeIndex) - 1, 0}
       /\ w.state = "open" /\ ~w.failed /\ ~w.blobFailed =>
            Len(file.cells) + Len(w.buf) = w.pos

\* Whatever image of the file a reader finds - while the writer is at work, after
\* either kind of crash, after a failed Close whose removal failed as well - Open
\* accepts it only if it is whole: the records are exactly the accepted ones in
\* order, every block and blob verifies and every snapshot has its levels
\* (Writer.finish, Reader.Open, the integrity chain).
OpensOnlyWhole ==
  Exists(file) /\ Opens(file) =>
    LET h == file.cells[1] IN
    /\ h.RecordCount = Len(accepted)
    /\ \A i \in 1 .. h.RecordCount : Records(h, file)[i] = accepted[i].rec
    /\ VerifyAll(file)
    /\ \A i \in 1 .. h.RecordCount : accepted[i].rec.type = "snapshot" =>
         AppendLevels(BlobCells(h, file, accepted[i].rec)) = accepted[i].levels

\* Once Close has returned nil the file is there and opens, whatever the writer is
\* asked to do next and whichever crash follows; only its name can be lost
\* (the second fsync, Abort after Close).
ClosedFileOpens == closed => Exists(file) /\ Opens(file)

\* A writer that has ended leaves nothing but what it could not remove: no partial
\* file after an abort or a failed Close, and no sidecar it opened itself
\* (discard, closeFiles).
NothingIsLeftBehind ==
  /\ w.state = "aborted" /\ Exists(file) => "file" \in stuck
  /\ w.state \in {"closed", "aborted"} /\ Exists(side) => "side" \in stuck \/ w.blob = "none"

\* In a file that opens, SeekTime finds the first record at or after any time and
\* SnapshotBefore the last snapshot at or before any record, runs of equal
\* timestamps across a block boundary included (SeekTime, searchTimeIndex).
SeeksAreExact ==
  Exists(file) /\ Opens(file) =>
    LET h == file.cells[1]
        n == h.RecordCount
        time(i) == accepted[i + 1].rec.key[1]
        snaps(k) == {i \in 0 .. (n - 1) : i <= k /\ accepted[i + 1].rec.type = "snapshot"}
    IN  /\ \A t \in 0 .. (1 + h.Max) :
             LET s == SeekTime(h, file, t) IN
             /\ \A i \in 0 .. (n - 1) : i < s <=> time(i) < t
             /\ s \in 0 .. n
        /\ \A k \in 0 .. (n - 1) :
             LET s == SnapshotBefore(h, file, k) IN
             IF snaps(k) = {} THEN s = -1
             ELSE s \in snaps(k) /\ \A i \in snaps(k) : i <= s

==============================================================================
