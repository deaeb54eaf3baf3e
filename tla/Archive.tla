------------------------------- MODULE Archive -------------------------------
(***************************************************************************)
(* cmd/convert and internal/book: the converter that writes the hot-tier   *)
(* files with their snapshot epochs, and the warm-up that reads them.      *)
(*                                                                         *)
(* The store's writer and reader are used as module Store shows them: a    *)
(* file is the sequence of records appended to it, readable once its       *)
(* writer closed, and a snapshot pointer stands for itself and its blob.   *)
(* A partition key, the file name made of it and the path are one value,   *)
(* <<venue, day>>.  A digest is modelled as the content it was taken of.   *)
(***************************************************************************)
EXTENDS Integers, Sequences, FiniteSets, SequencesExt

CONSTANTS
  Rows,        \* the source rows offered, as the Parquet schema types them
  NanosPerDay, \* nanosPerDay
  EpochEvery,  \* Options.EpochEvery
  MaxVenue,    \* math.MaxUint16
  MaxSeq,      \* the greatest uint64
  MaxRows,     \* bound on the rows a first conversion reads
  MaxRerun,    \* bound on the rows of all conversions together, when there are several
  MaxRuns,     \* bound on the conversions into the one directory
  MaxFaults,   \* bound on the operations of the file system that fail
  MaxCrashes   \* bound on the crashes of the converter

ASSUME ArchiveAssumption ==
  /\ IsFiniteSet(Rows)
  /\ \A r \in Rows :
       /\ r.ts \in Int /\ r.seq \in 0..MaxSeq /\ r.venue \in Nat
       /\ r.instrument \in Nat /\ r.side \in Nat /\ r.price \in Int
       /\ r.levels \in Seq([side : Nat, price : Int, size : Int])
  /\ NanosPerDay \in Nat \ {0} /\ EpochEvery \in Nat \ {0}
  /\ {MaxVenue, MaxSeq, MaxRows, MaxRerun, MaxRuns, MaxFaults, MaxCrashes} \subseteq Nat

VARIABLES
  pc,     \* where Convert is; "idle" before the first and between two
  parts,  \* converter.parts: what each open file was given
  closed, \* the keys in parts whose writer closed
  venues, \* converter.venues
  dir,    \* the data files in outDir, [whole, recs]
  hash,   \* the hash sidecars in outDir, [whole, of]
  created, \* the files the conversion created, kept after its end
  stuck,  \* the files a removal failed on
  nRows, runs, faults, crashes

counters == <<nRows, runs, faults, crashes>>
vars == <<pc, parts, closed, venues, dir, hash, created, stuck, counters>>

Delta == 0
Trade == 1
SnapshotPointer == 2
SideBid == 0
SideAsk == 1
Empty == [x \in {} |-> {}]
Without(f, k) == [x \in DOMAIN f \ {k} |-> f[x]]
With(f, k, v) == [x \in DOMAIN f \cup {k} |-> IF x = k THEN v ELSE f[x]]

------------------------------------------------------------------------------
(* internal/book: a side is its levels [price, size] in ascending price *)

\* The place of price in s (the first not below it), by halving lo .. hi.
search(s, price) ==
  LET places == 1..Len(s) + 1
      at[r \in places \X places] ==
        LET lo == r[1] hi == r[2] mid == (lo + hi) \div 2 IN
        IF lo >= hi THEN lo
        ELSE IF s[mid].price < price THEN at[<<mid + 1, hi>>] ELSE at[<<lo, mid>>]
  IN  at[<<1, Len(s) + 1>>]

Found(s, price) ==
  LET i == search(s, price) IN i <= Len(s) /\ s[i].price = price

\* ErrLevelNotFound when it does not hold.
CanUpsert(s, level) == level.size # 0 \/ Found(s, level.price)

upsert(s, level) ==
  LET i == search(s, level.price) IN
  IF level.size = 0 THEN RemoveAt(s, i)
  ELSE IF Found(s, level.price) THEN ReplaceAt(s, i, level)
  ELSE InsertAt(s, i, level)

\* The levels of s at the places in "at" sorted by price, levels of one price in their order.
ByPrice(s, at, up) ==
  LET ahead(i, j) == IF s[i].price = s[j].price THEN i <= j
                     ELSE IF up THEN s[i].price < s[j].price ELSE s[i].price > s[j].price
      rank(j) == Cardinality({i \in at : ahead(i, j)})
      nth(n)  == s[CHOOSE j \in at : rank(j) = n]
  IN  [n \in 1..Cardinality(at) |-> [price |-> nth(n).price, size |-> nth(n).size]]

Ascending(s) == ByPrice(s, DOMAIN s, TRUE)

\* ErrDuplicateLevel when it does not hold.
CanReset(levels) == \A i, j \in DOMAIN levels : levels[i].price = levels[j].price => i = j

NewBook == [bids |-> <<>>, asks |-> <<>>]

CanApply(b, rec) ==
  CASE rec.type = Delta ->
         CanUpsert(IF rec.side = SideAsk THEN b.asks ELSE b.bids, rec.level)
    [] rec.type = SnapshotPointer -> CanReset(rec.bids) /\ CanReset(rec.asks)
    [] OTHER -> TRUE

\* A delta sets one level of its side, a snapshot both sides.
Apply(b, rec) ==
  CASE rec.type = SnapshotPointer -> [bids |-> Ascending(rec.bids), asks |-> Ascending(rec.asks)]
    [] rec.type = Delta /\ rec.side = SideAsk -> [b EXCEPT !.asks = upsert(@, rec.level)]
    [] rec.type = Delta /\ rec.side # SideAsk -> [b EXCEPT !.bids = upsert(@, rec.level)]
    [] OTHER -> b

------------------------------------------------------------------------------
(* Source rows and partitions *)

Compare(a, b) == a[1] < b[1] \/ (a[1] = b[1] /\ a[2] < b[2])

\* Mutant: rounds towards zero.
floorDivTruncates(a, b) == IF a < 0 THEN -((-a) \div b) ELSE a \div b

\* Go's division truncates, the correction makes it round down.
floorDiv(a, b) ==
  LET q == IF a < 0 THEN -((-a) \div b) ELSE a \div b
  IN  IF a # q * b /\ a < 0 THEN q - 1 ELSE q

PartitionOf(venue, ts) == <<venue, floorDiv(ts, NanosPerDay)>>

\* A level's side is narrowed to a byte before it is looked at.
LevelSide(l) == l.side % 256

\* Bids from the highest price, asks from the lowest.
splitLevels(levels, side) ==
  ByPrice(levels, {i \in DOMAIN levels : LevelSide(levels[i]) = side}, side # SideBid)

\* recordOf's rejections: a value that does not fit, a field that must not be set.
Converts(row) ==
  /\ row.venue <= MaxVenue
  /\ row.type \in {Trade, Delta, SnapshotPointer}
  /\ row.side <= SideAsk
  /\ row.type # SnapshotPointer => row.levels = <<>>
  /\ row.type = SnapshotPointer =>
       /\ row.price = 0 /\ row.size = 0 /\ row.side = 0
       /\ \A i \in DOMAIN row.levels : LevelSide(row.levels[i]) \in {SideBid, SideAsk}

\* A record as the file holds it; epoch marks the ones the converter made up.
Snapshot(ts, seq, instrument, bids, asks, epoch) ==
  [ts |-> ts, seq |-> seq, instrument |-> instrument, type |-> SnapshotPointer,
   bids |-> bids, asks |-> asks, epoch |-> epoch]

recordOf(row) ==
  IF row.type = SnapshotPointer
  THEN Snapshot(row.ts, row.seq, row.instrument, splitLevels(row.levels, SideBid),
                splitLevels(row.levels, SideAsk), FALSE)
  ELSE [ts |-> row.ts, seq |-> row.seq, instrument |-> row.instrument, type |-> row.type,
        side |-> row.side, level |-> [price |-> row.price, size |-> row.size], epoch |-> FALSE]

\* compareKey(a, b) < 0 within one venue.
KeyBefore(a, b) ==
  \/ a.ts < b.ts
  \/ a.ts = b.ts /\ a.seq < b.seq
  \/ a.ts = b.ts /\ a.seq = b.seq /\ a.instrument < b.instrument

KeysRise(recs) == \A i \in 1..Len(recs) - 1 : KeyBefore(recs[i], recs[i + 1])

------------------------------------------------------------------------------
(* The venue's state and its epochs *)

NewVenue == [lastTs |-> 0, lastSeq |-> 0, seen |-> FALSE, last |-> <<0, 0>>,
             books |-> Empty, since |-> 0, pending |-> FALSE]

venue(id) == IF id \in DOMAIN venues THEN venues[id] ELSE NewVenue

\* venueState.book: created on first use.
bookOf(v, instrument) == IF instrument \in DOMAIN v.books THEN v.books[instrument] ELSE NewBook

epochDue(v, rec) == v.pending /\ v.seen /\ rec.ts > v.lastTs

\* What writeEpoch writes: one snapshot per book in the order of the instruments,
\* at the last record's time, the sequence numbers running on from its own.
epoch(v) ==
  LET rank(id) == Cardinality({j \in DOMAIN v.books : j <= id})
      ids == [n \in 1..Cardinality(DOMAIN v.books) |-> CHOOSE id \in DOMAIN v.books : rank(id) = n]
  IN  [n \in DOMAIN ids |->
         Snapshot(v.lastTs, (v.lastSeq + n) % (MaxSeq + 1), ids[n],
                  Reverse(v.books[ids[n]].bids), v.books[ids[n]].asks, TRUE)]

afterEpoch(v) ==
  [v EXCEPT !.lastSeq = (@ + Cardinality(DOMAIN v.books)) % (MaxSeq + 1),
            !.since = 0, !.pending = FALSE]

\* Mutant: a trade is taken for a change of its level.
applyToBookTrades(v, rec) ==
  [v EXCEPT !.books = With(@, rec.instrument,
     Apply(bookOf(v, rec.instrument), IF rec.type = Trade THEN [rec EXCEPT !.type = Delta] ELSE rec))]

applyToBook(v, rec) ==
  IF rec.type = Trade THEN v
  ELSE [v EXCEPT !.books = With(@, rec.instrument, Apply(bookOf(v, rec.instrument), rec))]

\* Mutant: off by one.
advanceLate(v, rec, key) ==
  [v EXCEPT !.lastTs = rec.ts, !.lastSeq = rec.seq, !.seen = TRUE, !.last = key,
            !.since = @ + 1, !.pending = @ \/ v.since + 1 > EpochEvery]

advance(v, rec, key) ==
  [v EXCEPT !.lastTs = rec.ts, !.lastSeq = rec.seq, !.seen = TRUE, !.last = key,
            !.since = @ + 1, !.pending = @ \/ v.since + 1 >= EpochEvery]

------------------------------------------------------------------------------
(* Convert *)

Init ==
  /\ pc = "idle" /\ parts = Empty /\ closed = {} /\ venues = Empty
  /\ dir = Empty /\ hash = Empty /\ created = {} /\ stuck = {}
  /\ nRows = 0 /\ runs = 0 /\ faults = 0 /\ crashes = 0

\* The schema has been checked; a new converter has no state.
Convert ==
  /\ pc \in {"idle", "done", "failed"}
  /\ runs < MaxRuns
  /\ pc' = "reading" /\ runs' = runs + 1
  /\ parts' = Empty /\ closed' = {} /\ venues' = Empty /\ created' = {}
  /\ UNCHANGED <<dir, hash, stuck, nRows, faults, crashes>>

Fault == faults < MaxFaults /\ faults' = faults + 1

ReadRow(row) ==
  /\ pc = "reading"
  /\ nRows < IF runs = 1 THEN MaxRows ELSE MaxRerun
  /\ nRows' = nRows + 1

\* The first checks of writeRow, on the row and on its place in the venue.
Admissible(row) ==
  /\ Converts(row)
  /\ venue(row.venue).seen => row.ts >= venue(row.venue).lastTs

\* The venue and the open files once a due epoch is written.
VenueBefore(row) ==
  LET v == venue(row.venue) IN IF epochDue(v, row) THEN afterEpoch(v) ELSE v

writeEpoch(row) ==
  LET v == venue(row.venue)
  IN  IF epochDue(v, row) THEN [parts EXCEPT ![v.last] = @ \o epoch(v)] ELSE parts

EpochFits(row) == \A k \in DOMAIN parts : KeysRise(writeEpoch(row)[k])

\* Mutant: an existing file is truncated.
CanOpenAny(key) == TRUE

\* converter.partition: the open file, or one created where no file exists.
CanOpen(key) == key \in DOMAIN parts \/ key \notin DOMAIN dir

partition(key, open) == IF key \in DOMAIN open THEN open ELSE With(open, key, <<>>)

Created(key) ==
  IF key \in DOMAIN parts THEN dir ELSE With(dir, key, [whole |-> FALSE, recs |-> <<>>])

Appended(row) ==
  LET key == PartitionOf(row.venue, row.ts)
  IN  [partition(key, writeEpoch(row)) EXCEPT ![key] = Append(@, recordOf(row))]

Books(row) == CanApply(bookOf(VenueBefore(row), row.instrument), recordOf(row))

\* writeRow that returns nil.
WriteRow ==
  /\ \E row \in Rows :
       LET key == PartitionOf(row.venue, row.ts) rec == recordOf(row) IN
       /\ ReadRow(row)
       /\ Admissible(row)
       /\ EpochFits(row)
       /\ CanOpen(key)
       /\ KeysRise(Appended(row)[key])
       /\ Books(row)
       /\ parts' = Appended(row)
       /\ dir' = Created(key)
       /\ created' = created \cup {key}
       /\ venues' = With(venues, row.venue,
                         advance(applyToBook(VenueBefore(row), rec), rec, key))
  /\ UNCHANGED <<pc, closed, hash, stuck, runs, faults, crashes>>

\* writeRow that fails before it has opened the row's file, on the row, its time,
\* the epoch, or a file already at the path.
RowRejected ==
  /\ \E row \in Rows :
       /\ ReadRow(row)
       /\ \/ ~Admissible(row)
          \/ Admissible(row) /\ ~EpochFits(row)
          \/ Admissible(row) /\ ~CanOpen(PartitionOf(row.venue, row.ts))
  /\ pc' = "aborting"
  /\ UNCHANGED <<parts, closed, venues, dir, hash, created, stuck, runs, faults, crashes>>

\* writeRow that fails after it: on the key's order, or on the book.
RowRefused ==
  /\ \E row \in Rows :
       LET key == PartitionOf(row.venue, row.ts) IN
       /\ ReadRow(row)
       /\ Admissible(row) /\ EpochFits(row) /\ CanOpen(key)
       /\ ~(KeysRise(Appended(row)[key]) /\ Books(row))
       /\ parts' = Appended(row)
       /\ dir' = Created(key)
       /\ created' = created \cup {key}
  /\ pc' = "aborting"
  /\ UNCHANGED <<closed, venues, hash, stuck, runs, faults, crashes>>

\* An I/O error, of the source or of a file; a file it may have opened before is as
\* RowRefused leaves it.
ReadFails ==
  /\ pc = "reading" /\ Fault
  /\ pc' = "aborting"
  /\ UNCHANGED <<parts, closed, venues, dir, hash, created, stuck, nRows, runs, crashes>>

EndOfSource ==
  /\ pc = "reading"
  /\ pc' = "closing"
  /\ UNCHANGED <<parts, closed, venues, dir, hash, created, stuck, counters>>

FirstKey(keys) == CHOOSE k \in keys : \A j \in keys : j = k \/ Compare(k, j)

\* close: the next file's Writer.Close.
CloseFile ==
  /\ pc = "closing" /\ closed # DOMAIN parts
  /\ LET k == FirstKey(DOMAIN parts \ closed) IN
       /\ closed' = closed \cup {k}
       /\ dir' = With(dir, k, [whole |-> TRUE, recs |-> parts[k]])
  /\ pc' = "hashing"
  /\ UNCHANGED <<parts, venues, hash, created, stuck, counters>>

\* Close that fails discards its own file.
CloseFails ==
  /\ pc = "closing" /\ closed # DOMAIN parts /\ Fault
  /\ dir' = Without(dir, FirstKey(DOMAIN parts \ closed))
  /\ pc' = "aborting"
  /\ UNCHANGED <<parts, closed, venues, hash, created, stuck, nRows, runs, crashes>>

LastKey(keys) == CHOOSE k \in keys : \A j \in keys : j = k \/ Compare(j, k)

\* WriteArtifactHash: os.WriteFile creates the sidecar, then fills it.
CreateHash ==
  /\ pc = "hashing"
  /\ hash' = With(hash, LastKey(closed), [whole |-> FALSE, of |-> <<>>])
  /\ pc' = "stamping"
  /\ UNCHANGED <<parts, closed, venues, dir, created, stuck, counters>>

WriteArtifactHash ==
  /\ pc = "stamping"
  /\ hash' = With(hash, LastKey(closed), [whole |-> TRUE, of |-> dir[LastKey(closed)].recs])
  /\ pc' = "closing"
  /\ UNCHANGED <<parts, closed, venues, dir, created, stuck, counters>>

HashFails ==
  /\ pc \in {"hashing", "stamping"} /\ Fault
  /\ pc' = "aborting"
  /\ UNCHANGED <<parts, closed, venues, dir, hash, created, stuck, nRows, runs, crashes>>

Return ==
  /\ pc = "closing" /\ closed = DOMAIN parts
  /\ pc' = "done"
  /\ UNCHANGED <<parts, closed, venues, dir, hash, created, stuck, counters>>

\* Mutant: leaves it to the writers, which keep a closed file.
AbortPartUnfinished(k, kept) ==
  /\ dir' = IF "data" \in kept \/ k \in closed THEN dir ELSE Without(dir, k)
  /\ hash' = IF "hash" \in kept \/ k \in closed THEN hash ELSE Without(hash, k)

\* abort, one file at a time: its writer, the file and its sidecar.  The errors of
\* the removals are ignored.
AbortPart(k, kept) ==
  /\ dir' = IF "data" \in kept THEN dir ELSE Without(dir, k)
  /\ hash' = IF "hash" \in kept THEN hash ELSE Without(hash, k)

Abort ==
  /\ pc = "aborting" /\ parts # Empty
  /\ LET k == FirstKey(DOMAIN parts) IN
       /\ \/ AbortPart(k, {}) /\ UNCHANGED <<stuck, faults>>
          \/ \E kept \in {{"data"}, {"hash"}} :
               AbortPart(k, kept) /\ Fault /\ stuck' = stuck \cup {k}
       /\ parts' = Without(parts, k)
  /\ UNCHANGED <<pc, closed, venues, created, nRows, runs, crashes>>

Aborted ==
  /\ pc = "aborting" /\ parts = Empty
  /\ pc' = "failed"
  /\ UNCHANGED <<parts, closed, venues, dir, hash, created, stuck, counters>>

\* The process dies; what it wrote stays.
Crash ==
  /\ pc \notin {"idle", "done", "failed"} /\ crashes < MaxCrashes
  /\ crashes' = crashes + 1
  /\ pc' = "idle" /\ parts' = Empty /\ closed' = {} /\ venues' = Empty
  /\ UNCHANGED <<dir, hash, created, stuck, nRows, runs, faults>>

Next ==
  \/ Convert \/ WriteRow \/ RowRejected \/ RowRefused \/ ReadFails \/ EndOfSource
  \/ CloseFile \/ CloseFails \/ CreateHash \/ WriteArtifactHash \/ HashFails \/ Return
  \/ Abort \/ Aborted \/ Crash

Spec == Init /\ [][Next]_vars

------------------------------------------------------------------------------
(* WarmUp, on the records of one finished file *)

\* Reader.SeekTime and SnapshotBefore, from 1, 0 for none: module Store, SeeksAreExact.
SeekTime(f, t) ==
  IF \E i \in DOMAIN f : f[i].ts >= t
  THEN CHOOSE i \in DOMAIN f : f[i].ts >= t /\ \A j \in 1..i - 1 : f[j].ts < t
  ELSE Len(f) + 1

IsSnapshot(f, i) == f[i].type = SnapshotPointer

SnapshotBefore(f, i) ==
  LET at == {j \in 1..i : IsSnapshot(f, j)}
  IN  IF at = {} THEN 0 ELSE CHOOSE j \in at : \A k \in at : k <= j

\* The first index of the unbroken run of snapshots that ends at last.
epochRunStart(f, last) ==
  CHOOSE i \in 1..last :
    /\ \A j \in i..last : IsSnapshot(f, j)
    /\ i = 1 \/ ~IsSnapshot(f, i - 1)

\* The first match in the run, 0 for none.
findInstrumentSnapshot(f, start, end, instrument) ==
  IF \E i \in start..end : f[i].instrument = instrument
  THEN CHOOSE i \in start..end :
         f[i].instrument = instrument /\ \A j \in start..i - 1 : f[j].instrument # instrument
  ELSE 0

NoUse == [snap |-> 0, from |-> 1]

\* Mutant: gives up at the first run without the instrument.
rewindOnce(f, instrument) ==
  LET at[before \in 0..Len(f)] ==
        LET last  == SnapshotBefore(f, before)
            start == epochRunStart(f, last)
            snap  == findInstrumentSnapshot(f, start, last, instrument)
        IN  IF last = 0 \/ snap = 0 THEN NoUse ELSE [snap |-> snap, from |-> last + 1]
  IN  at

\* The snapshot to start from and the first record to replay, going back over the
\* runs before an index until one holds the instrument.
rewind(f, instrument) ==
  LET at[before \in 0..Len(f)] ==
        LET last  == SnapshotBefore(f, before)
            start == epochRunStart(f, last)
            snap  == findInstrumentSnapshot(f, start, last, instrument)
        IN  IF last = 0 THEN NoUse
            ELSE IF snap # 0 THEN [snap |-> snap, from |-> last + 1]
            ELSE at[start - 1]
  IN  at

\* The book, [ok] FALSE when a delta cannot be applied.
WarmUp(f, instrument, t) ==
  LET idx  == SeekTime(f, t)
      use  == rewind(f, instrument)[idx - 1]
      base == IF use.snap = 0 THEN NewBook ELSE Apply(NewBook, f[use.snap])
      replay[i \in use.from - 1..idx - 1] ==
        IF i = use.from - 1 THEN [ok |-> TRUE, book |-> base]
        ELSE LET b == replay[i - 1] IN
             IF ~b.ok \/ f[i].type # Delta \/ f[i].instrument # instrument THEN b
             ELSE IF CanApply(b.book, f[i]) THEN [b EXCEPT !.book = Apply(@, f[i])]
             ELSE [b EXCEPT !.ok = FALSE]
  IN  replay[idx - 1]

------------------------------------------------------------------------------
(* Properties *)

Instruments == {r.instrument : r \in Rows}
Times == {r.ts : r \in Rows} \cup {r.ts + 1 : r \in Rows}
Prices == {r.price : r \in Rows} \cup
          UNION {{r.levels[i].price : i \in DOMAIN r.levels} : r \in Rows}
Days == {PartitionOf(r.venue, r.ts)[2] : r \in Rows}

\* The venue's records before record n of its file of that day, over its files.
Before(v, day, n) ==
  LET upTo[d \in (CHOOSE x \in Days : \A y \in Days : x <= y) - 1..day] ==
        IF d \notin Days /\ d < (CHOOSE x \in Days : \A y \in Days : x <= y) THEN <<>>
        ELSE upTo[d - 1] \o (IF <<v, d>> \notin DOMAIN parts THEN <<>>
                             ELSE IF d = day THEN SubSeq(parts[<<v, d>>], 1, n - 1)
                             ELSE parts[<<v, d>>])
  IN  upTo[day]

\* What a record says of one level: its size, or that there is none.
Says(rec, side, price) ==
  IF rec.type = Delta THEN IF rec.level.size = 0 THEN {} ELSE {rec.level}
  ELSE {l \in Range(IF side = SideAsk THEN rec.asks ELSE rec.bids) : l.price = price}

Touches(rec, instrument, side, price) ==
  /\ rec.instrument = instrument
  /\ \/ rec.type = SnapshotPointer
     \/ rec.type = Delta /\ rec.side = side /\ rec.level.price = price

\* The levels of one side after the records of log, from the last word on each price.
LevelsAfter(log, instrument, side) ==
  UNION {LET at == {i \in DOMAIN log : Touches(log[i], instrument, side, p)}
         IN  IF at = {} THEN {}
             ELSE Says(log[CHOOSE i \in at : \A j \in at : j <= i], side, p)
         : p \in Prices}

IsBookAfter(bids, asks, log, instrument) ==
  /\ Range(bids) = LevelsAfter(log, instrument, SideBid) /\ IsInjective(bids)
  /\ Range(asks) = LevelsAfter(log, instrument, SideAsk) /\ IsInjective(asks)

\* The types of the variables.
TypeOK ==
  /\ pc \in {"idle", "reading", "closing", "hashing", "stamping", "aborting", "done", "failed"}
  /\ DOMAIN parts \subseteq created
  /\ closed \subseteq DOMAIN parts \/ pc \in {"aborting", "failed"}
  /\ \A k \in DOMAIN parts : k \in DOMAIN dir \/ pc = "aborting"
  /\ \A v \in DOMAIN venues : venues[v].last \in DOMAIN parts \/ pc \in {"aborting", "failed"}
  /\ nRows \in 0..MaxRows /\ runs \in 0..MaxRuns
  /\ faults \in 0..MaxFaults /\ crashes \in 0..MaxCrashes

Converting == pc \in {"reading", "closing", "hashing", "stamping", "done"}

\* PartitionOf and writeEpoch: a file holds its own venue's day and nothing else, also
\* the epoch a record of the next day released, and the keys of a venue rise strictly
\* across its day files although each writer sees only its own file.
FilesPartitionTheVenue ==
  Converting =>
    \A k \in DOMAIN parts :
      /\ \A i \in DOMAIN parts[k] :
           parts[k][i].ts \in k[2] * NanosPerDay..(k[2] + 1) * NanosPerDay - 1
      /\ KeysRise(Before(k[1], k[2], Len(parts[k]) + 1))

\* writeEpoch: the run of snapshots an epoch consists of has one for each instrument
\* with a book, and each is the book that all of the venue's records before the run
\* add up to, also the ones in the files of earlier days.
EpochIsTheBook ==
  Converting =>
    \A k \in DOMAIN parts : \A n \in DOMAIN parts[k] :
      (parts[k][n].epoch /\ (n = 1 \/ ~parts[k][n - 1].epoch)) =>
        LET log == Before(k[1], k[2], n)
            run == {i \in n..Len(parts[k]) : \A j \in n..i : parts[k][j].epoch}
            rec(i) == parts[k][i]
        IN  /\ {rec(i).instrument : i \in run} =
                 {log[j].instrument : j \in {j \in DOMAIN log : log[j].type # Trade}}
            /\ Cardinality({rec(i).instrument : i \in run}) = Cardinality(run)
            /\ \A i \in run : IsBookAfter(rec(i).bids, rec(i).asks, log, rec(i).instrument)

\* advance and epochDue: once a venue has a book, more than EpochEvery of its records
\* follow an epoch only while they repeat one timestamp, which an epoch may not split:
\* this is what bounds a seek.
CadenceHolds ==
  Converting =>
    \A v \in DOMAIN venues :
      LET log   == Before(v, venues[v].last[2], Len(parts[venues[v].last]) + 1)
          start == {i \in DOMAIN log : log[i].epoch} \cup
                   {i - 1 : i \in {i \in DOMAIN log : log[i].type # Trade
                                     /\ \A j \in 1..i - 1 : log[j].type = Trade}}
          n     == (CHOOSE i \in start : \A j \in start : j <= i) + EpochEvery
      IN  (start # {} /\ n < Len(log)) => log[n].ts = log[Len(log)].ts

Equal(b, log, instrument) == b.ok /\ IsBookAfter(b.book.bids, b.book.asks, log, instrument)

\* A snapshot run before idx that holds two different snapshots of the instrument.
RunDisagrees(f, instrument, idx) ==
  \E i, j \in 1..idx - 1 :
    /\ i < j /\ \A n \in i..j : IsSnapshot(f, n)
    /\ f[i].instrument = instrument /\ f[j].instrument = instrument
    /\ Apply(NewBook, f[i]) # Apply(NewBook, f[j])

\* The file needs the venue's earlier days: no snapshot of the instrument before idx,
\* and records of it in a file before.
NeedsEarlierDay(k, instrument, idx) ==
  /\ \A i \in 1..idx - 1 : parts[k][i].instrument = instrument => ~IsSnapshot(parts[k], i)
  /\ \E i \in DOMAIN Before(k[1], k[2], 1) : Before(k[1], k[2], 1)[i].instrument = instrument

\* WarmUp on a file the converter finished: the book at any time is the one all of the
\* venue's records before it add up to, whichever epoch the seek rewound to and however
\* many runs without the instrument it passed, as long as the file has what it takes
\* and no run of snapshots contradicts itself.
WarmUpFindsTheBook ==
  pc = "done" =>
    \A k \in DOMAIN parts : \A i \in Instruments : \A t \in Times :
      LET idx == SeekTime(parts[k], t) IN
      \/ RunDisagrees(parts[k], i, idx) \/ NeedsEarlierDay(k, i, idx)
      \/ Equal(WarmUp(parts[k], i, t), Before(k[1], k[2], idx), i)

\* WarmUp's doc comment: it reconstructs the instrument's book at the target time.
WarmUpReconstructsTheBook ==
  pc = "done" =>
    \A k \in DOMAIN parts : \A i \in Instruments : \A t \in Times :
      Equal(WarmUp(parts[k], i, t), Before(k[1], k[2], SeekTime(parts[k], t)), i)

\* Convert's doc comment: a conversion that fails leaves no file of its own behind,
\* finished or not, and no sidecar (but for what could not be removed); one that
\* returns has every file whole, each with the digest of exactly its content beside it.
AllOrNothing ==
  /\ pc = "failed" =>
       \A k \in created : k \in stuck \/ (k \notin DOMAIN dir /\ k \notin DOMAIN hash)
  /\ pc = "done" =>
       \A k \in created :
         /\ k \in DOMAIN dir /\ dir[k] = [whole |-> TRUE, recs |-> parts[k]]
         /\ k \in DOMAIN hash /\ hash[k] = [whole |-> TRUE, of |-> parts[k]]

\* NewWriter's and abort's promise: a file a conversion did not create, of an earlier
\* conversion or a crashed one, is neither changed nor removed, and its sidecar is not.
OldFilesSurvive ==
  [][\A k \in DOMAIN dir \ DOMAIN parts :
       /\ k \in DOMAIN dir' /\ dir'[k] = dir[k]
       /\ k \in DOMAIN hash => k \in DOMAIN hash' /\ hash'[k] = hash[k]]_vars
==============================================================================
