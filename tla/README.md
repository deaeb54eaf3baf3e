# A verification of the market replay engine

TLA+ modules that model the core of the replay engine, the TLC instances that
check them, and TLAPS proofs of what matters most. Paths below are relative to
the repository's root (`src/` here).

## 1. The system

The engine replays recorded market data. Per-venue files (`internal/store`) are
merged into one totally ordered stream (`internal/merge`), optionally paced
against a clock (`internal/fanout/pacer.go`, `internal/clock`), and written into
a ring from which any number of subscribers read (`internal/fanout`).
`cmd/replayd` serves the ring over gRPC; `cmd/convert` produces the files.

| Component | State it keeps | Operations | Talks to | What makes it correct |
|---|---|---|---|---|
| Fan-out ring, `ring.go` | per slot `seq`, words and blob; `writeSeq`, `endPlusOne` | `Write`, `read`, `SetEnd` | readers, through atomics only | a reader accepts only whole records, whatever the interleaving |
| Subscribers and lapping, `subscriber.go`, `gap.go` | `cursor`, `evicted`, `canceled` | `Subscribe`, `Next`, `Cancel`, `Ring.next` | ring, control queue | no loss under Block, gaps only for what was lost under Drop, one clean end |
| Barrier and watchdog, `barrier.go` | `blocking`, `slipNs` | `waitForBlockBarrier`, `evictStalledBlockSubscriber` | subscribers' cursors, clock | the writer never overruns a registered Block subscriber and is never parked for ever while the watchdog is on |
| Control queue, `lifecycle.go` | `pending`, `started`, `closed` | `StartEmitting`, `applyControl`, `closeControl`, `Unsubscribe` | callers, emit goroutine | every request is answered; removal precedes cancellation |
| Emit loop, `fanout.go` | the digest | `RunDigest` | merge, pacer, ring | each record once, the end once |
| Pacer and speed, `pacer.go`, `speed.go` | base time, cached release, stop flag | `Wait`, `Stop` | clock | releases never early, saturating arithmetic, a stop is noticed |
| Clocks, `internal/clock` | time, timers | `Now`, `NewTimer`, `Reset`, `Stop`, `Advance` | pacer, watchdog | timers fire once and in order |
| Loser tree, `losertree.go`, `key.go` | the tree's losers | `Init`, `Winner`, `Advance` | merger | the winner is the smallest leaf; the sentinel is past every key |
| Merge pipeline, `merge.go`, `reader.go`, `cursor.go` | batches, channels, worker pool | `Next`, `Close`, owners and workers | store readers | the sorted merge of the files, an error after the records before it, no goroutine left after `Close` |
| Store writer, `writer.go` | buffered sections, file | `WriteRecord`, `WriteSnapshot`, `Close`, `Abort` | file system | a file is complete or not accepted, across crashes |
| Store reader, `reader.go`, `header.go`, `index.go`, `footer.go` | the mapping | `Open`, `SeekTime`, `SnapshotBefore`, `VerifyAll` | files | accepts exactly finished files; seeks to the first record at or after a time |
| Server, `cmd/replayd/server.go` | `started`, counts, the run manifest | `attach`, `run`, `Subscribe` stream, `Close` | ring, pacer, merger | every accepted stream ends; the manifest tells what ran |
| Order book, `internal/book` | levels | `Apply`, `ApplySnapshot`, `WarmUp` | records | the book of a warmed-up start equals the book of the full stream |
| Converter, `cmd/convert` | open files, per venue its books and epoch cadence | `Convert`, `writeRow`, `writeEpoch`, `close`, `abort` | store writer, books | files partition the rows, epochs are the books, all files or none |
| Catalogue, linter, benchmarks, wire API | - | - | - | not core logic |

Hard behaviours: the ring is shared without locks between one writer and many
readers, word by word; joins and leaves reach the emit goroutine through a queue
it services even in the middle of a barrier wait; a watchdog races the progress
of the subscriber it evicts; the end of the stream races queued requests; before
emission starts, the subscriber set is changed without a lock; the merge is a
pipeline of owners, pooled workers and recycled batches with an early close; the
store's finalization must survive a crash at every step. `PROJECT.json` lists
these hazards at the lines where they bite, and the properties that cover them.

## 2. The modules

### Ring

`Ring.tla` models `internal/fanout` at the grain of one shared access per step:
a load or store of an atomic, or a section under the control queue's mutex. A
record is represented by its emit index, so every word of a slot says which
record it was encoded from and a torn copy is visible. `Words` is `slotWords`;
the first word carries `RecordType`, the last one `BlobLen`, which is what `read`
decodes, possibly torn, before it copies the blob.

| Variables | Code |
|---|---|
| `seq`, `word`, `blob` | `slot.seq`, `slot.words`, the slot's part of `Ring.blobs` |
| `writeSeq`, `endPlusOne`, `blocking` | the fields of `Ring` |
| `pending`, `started`, `closed` | `controlQueue` |
| `wpc`, `wk`, `batch`, `victim` | the emit goroutine's place in `RunDigest`, `applyControl`, `Write`, `waitForBlockBarrier`, `evictStalledBlockSubscriber`, `SetEnd`, `closeControl`, and its locals |
| `joiner`, `leaver`, `mode`, `start` | the callers of `Subscribe` and `Unsubscribe`, and the fields they set |
| `cursor`, `evicted`, `canceled` | the fields of `Subscriber` |
| `rpc`, `target`, `rk`, `buf`, `bbuf`, `out`, `res` | the place and locals of `Subscriber.Next`, `Ring.next` and `Ring.read`, the last `Delivery` and the last result |

The emit goroutine's actions are `StartEmitting`, `TakePending`, `ApplyRequest`
(`applyControl`), `NextRecord`, `NextEnds`, `RunFails`, `DriverEnds` (how
`RunDigest` and `Server.run` go on or end), `BarrierPasses`, `BarrierHolds`,
`WatchQuiet`, `WatchExpires`, `Evict` (the barrier), `Invalidate`, `StoreWord`,
`StoreBlob`, `Publish`, `Advance` (`Write`), `StoreEnd`, `CloseControl`,
`FailRequest` (`SetEnd`). A subscriber's are `TestEvicted`, `TestCanceled`,
`LoadSeq`, `CopyWord`, `CopyBlob`, `GiveUp`, `Reload`, `TestEnd`; a caller's
`Subscribe`, `Unsubscribe`, `UnsubscribeCancel`, `Cancel`. The merge and the
pacer are a source that yields `Total` records and may stop or fail before each.
When a run is over or every caller is content the system really stops, so the
instances do not check for deadlock; the liveness properties do instead.

The barrier's scan of the cursors is one step. Cursors only grow, so a scan that
passes has found every cursor past the threshold at the moment it ends, and one
that holds is followed by another.

### Feed and RingRefinement

`Feed.tla` is what the fan-out promises: records are published one by one, a
subscriber is handed records out of the last `Capacity` published, skips only
when it is not guaranteed and was lapped by at least a full ring, and
publication never runs a full ring ahead of a guaranteed one.
`RingRefinement.tla` maps the ring to it: a record is published from the odd
store of `seq`, the guaranteed are `Ring.blocking`.

### PreStart

`PreStart.tla` takes apart what `Ring` does in one step (and `Server` takes apart too): before `StartEmitting`,
`Subscribe` and `Unsubscribe` test `started` under the mutex, release it, and
then load and store the slice `Ring.blocking` on the caller's goroutine. The
callers are `cmd/replayd`'s `attach` (joins, serialised by `Server.mu`; the first
one accepted spawns the run) and its streams (leaves, not serialised).
`Quiescent` states the documented use, in which the set is fixed before emission.

### Watchdog

`Watchdog.tla` adds the clock to one barrier wait after another: the window,
the eviction, the slip gauge. `parked` and `since` are history variables.
Subscribers may join while the writer waits; they share the window of the wait.

### Merge

`Merge.tla` models `internal/merge`: per venue an owner goroutine
(`venueFeed.run`: `Issue`, `TakeFree`, `PutWork`, `AwaitDone`), the pool
(`TakeWork`, `FinishWork`) and the goroutine that calls `NewMerger`, `Next` and
`Close` (`New`, `Seed`, `Seeded`, `NextInBatch`, `NextRefill`, `NextEnd`,
`Receive`, `ReceiveClosed`, `Close`, `Drain`, `StopPool`), over the channels
`queue`, `free` and the unbuffered one of each venue (a send is the state
`"send"`, met by `Receive` or `Drain`). A venue's records are numbered through
its files, and decoding (`Fault`, `fill`) reports the first corrupt block,
foreign venue, disorder or unreadable payload. The loser tree has `Leaves` leaves
(`NewLoserTree` doubles until they hold every cursor) and is built by `treeInit` and
replayed by `fix` on every `Next`, along the `path` of a leaf. With no workers the same `Next` decodes inline
(`fillFromCursor`).

### Pacer

`Pacer.tla` models `Pacer.Wait` one shared access at a time (`WaitFast`,
`WaitSlow`, `TestStop`, `ReadClock`, `Arm`, `Wake`), `Stop`, and both clocks: the
wall clock, whose timer's callback starts (`RealFire`) and sends (`RealSend`) on
its own, and the simulated one with its sorted timers (`SimAdvance`, `SimReset`)
and other users (`OtherTimer`). `NewSpeed` and `DeliveryTime` keep the width of
an `int64`, here `Width` bits.

### Store

`Store.tla` models the writer and the reader of one file. A file is a sequence
of cells (header, records, blobs, index entries, footer entries) and a finalized
byte, each in a cached and a durable version; a checksum is the value it covers.
`NewWriter`, `WriteRecord`, `WriteSnapshot` go through buffers that fail and keep
their error; `Close` is the sequence `Flush`, `copyBlobRegion`, `WriteTrailer`,
`WriteHeader`, `Sync`, `Finalize`, `SyncAgain`, `CloseFiles`, each of which may
fail (`CloseFails`); `Abort` discards. `ProcessCrash` keeps what the system was
given; `PowerLoss` leaves any length between the durable and the cached one, or
loses or garbles a cell that was not durable, or the file's name. The reader is
`Opens`, `VerifyAll`, `SeekTime`, `SnapshotBefore` on any such image.

### Server

`Server.tla` composes `cmd/replayd`: the handlers of `Subscribe` with `attach`
and `countSubscriber` under `Server.mu`, one context watcher per stream, the
run's goroutine (`RunDigest`, the merger's close, the manifest) and `main`
(signal, `GracefulStop`, `Close`). Ring, pacer and merge are as coarse as the
server sees them. gRPC is external: `Disconnect` and `ContextDone`.

A join or a leave goes through the states of `call`, one per goroutine that may ask:
`Ask` is the section under `controlQueue.mu`. What it queues the emit goroutine takes
(`BetweenRecords`, `BarrierSpin`) and applies (`ApplyLoad`, `ApplyStore`), as it does
an eviction; who found `started` false goes on with the list in its own hands
(`JoinResolve`, `DirectLoad`, `DirectStore`), and meanwhile another handler, a watcher
or the emit goroutine may do the same. `raced` is a history variable: two such changes
for Block clients have overlapped, or one has overlapped `StartEmitting`.
`RunClosesMerger` and `WriteManifest` keep the three errors of a run in the order of
`run`: `RunDigest`'s, the merger's at its close, the manifest's at its write, and a
server with no manifest path writes none (`ManifestPath`).

| Variables | Code |
|---|---|
| `mu`, `started`, `speed`, `mix`, `runDone`, `runErr` | the fields of `Server` |
| `files`, `mclosed`, `manifest` | what the merger has open and how often it was closed, the manifest's file |
| `ctrl`, `call`, `seen` | `controlQueue`, where a request is, the slice loaded for it |
| `blocking`, `writeSeq`, `end`, `stopped` | `Ring.blocking`, `Ring.writeSeq`, `Ring.endPlusOne`, `Pacer.stop` |
| `emit`, `err` | the place and the error of `run` and `RunDigest` |
| `setup`, `hpc`, `wpc`, `left`, `status` | what this run was given (requests, who may leave, `Config`, what may fail), a client's handler, its context watcher, whether it is gone, what it was told |
| `cursor`, `gap`, `canceled`, `evicted` | the subscriber |

Two things are coarser than the code. The slice `Ring.blocking` is a set with one load
and one store per change; that two of them may also shift one backing array in place
at the same time, while the barrier walks it, is a data race whose further outcomes
(an entry seen twice or skipped) are not enumerated. And the order of the queue is
left open, which allows more than the code does.

### Archive

`Archive.tla` models `cmd/convert` and what reads its files, `internal/book`. A
conversion reads rows (`WriteRow`, `RowRejected` before the row's file is opened,
`RowRefused` after, `ReadFails`), closes and hashes file by file (`CloseFile`,
`CreateHash`, `WriteArtifactHash`), or aborts (`Abort`); a crash leaves the
directory as it is and another conversion may follow. `WarmUp` and the book are
operators, evaluated on the finished files and compared with what the records
say, level by level (`LevelsAfter`), which shares nothing with the binary search.
`search` is a recursive function over the pairs lo, hi, as `rewind` is one over the
indexes, and the sorts of the code are `ByPrice`, a list by rank.

### MC modules and proofs

`MCRing`, `MCRefinement`, `MCMerge`, `MCPacer`, `MCStore`, `MCServer` and
`MCArchive` hold the instances for TLC; `PreStart` and `Watchdog` need none.
Each component has one module of theorems that extends it: `RingProof` (with the
refinement of `Feed`), `WatchdogProof`, `PreStartProof`, `ServerProof`,
`MergeProof`, `PacerProof`, `StoreProof` and `ArchiveProof` (section 4).

## 3. The runs

| Run | Instance | Shows |
|---|---|---|
| `ring_one` | one subscriber, both modes, every kind of start (held, overwritten, future), watchdog, bare `Cancel`, 5 records | `TypeOK`; `NoTornDelivery`; `BlockNeverLapped` and `BlockNoLoss`; `GapMeansLapped`; `CleanEndMissesNothing`; `EvictionIsFinal`; `ImplementsFeed` |
| `ring_live` | one subscriber that may stop reading anywhere, 4 records, watchdog | `RequestsAreAnswered`, `CanceledIsOffTheBarrier`; `WatchdogFreesWriter` if the clock moves; `ReadersFinish` if the client reads |
| `prestart_fixed` | three Block subscribers, `Quiescent` | the unlocked changes are harmless in the documented use: `AcceptedNeverLapped`, `LeftStaysLeft` |
| `watchdog` | three subscribers | `FullTimeout`, `SlipIsTimeParked` |
| `merge` | eight inputs, 0 to 2 workers, two batch shapes, two seek targets | `PrefixOfMerge`, `StopsWhereTheInputSays`, `NoBatchIsShared`, `FilesOutliveDecoding`, `AlwaysCloses` |
| `pacer` | both clocks, speeds of terms 1, 2 and 4, terms that are refused (-1, 0), windows of every size | `ScheduleIsExact`, `NeverEarly`, `StopEndsWait`, `DueIsReleased` |
| `store` | two writers in turn, up to four writes, two I/O errors, one crash | `OpensOnlyWhole`, `ClosedFileOpens`, `NothingIsLeftBehind`, `SeeksAreExact` |
| `server` | four setups of two clients and three records: two Block clients, one of which may leave, with and without a watchdog; a Block and a Drop client, of the same or another speed, where everything may fail | `FilesOutliveTheRun`, `StatusIsTrue`, `CloseReportsTheRun`, `StreamsEnd`, `ShutdownCompletes` |
| `archive` | up to four rows out of 33, a second conversion, one error, one crash | `FilesPartitionTheVenue`, `EpochIsTheBook`, `CadenceHolds`, `WarmUpFindsTheBook`, `AllOrNothing`, `OldFilesSurvive` |

`StatusIsTrue`, `StreamsEnd` and `ShutdownCompletes` hold with one exception, which is
part of their statements. If two unlocked changes of `Ring.blocking` overlapped
(`raced`), a Block client that stayed may have been lapped and still be told OK; and if
no watchdog is on, the barrier may wait for ever for a subscriber that was stored back
(`Stuck`), so that neither the other streams nor the shutdown end. With a watchdog they
always do. `prestart_replayd` shows that `replayd` can get there.

Three runs show where the code and what is written about it disagree.

| Run | What TLC finds |
|---|---|
| `prestart_replayd` | in `replayd` a second `attach` can be past the test of `started` when the run starts: it then changes `Ring.blocking` together with the emit goroutine, its registration is lost or comes late, and an accepted Block subscriber is lapped. Without the `Undisturbed` guards `LeftStaysLeft` fails too: a removed subscriber can be stored back |
| `server_manifest` | a subscriber is counted in a second critical section after `attach`: a run that ends in between writes a manifest without it |
| `warmup` | a snapshot row directly behind an epoch belongs to its run of snapshot pointers; `findInstrumentSnapshot` takes the first snapshot of the instrument in the run and `WarmUp` replays from the end of the run, so the newer state is lost. `WarmUpFindsTheBook` shows that this and a file that needs its earlier day are the only cases |

**Bounds.** Ring: two slots are the smallest ring `NewRing` accepts and lap
soonest; two words are enough for a torn copy; four or five records lap a
two-slot ring twice, with a snapshot on both sides of a lap. One subscriber shows
every race with the writer; subscribers meet only through the barrier and the
queue, which `prestart_fixed`, `watchdog` and `server` have two or three of, and
the theorems any number. Merge: three venues leave one padded leaf in the tree;
batches of one or two records put faults inside a batch, at a seam and at a file
boundary; two workers finish out of order; two batches is the least a venue may
have. Pacer: five bits saturate within the spans of the streams; two slices to a
deadline; at `MaxTime` the clock stands for every later time (`Horizon`). Store:
blocks of two and three records give a full and a short block; a buffer of two
cells spills; a second writer meets what the first left. Server: three records
in a ring of two lap a late Block client and park the writer; two clients are enough
for two changes of the list to overlap, with each other and with the run's start; one
leaver is, since the other one's stay is what the properties speak of. The setups are not
crossed: failures meet no leaving Block client and no watchdog, and a missing manifest
path comes with the watchdog. The invariants are proved for every setup. Archive: days of
two ticks around zero, so the first day is negative; an epoch every two records
and four rows give two epochs and one that the next day releases; sequence
numbers up to five wrap in an epoch.

`CHECK_DEADLOCK FALSE` is in every configuration: each system really stops, when
a run is over, closed or refused, or its bounds are used up. That nothing stops
earlier is the liveness properties' part.

**Fairness.** Goroutines that can run are scheduled: weak fairness of the emit
goroutine, of owners, workers, handlers, watchers, of timer callbacks, and of a
caller that owes a deferred `Cancel`. In `Ring`, `WatchdogFreesWriter` assumes
`ClockMoves` (a spin that never ends meets an expired window) and `ReadersFinish`
assumes `ClientsRead`, as a formula of the property, since the code guarantees
neither. In `Merge` the caller goes on to call `Next` or `Close`, as `RunDigest`
and `Server.run` do. In `Pacer` time passes; nobody need call `Stop`. In `Server`
a client reads what it is sent or leaves, and the wall clock moves, so that a watchdog
that is on finds its time over in a wait that does not end (`Evict`); the only waits a
client that reads leaves without an end are those for a subscriber that was stored
back. No fairness of signals, of clients that call, or of `Server.mu` is assumed. Weak fairness of all these
steps together is enough, and says the same as fairness of each: no behaviour has
infinitely many of them.

**Observations without a run.** Seen while modelling, too small or too far from
practice for an instance of their own, or a consequence of one above:

* The race of `prestart_replayd`, seen from the barrier: a client is accepted and spawns
  the run; before `StartEmitting` a second `attach` has loaded the list, and the first
  client leaves. It is removed and canceled, and the second one stores the list it had
  loaded: the writer comes to the barrier with a canceled subscriber on its list, which
  it "never observes" by `lifecycle.go:109`. This is why `Stuck` is in the properties.
* A lapped Drop subscriber catches up to the index its own slot holds, so its
  `Gap` counts records other slots still hold (`gap.go:53`); the type's comment
  says the writer overwrote them (`gap.go:9`).
* `ExchangeTs` in mid-run scans from the oldest record held and skips qualifying
  records already overwritten, without a gap or an error (`subscriber.go:176`,
  against `subscriber.go:49`).
* `2*n+1` wraps for start indexes of 2^63 and above: such a subscriber is handed
  a past record instead of waiting (`ring.go:257`, against `subscriber.go:54`).
* The watchdog's window belongs to the wait: a subscriber that joins during one
  is evicted with less than a timeout of its own (`barrier.go:66`, against
  `ring.go:66`). `FullTimeout` is about those that held the writer from the start.
* A `Next` already past its tests returns one record after the eviction, and a
  bare `Cancel` followed by an eviction turns `ErrCanceled` into `ErrEvicted`.
* The fast path of `Wait` neither notices a stop nor updates the slip gauge; a
  span of timestamps above 2^63 wraps before it is scaled (`speed.go:117`).
* A record whose key is the sentinel would end the merge (`merge.go:212`), which no
  record of realistic time has; `MergeAssumption` keeps it out;
  `newMerger` does not close the cursors it is given when it refuses them.
* `Abort` after a failed `Close` removes the path again, whoever has created it
  since; a crash leaves a file no one opens, which has to be removed by hand.
* A signal waits for the connected streams, so a paced run ends with its data
  unless the clients leave; a failed run ends its streams with OK.
* `splitLevels` narrows a level's side to a byte before it tests it, so side 256
  passes for a bid (`convert.go:299`, against `convert.go:249`).
* The first records of a venue's second day have no epoch before them in their
  file, so the full scan `WarmUp` falls back to, "still correct" by
  `warmup.go:15`, starts from an empty book (`NeedsEarlierDay`).
* A crash between the creation of a hash sidecar and its content leaves an empty
  sidecar next to a finished file.

## 4. The proofs

TLAPS proves the following for every value of the constants that satisfies the
named assumption of the component's module; TLC evaluates the assumptions on every
run. Each theorem `Spec => []P` follows one pattern: an inductive invariant, one
lemma per action (or per group of actions that touch the same state) and one
conjunct at a time, and a last step that combines them.

### RingProof

For every capacity and number of words of at least two, every stream, set of
snapshots and timestamps, and every set of subscribers.

* `TypeCorrect`: `Spec => []TypeOK`. Types of `Ring` and that the emit goroutine
  has a request in hand wherever it applies one.
* `NoTorn`: `Spec => []NoTornDelivery`. `NoTornDelivery` speaks of finished
  deliveries only, so the invariant `SeqlockInv` adds what holds in the middle of a
  write and of a read. `SeqOrder`: the slot being written carries the index being
  written, every other slot an earlier one, so `seq` never returns to a value it
  left. `OddIsWhole`: an odd `seq` vouches for all the words and the blob under it.
  `WriteProgress`: how much of the record is stored. `ReadProgress`: a read in
  progress once found its index published; either the slot still carries that
  index, and what is copied so far is that record, or it has moved on and the
  second load will differ.
* `NeverLapped`: `Spec => []BlockNeverLapped`. The seq of one slot says nothing
  about the writer's position, so `BarrierInv` adds `InItsSlot` (a slot only ever
  carries indexes that belong to it), `Recent` (an index once written is still in
  its slot, or a later one is), `KeptUp` (the writer is at most one ring ahead of a
  registered subscriber, and less than that once past the barrier; the start check
  of `subscribeNow` keeps it for a join in the middle of a wait) and `Registered`.
  `SameSlot` and `PastIsALap` are the arithmetic: two indexes of one slot differ by
  whole laps.
* `NoLoss` (`BlockNoLoss`), `GapsAreReal` (`GapMeansLapped`), `CleanEnd`
  (`CleanEndMissesNothing`), `CanceledOff` (`CanceledIsOffTheBarrier`) and
  `EvictedForGood` (`EvictionIsFinal`, an action property). `MemberInv` says where a
  join or a leave can be: in the queue or in the taken batch, once; it keeps a late
  request from registering again a subscriber that was evicted or has left.
  `CatchUp` says that a target ahead of the cursor was reached only by a lap;
  `EndInv` that the end is published once, at the write index, and nothing is
  written after it; `LeaveInv` that an acknowledged removal is off the barrier;
  `EvictInv` that a severed subscriber is off the barrier and has no call of `Next`
  under way that could return anything else.
* `RingImplementsFeed`: the ring refines the feed, with the feed's indexes ranging
  over the naturals. The simulation needs `FeedInv`: the invariants above,
  `EndingInv`, `SameLane` (a target and its cursor share a slot, so a skip is a
  whole number of laps) and `OneVictim`. There is one simulation lemma per kind of
  step (`JoinSim`, `ReleaseSim`, `WriterSim`, `CallerSim`, `ReaderSim`).

### WatchdogProof and PreStartProof

* `SlipIsExact` (`SlipIsTimeParked`) and `NoEarlyEviction` (`FullTimeout`, an action
  property), for any set of subscribers, timeout and clock. `WatchdogInv` says in the
  middle of a wait what the gauge lacks and that the window of a wait starts with
  the wait or later.
* `NeverLappedWhenFixed` (`AcceptedNeverLapped`) and `RemovedWhenFixed`
  (`LeftStaysLeft`), under `Quiescent`, the documented use: no call changes the list
  once the emit goroutine runs. Without it `AcceptedNeverLapped` fails, which the run
  `prestart_replayd` shows, so `Quiescent` is a hypothesis of the theorems and not an
  assumption on the code. `PreStartInv` says that a direct change of the list comes
  before `StartEmitting` and has no other beside it (`Alone`), that a list that was
  loaded is still the list when it is stored back (`Slice`), that every request is
  queued once (`Queue`), and the bound the barrier keeps (`Room`).

### ServerProof

For any number of clients and any of their requests, any capacity and length of the
stream, with and without a watchdog and a manifest, whatever fails: `TypeCorrect`
(`TypeOK`), `FilesAreHeld` (`FilesOutliveTheRun`), `StatusesAreTrue` (`StatusIsTrue`)
and `CloseReports` (`CloseReportsTheRun`). `ServerInv` relates the program counters.

* `Life` and `Merger` say what `main` and the run have done when: from `Close` on no
  handler is left that could start a run, and the merger is closed by the one or the
  other.
* `Ending` says what the emit goroutine leaves at its end: the ring's end is the write
  index, a manifest on disk agrees with the run's error, and a failure of the run or of
  the manifest is in that error.
* `Places` says whose request may be where. Only a Block client's is ever about to be
  stored, only the emit goroutine applies one it has taken, and one at a time.
* `Apart`, as long as nothing has `raced`: one goroutine at most is changing the list
  itself, none once the run emits, and what was loaded for a request about to be stored
  is still the list. So a store changes the list by the one client it is for
  (`StoreKeeps`).
* `Barrier`, as long as nothing has `raced`: an accepted Block client is on the list
  unless it is gone or evicted, and the writer is at most one ring ahead of everyone on
  the list. It needs `Apart`, and gives that a Block client that stays never has a gap.
* `Streams` says what a stream knows when it picks its status.

The disjunct `raced` in `StatusIsTrue` is thus exactly what the proof has to give up:
without it `Apart` is false, and `prestart_replayd` lapped an accepted Block client.

### MergeProof

For any set of venues and files, any batch shape and number of workers:
`BatchesAreNotShared` (`NoBatchIsShared`) and `FilesOutlast`
(`FilesOutliveDecoding`). `MergeInv` is an account of the batches of each venue:
`Owned` says that the free ones, the ones queued or being filled, the one in the
owner's hand and the one the merge walks are apart and which of them are done;
`Queued` that a work item is for a batch that was issued and is not finished, one per
batch; `Finished` that a finished batch is one its owner still has to look at; `Phase`
which goroutines there are in each phase of the merger.

`MergeIsSorted` (`PrefixOfMerge`) and `StopsExactly` (`StopsWhereTheInputSays`) rest on
three further facts.

* The tree. `Sorted` says that there is a tournament of which `tree` keeps the losers:
  a winner per node, one of its two children's, and a loser that is not before it.
  Then the root has the smallest key (`SmallestWins`); `Init` plays such a tournament
  (`InitSorts`); and `fix` keeps it when only the winner's key changes (`FixSorts`),
  since the winner was the winner of every node on its path, so what `fix` finds there
  are the winners of the other subtrees. `Before` is a strict total order on `KeyType`.
* The files. `Input`: a venue's records are those of its files in order, so their times
  never decrease and a file is an interval of positions (`FileIs`). `CutAt`: where a
  batch may begin is a whole number of batches from the start of its file or the seek
  target, which is what `LastGood` computes by a remainder.
* The pipeline. `RunInv` holds while a run goes on (`Going`). `Due` is the position
  after the last one the caller was given of a venue. `CallerOk`: all records before
  it decode, a batch may begin there, and the caller holds the event before it or is
  at the end. `OwnerOk`: what the owner holds, what is in flight (`Covers`: each batch
  begins where the one before it ends, and stands in the queue, with a worker, or
  filled) and what it will issue next continue from `Due` without a hole, and the seam
  is checked against the record before. `EmittedOk`: of every venue exactly the
  records before its pending one were returned.

From these, the key that a `Next` retires is before every key the tree has afterwards
(`NextKeyIsLater`), so `Advance` never reports an order error that the decoder did not:
two venues' keys differ by the id that `newMerger` requires to be distinct. A batch
with a fault begins at `Due`, and `LastGood` is then the event before it
(`FaultStops`); what was returned is what comes before that event. After the run has
stopped, nothing of what the properties speak about changes.

### PacerProof

For every width of the integers, window, stream of rising times and positive terms of
a speed: `ScheduleExact` (`ScheduleIsExact`), `ReleasesAreNeverEarly` (`NeverEarly`,
an action property) and `ReadOnceAfterStop`, the safety half of `StopEndsWait`. That
every way to write a speed gives the same reduced one needs that the recursive gcd is a
greatest common divisor, which is proved by induction with Bezout's coefficients.
`PacerInv` says that the release time a `Wait` trusts is never more than a window ahead
of the clock, whenever the clock was last read (`Caught`), that the speed stays the
reduced one of the request (`Parameters`), and that after `Stop` the clock is read at
most once more (`ReadAfterStop`).

### StoreProof

For every block size, buffer, set of keys and levels, and every sequence of failed calls
and crashes: `LeavesNothing` (`NothingIsLeftBehind`), `OpenedIsWhole`
(`OpensOnlyWhole`), `ClosedOpens` (`ClosedFileOpens`) and `SeeksExact`
(`SeeksAreExact`). `StoreInv` has four parts. `Shaped`: which variables exist when.
`Content`: while a writer accepts, the file and its buffer together are the header's
place and the records accepted so far, the time index has the first time of each
block, the snapshot index every snapshot, the footer every full block, and the sidecar
and its buffer the blobs the records point to; after `Close` the same plus the pieces
written, step by step. `Progress`: how far the finalization is. `Durable`: the
finalized byte, in the cache or on the disk, is set only over content that is whole
there. From `Whole` the reader's side follows region by region (`WholeRead`): what
`Open` checks, every block's and blob's checksum, the levels decoded. The seeks are
then exact because the binary search finds what a linear one would (`SearchFinds`),
block `b - 1` starts before the target, and one record more than a block is scanned
(`ScanFinds`).

### ArchiveProof

For any finite set of rows, length of a day, `EpochEvery` and bound on numbers:
`ConvertIsAllOrNothing` (`AllOrNothing`), `OldFilesAreKept` (`OldFilesSurvive`, an
action property), `FilesAreThePartition` (`FilesPartitionTheVenue`),
`EpochsKeepTheirCadence` (`CadenceHolds`), `EpochsAreTheBook` (`EpochIsTheBook`) and
`WarmUpIsTheBook` (`WarmUpFindsTheBook`). `ArchiveInv` says which files the
conversion owns, that they are closed in key order (so that the last closed one is the
one being hashed), and what is left of them in an abort. `Filed` and `Dated`: each open
file holds one day, and a venue's last file is the one of its last time, with
`floorDiv` proved to round down on both sides of zero. `Cadence`: the counter and the
flag of a venue tell the truth about its log over all of its files (`Paced`): the
flag is up exactly when `EpochEvery` records have passed, no fewer than those since
the last epoch or the first book, and what came after has one time. The log is the
recursive `Before`; that its recursion has a solution, and that a row adds its epoch
and its record at the end of it, is proved by induction over the days.

The books. Halving lo .. hi ends at the place of a price (`SearchFinds`), so a side
stays a `Ladder`, its prices strictly rising, and `upsert` changes the one level
(`Upserted`); `ByPrice` lists the levels it is given by their rank (`Sorts`), so a
snapshot replaces a side by its own levels (`AscendingIs`). What the records say of a
level is the word of the last one that touches it (`Word`, `LastTouch`), and each kind
of record changes the words as `Apply` changes the book (`ApplyHolds`, `OtherHolds`).
`Recorded` carries this over the conversion, for every venue: its books are what its
log adds up to (`Kept`); each of its files tells them (`FileTells`), that is, every run
of epoch records in it has one snapshot for each instrument with a book, the book of
the log before the run (`Told`); each record of a file fits the log before it
(`FileFits`: a delta of size zero names a level that is there, a snapshot has no price
twice); and its last record is of no epoch, so that an epoch is a run of its own. An
epoch changes no level (`EpochKeepsLevels`), which is why it may stand between the
records.

The warm-up reads such a file. `rewind` returns a run of snapshots with the
instrument, after which no snapshot of it comes, or says that there is none
(`Rewound`), by induction over the index it goes back from. Where the run does not
contradict itself the snapshot it starts from is the book at the end of the run
(`RunHolds`); without one the book is empty, and so is what earlier days say when the
file needs none of them. From there the replay never refuses a delta and holds the
book of the log after each record (`ReplayHolds`).

### What the assumptions ask

They are what the code's types and checks give: capacities, sizes and bounds are
naturals and positive where the code rejects zero, times are integers, the rows of a
conversion are finitely many, ids and levels are sequences of naturals, a pacer's
times fit its integers. The rows' instruments and sides are naturals, their prices
integers and their levels sequences of the three fields, as the Parquet schema types
them. A merge's files are sequences of keys of the code's four
integer fields, all before the sentinel and with times that do not decrease within a
venue, which the converter sees to and `Cursor.SeekTime` relies on.

### Only model-checked

Liveness (`RequestsAreAnswered`, `WatchdogFreesWriter`, `ReadersFinish`,
`AlwaysCloses`, `StopEndsWait`'s second half, `DueIsReleased`, `StreamsEnd`,
`ShutdownCompletes`): it needs fairness and `ENABLED`, out of the prover's reach.
Every invariant and action property that a passing run checks is proved. Induction
over data is available only through the least number principle, one recursive
function at a time, as for the gcd, the log of the days, the search, the rewind and
the replay. `TypeOK` of `PreStart` and `Watchdog` is a conjunct of their
inductive invariants; that of `Server` is proved and needs no run; that of `Merge`, `Pacer`, `Store` and `Archive` has no theorem:
their invariants state the shapes their proofs use.

## 5. Not modelled, and the plan

Left out: byte layouts and the polynomial of a checksum (a checksum is the value
it covers), the canonical hash and the digest of the emit loop (a hash of the
stream that `PrefixOfMerge` says is the same for every schedule), memory mapping
(operating system), gRPC, flags, JSON and metrics, the parquet schema and its
check, `SleepUntil` and steps of the wall clock, the catalogue's database
inserts, the determinism linter, benchmarks and test support, generated code. The
composition of the store's files with the merge is by their interface: `Merge`
takes files whose blocks and blobs may fail to verify, which is what `Store`
says an opened file can do.

What is left to do: the proofs of the remaining type invariants, and a module that
composes the files of `Store` with the cursors of `Merge` instead of their interface.
