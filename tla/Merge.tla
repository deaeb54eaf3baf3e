-------------------------------- MODULE Merge --------------------------------
(***************************************************************************)
(* internal/merge: the k-way merge of the venues' files.  One owner        *)
(* goroutine per venue cuts its files into ranges, has a shared pool of    *)
(* workers decode them into recycled batches, and sends the batches in     *)
(* file order; the merge takes one event per venue ahead and lets a loser  *)
(* tree choose.  With no workers the merge decodes in its own goroutine.   *)
(*                                                                         *)
(* A venue's records are numbered through all its files in order, so a     *)
(* (file, index) pair of the code is one position here, and a batch is a   *)
(* range of positions.  Decoding is a function of the files; what is left  *)
(* of it is the first fault it meets.                                      *)
(***************************************************************************)
EXTENDS Integers, Sequences, FiniteSets, SequencesExt

CONSTANTS
  Datasets,     \* the inputs: [ids, files], a file is [keys, badBlocks, badBlobs]
  SeekTimes,    \* targets of Cursor.SeekTime applied before construction
  SentinelKey,  \* <<max ts, max venue, max sequence, max instrument>>
  BlockRecs,    \* store.Reader.BlockSizeRecords
  Shapes,       \* batchShapes: [records, batches]
  WorkerCounts  \* sizes of the pool, 0 for a merger without one

\* compareKey(a, b) < 0: lexicographic over the four fields.
Before(a, b) ==
  \E n \in 1 .. 4 : a[n] < b[n] /\ \A m \in 1 .. (n - 1) : a[m] = b[m]

\* Key: exchange_ts, venue_id, sequence, instrument_id.
KeyType == Int \X Nat \X Nat \X Nat

ASSUME MergeAssumption ==
  /\ BlockRecs \in Nat \ {0}
  /\ \A s \in Shapes : s.records \in Nat \ {0} /\ s.batches \in Nat \ {0, 1}
  /\ WorkerCounts \subseteq Nat
  /\ SentinelKey \in KeyType /\ SeekTimes \subseteq Int
  /\ \A d \in Datasets : d.ids \in Seq(Nat) /\ DOMAIN d.files = DOMAIN d.ids
  /\ \A d \in Datasets : \A v \in DOMAIN d.files :
       /\ d.files[v] \in Seq(ToSet(d.files[v]))
       /\ \A f \in DOMAIN d.files[v] :
            LET ks == d.files[v][f].keys
            IN  /\ ks \in Seq(KeyType) /\ \A i \in DOMAIN ks : Before(ks[i], SentinelKey)
                \* exchange_ts never decreases within a venue: the converter sees to it
                /\ \A g \in 1 .. f : \A i \in DOMAIN ks : \A j \in DOMAIN d.files[v][g].keys :
                     g < f \/ j < i => d.files[v][g].keys[j][1] <= ks[i][1]

VARIABLES
  data,     \* the input of this run, as Load gives it
  workers,  \* size of the pool and capacity of its queue; 0 decodes inline
  shape,    \* the batchShape
  seek,     \* the target of SeekTime
  opc,      \* per venue, where venueFeed.run is
  opos,     \* its next position (file, index); in an inline run, the cursor's
  hand,     \* its local b, 0 when nil
  inflight, \* its local inflight
  olast,    \* venueFeed.last as a position, 0 when hasLast is false
  free,     \* venueFeed.free
  batch,    \* per venue and batch: the range decoded, err and done
  queue,    \* pool.queue
  busy,     \* the items the workers are decoding
  mpc,      \* where the goroutine that calls NewMerger, Next and Close is
  ask,      \* the venue it is refilling or draining
  held,     \* feed.held, 0 when nil
  pos,      \* the position after the last one feed.next returned
  pending,  \* Merger.pending
  keys,     \* LoserTree.keys
  tree,     \* LoserTree.tree
  merr,     \* Merger.err, "ok" when nil
  abort,    \* Merger.abort
  open,     \* the readers are not closed yet
  emitted   \* the events returned by Next

owners == <<opc, opos, hand, inflight, olast>>
pool == <<queue, busy>>
merger == <<pending, keys, tree, merr, emitted>>
input == <<data, workers, shape, seek>>
vars == <<input, owners, free, batch, pool, mpc, ask, held, pos, merger, abort, open>>

K == Len(data.ids)
Venues == 1 .. K
inline == workers = 0
BatchIds == 1 .. shape.batches

------------------------------------------------------------------------------
(* The files *)

\* A venue's records in file and record order: where each one is, its key, and
\* whether its block and its payload verify.
Records(files) ==
  FlattenSeq([f \in DOMAIN files |->
    [i \in DOMAIN files[f].keys |->
       [file |-> f, key |-> files[f].keys[i],
        blockOk |-> ((i - 1) \div BlockRecs) \notin files[f].badBlocks,
        blobOk |-> i \notin files[f].badBlobs]]])

Load(d) == [ids |-> d.ids, recs |-> [v \in DOMAIN d.files |-> Records(d.files[v])]]

Positions(v) == DOMAIN data.recs[v]

keyOf(v, p) == data.recs[v][p].key

\* The first and the last position in the file that holds p.
FileStart(v, p) == Min({q \in Positions(v) : data.recs[v][q].file = data.recs[v][p].file})
FileEnd(v, p) == Max({q \in Positions(v) : data.recs[v][q].file = data.recs[v][p].file})

checkOrder(prev, next) ==
  CASE prev = next -> "duplicate"
    [] Before(next, prev) -> "outOfOrder"
    [] OTHER -> "ok"

\* What decoding position p reports; follows: it is checked against p - 1.
Fault(v, p, follows) ==
  CASE ~data.recs[v][p].blockOk -> "checksum"
    [] keyOf(v, p)[2] # data.ids[v] -> "venueMismatch"
    [] follows /\ checkOrder(keyOf(v, p - 1), keyOf(v, p)) # "ok" ->
         checkOrder(keyOf(v, p - 1), keyOf(v, p))
    [] ~data.recs[v][p].blobOk -> "blob"
    [] OTHER -> "ok"

\* Decode from .. to until the first fault.
fill(v, from, to, carried) ==
  LET faulty == {p \in from .. to : Fault(v, p, p > from \/ carried) # "ok"}
      stop == Min(faulty)
  IN  IF faulty = {} THEN [first |-> from, last |-> to, err |-> "ok", done |-> FALSE]
      ELSE [first |-> from, last |-> stop - 1,
            err |-> Fault(v, stop, stop > from \/ carried), done |-> FALSE]

\* Cursor.SeekTime: the first record at or after t in the first file that has
\* one, the end of the venue when none has.
SeekTime(v, t) ==
  LET reach == {p \in Positions(v) : keyOf(v, p)[1] >= t}
  IN  IF reach = {} THEN Len(data.recs[v]) + 1 ELSE Min(reach)

\* Where the merge of this run starts in the files of v.
Start(v) == SeekTime(v, seek)

------------------------------------------------------------------------------
(* The loser tree: leaf i is cursor i + 1, padded to a power of two *)

\* NewLoserTree doubles 1 until it holds K.
Doubled == LET m[d \in 0 .. K] == IF d = 0 THEN 1 ELSE 2 * m[d - 1] IN m
Depth == Min({d \in 0 .. K : Doubled[d] >= K})
Leaves == Doubled[Depth]

\* LoserTree.Init: a full tournament, the loser kept where it lost.
treeInit(ks) ==
  LET win[n \in 1 .. (2 * Leaves - 1)] ==
        IF n >= Leaves THEN n - Leaves
        ELSE IF Before(ks[win[2 * n + 1]], ks[win[2 * n]]) THEN win[2 * n + 1]
        ELSE win[2 * n]
  IN  [n \in 0 .. (Leaves - 1) |->
         IF n = 0 THEN win[1]
         ELSE IF win[n] = win[2 * n] THEN win[2 * n + 1] ELSE win[2 * n]]

\* The nodes from the leaf of cursor i to the root.
path(i) ==
  LET node[d \in 0 .. Depth] == IF d = 0 THEN Leaves + i ELSE node[d - 1] \div 2 IN node

\* LoserTree.fix: cursor i replays its matches from its leaf to the root.
fix(t, ks, i) ==
  LET node == path(i)
      up[d \in 0 .. Depth] ==
        IF d = 0 THEN i
        ELSE IF Before(ks[t[node[d]]], ks[up[d - 1]]) THEN t[node[d]] ELSE up[d - 1]
      left(d) == IF up[d] = up[d - 1] THEN t[node[d]] ELSE up[d - 1]
  IN  [n \in 0 .. (Leaves - 1) |->
         IF n = 0 THEN up[Depth]
         ELSE IF \E d \in 1 .. Depth : node[d] = n
              THEN left(CHOOSE d \in 1 .. Depth : node[d] = n) ELSE t[n]]

------------------------------------------------------------------------------
Init ==
  /\ \E d \in Datasets : data = Load(d)
  /\ workers \in WorkerCounts
  /\ shape \in Shapes
  /\ seek \in SeekTimes
  /\ opc = [v \in Venues |-> "none"]
  /\ opos = [v \in Venues |-> Start(v)]
  /\ hand = [v \in Venues |-> 0]
  /\ inflight = [v \in Venues |-> <<>>]
  /\ olast = [v \in Venues |-> 0]
  /\ free = [v \in Venues |-> <<>>]
  /\ batch = [v \in Venues |-> [b \in BatchIds |->
                [first |-> 1, last |-> 0, err |-> "ok", done |-> FALSE]]]
  /\ queue = <<>>
  /\ busy = {}
  /\ mpc = "new"
  /\ ask = 0
  /\ held = [v \in Venues |-> 0]
  /\ pos = [v \in Venues |-> 1]
  /\ pending = [v \in Venues |-> 0]
  /\ keys = [i \in 0 .. (Leaves - 1) |-> SentinelKey]
  /\ tree = [i \in 0 .. (Leaves - 1) |-> 0]
  /\ merr = "ok"
  /\ abort = FALSE
  /\ open = TRUE
  /\ emitted = <<>>

------------------------------------------------------------------------------
(* venueFeed.run *)

\* Issue ahead while the venue holds fewer than batches - 1 of them; with
\* nothing in flight the owner ends and closes its channel.
Issue(v) ==
  /\ opc[v] = "issue"
  /\ IF Len(inflight[v]) < shape.batches - 1 /\ ~abort /\ opos[v] \in Positions(v)
     THEN /\ opc' = [opc EXCEPT ![v] = "take"]
          /\ UNCHANGED <<hand, inflight>>
     ELSE IF inflight[v] = <<>>
     THEN /\ opc' = [opc EXCEPT ![v] = "closed"]
          /\ UNCHANGED <<hand, inflight>>
     ELSE /\ opc' = [opc EXCEPT ![v] = "await"]
          /\ hand' = [hand EXCEPT ![v] = Head(inflight[v])]
          /\ inflight' = [inflight EXCEPT ![v] = Tail(@)]
  /\ UNCHANGED <<input, opos, olast, free, batch, pool, mpc, ask, held, pos, merger,
                 abort, open>>

\* b := <-f.free
TakeFree(v) ==
  /\ opc[v] = "take"
  /\ free[v] # <<>>
  /\ hand' = [hand EXCEPT ![v] = Head(free[v])]
  /\ free' = [free EXCEPT ![v] = Tail(@)]
  /\ opc' = [opc EXCEPT ![v] = "put"]
  /\ UNCHANGED <<input, opos, inflight, olast, batch, pool, mpc, ask, held, pos,
                 merger, abort, open>>

\* The last position of the range nextRange cuts at p: it ends with its file.
nextRange(v, p) == Min({p + shape.records - 1, FileEnd(v, p)})

\* p.queue <- workItem{...}
PutWork(v) ==
  /\ opc[v] = "put"
  /\ Len(queue) < workers
  /\ LET to == nextRange(v, opos[v])
     IN  /\ queue' = Append(queue, [v |-> v, b |-> hand[v], from |-> opos[v], to |-> to])
         /\ opos' = [opos EXCEPT ![v] = to + 1]
  /\ inflight' = [inflight EXCEPT ![v] = Append(@, hand[v])]
  /\ hand' = [hand EXCEPT ![v] = 0]
  /\ opc' = [opc EXCEPT ![v] = "issue"]
  /\ UNCHANGED <<input, olast, free, batch, busy, mpc, ask, held, pos, merger, abort, open>>

\* checkSeam: the first key of a batch against the last key the venue produced.
checkSeam(v, b) ==
  IF b.last < b.first \/ olast[v] = 0 THEN "ok"
  ELSE checkOrder(keyOf(v, olast[v]), keyOf(v, b.first))

\* Mutant of AwaitDone: batches are sent in the order the workers finish them.
AwaitAny(v) ==
  /\ opc[v] = "await"
  /\ ~abort
  /\ \E b \in {hand[v]} \cup ToSet(inflight[v]) :
       /\ batch[v][b].done
       /\ batch' = [batch EXCEPT ![v][b].done = FALSE]
       /\ hand' = [hand EXCEPT ![v] = b]
       /\ inflight' = [inflight EXCEPT ![v] =
            IF b = hand[v] THEN @ ELSE <<hand[v]>> \o SelectSeq(@, LAMBDA c : c # b)]
  /\ opc' = [opc EXCEPT ![v] = "send"]
  /\ UNCHANGED <<input, opos, olast, free, pool, mpc, ask, held, pos, merger, abort, open>>

\* <-b.done, the abort test and the seam; an aborted owner leaves what it issued.
AwaitDone(v) ==
  LET b == batch[v][hand[v]]
      seam == IF b.err = "ok" THEN checkSeam(v, b) ELSE "ok"
  IN
  /\ opc[v] = "await"
  /\ b.done
  /\ IF abort
     THEN /\ opc' = [opc EXCEPT ![v] = "closed"]
          /\ batch' = [batch EXCEPT ![v][hand[v]].done = FALSE]
          /\ UNCHANGED olast
     ELSE /\ opc' = [opc EXCEPT ![v] = "send"]
          /\ batch' = [batch EXCEPT ![v][hand[v]].done = FALSE,
                         ![v][hand[v]].err = IF @ = "ok" THEN seam ELSE @]
          /\ olast' = IF b.err = "ok" /\ seam = "ok" /\ b.first <= b.last
                      THEN [olast EXCEPT ![v] = b.last] ELSE olast
  /\ UNCHANGED <<input, opos, hand, inflight, free, pool, mpc, ask, held, pos, merger,
                 abort, open>>

------------------------------------------------------------------------------
(* The pool.  Workers carry no identity: they are the items they hold. *)

TakeWork ==
  /\ queue # <<>>
  /\ Cardinality(busy) < workers
  /\ busy' = busy \cup {Head(queue)}
  /\ queue' = Tail(queue)
  /\ UNCHANGED <<input, owners, free, batch, mpc, ask, held, pos, merger, abort, open>>

FinishWork ==
  \E it \in busy :
    /\ ~batch[it.v][it.b].done
    /\ batch' = [batch EXCEPT ![it.v][it.b] =
                   [fill(it.v, it.from, it.to, FALSE) EXCEPT !.done = TRUE]]
    /\ busy' = busy \ {it}
    /\ UNCHANGED <<input, owners, free, queue, mpc, ask, held, pos, merger, abort, open>>

------------------------------------------------------------------------------
(* newMerger, Next and Close *)

\* newMerger refuses two cursors of one venue before it starts anything.
New ==
  /\ mpc = "new"
  /\ IF Cardinality(ToSet(data.ids)) < K
     THEN /\ mpc' = "refused"
          /\ UNCHANGED <<opc, free, ask, held>>
     ELSE /\ mpc' = "seed"
          /\ ask' = 1
          /\ IF inline THEN held' = [v \in Venues |-> 1] /\ UNCHANGED <<opc, free>>
             ELSE /\ opc' = [v \in Venues |-> "issue"]
                  /\ free' = [v \in Venues |-> [b \in BatchIds |-> b]]
                  /\ UNCHANGED held
  /\ UNCHANGED <<input, opos, hand, inflight, olast, batch, pool, pos, merger, abort, open>>

\* What the caller of feed.next does with position p of venue v, 0 at the end of
\* the venue: the constructor seeds the tree, Next pops its winner.
Deliver(seeding, v, p) ==
  LET ks == [keys EXCEPT ![v - 1] = IF p = 0 THEN SentinelKey ELSE keyOf(v, p)]
      t == fix(tree, ks, v - 1)
      verdict == IF ks[t[0]] = SentinelKey THEN "ok"
                 ELSE checkOrder(keys[v - 1], ks[t[0]])
  IN
  /\ keys' = ks
  /\ pending' = IF p = 0 THEN pending ELSE [pending EXCEPT ![v] = p]
  /\ IF seeding
     THEN ask' = v + 1 /\ mpc' = "seed" /\ UNCHANGED <<tree, merr, emitted>>
     ELSE /\ ask' = 0
          /\ mpc' = "idle"
          /\ tree' = t
          /\ merr' = verdict
          /\ emitted' = IF verdict = "ok" THEN Append(emitted, <<v, pending[v]>>) ELSE emitted

\* An error of feed.next: the constructor closes the merger, Next keeps it.
Fail(seeding, e) ==
  /\ merr' = e
  /\ mpc' = IF seeding THEN "failed" ELSE "idle"
  /\ ask' = 0
  /\ UNCHANGED <<pending, keys, tree, emitted>>

\* fillFromCursor: the next batch of a run without workers.  A cursor reads across
\* files and checks every record against the one before.
fillFromCursor(v) ==
  LET to == Min({opos[v] + shape.records - 1, Len(data.recs[v])})
  IN  fill(v, opos[v], to, opos[v] > Start(v))

\* Mutant of Refill: the spent batch is not handed back before the receive.
RefillKeeps(seeding, v) ==
  /\ ~inline
  /\ mpc' = IF seeding THEN "seedRecv" ELSE "nextRecv"
  /\ ask' = v
  /\ held' = [held EXCEPT ![v] = 0]
  /\ UNCHANGED <<merger, opos, batch, pos, free>>

\* feed.refill: decode the next batch here, or hand the spent one back and
\* receive.
Refill(seeding, v) ==
  IF inline
  THEN LET b == fillFromCursor(v)
       IN  /\ batch' = [batch EXCEPT ![v][held[v]] = b]
           /\ opos' = [opos EXCEPT ![v] = b.last + 1]
           /\ UNCHANGED <<free, held>>
           /\ IF b.err # "ok" THEN Fail(seeding, b.err) /\ UNCHANGED pos
              ELSE /\ pos' = [pos EXCEPT ![v] = b.first + 1]
                   /\ Deliver(seeding, v, IF b.last < b.first THEN 0 ELSE b.first)
  ELSE /\ free' = IF held[v] = 0 THEN free ELSE [free EXCEPT ![v] = Append(@, held[v])]
       /\ held' = [held EXCEPT ![v] = 0]
       /\ mpc' = IF seeding THEN "seedRecv" ELSE "nextRecv"
       /\ ask' = v
       /\ UNCHANGED <<merger, opos, batch, pos>>

\* The constructor asks each venue in turn for its first event ...
Seed ==
  /\ mpc = "seed"
  /\ ask \in Venues
  /\ Refill(TRUE, ask)
  /\ UNCHANGED <<input, opc, hand, inflight, olast, pool, abort, open>>

\* ... and builds the tree.
Seeded ==
  /\ mpc = "seed"
  /\ ask > K
  /\ tree' = treeInit(keys)
  /\ mpc' = "idle"
  /\ ask' = 0
  /\ UNCHANGED <<input, owners, free, batch, pool, held, pos, pending, keys, merr,
                 emitted, abort, open>>

Winner == tree[0] + 1

\* Next when the winner's batch holds another event.
NextInBatch ==
  /\ mpc = "idle" /\ merr = "ok"
  /\ keys[tree[0]] # SentinelKey
  /\ pos[Winner] <= batch[Winner][held[Winner]].last
  /\ pos' = [pos EXCEPT ![Winner] = @ + 1]
  /\ Deliver(FALSE, Winner, pos[Winner])
  /\ UNCHANGED <<input, owners, free, batch, pool, held, abort, open>>

\* Next when it does not.
NextRefill ==
  /\ mpc = "idle" /\ merr = "ok"
  /\ keys[tree[0]] # SentinelKey
  /\ pos[Winner] > batch[Winner][held[Winner]].last
  /\ Refill(FALSE, Winner)
  /\ UNCHANGED <<input, opc, hand, inflight, olast, pool, abort, open>>

\* Next when every venue is exhausted.
NextEnd ==
  /\ mpc = "idle" /\ merr = "ok"
  /\ keys[tree[0]] = SentinelKey
  /\ mpc' = "ended"
  /\ UNCHANGED <<input, owners, free, batch, pool, ask, held, pos, merger, abort, open>>

\* Mutant of Receive: the batch is free again as soon as it is received.
ReceiveFrees ==
  /\ mpc \in {"seedRecv", "nextRecv"}
  /\ opc[ask] = "send"
  /\ held' = [held EXCEPT ![ask] = hand[ask]]
  /\ free' = [free EXCEPT ![ask] = Append(@, hand[ask])]
  /\ hand' = [hand EXCEPT ![ask] = 0]
  /\ opc' = [opc EXCEPT ![ask] = "issue"]
  /\ pos' = [pos EXCEPT ![ask] = batch[ask][hand[ask]].first + 1]
  /\ Deliver(mpc = "seedRecv", ask, batch[ask][hand[ask]].first)
  /\ UNCHANGED <<input, opos, inflight, olast, batch, pool, abort, open>>

\* Mutant of Receive: the records before an error are emitted.
ReceivePartial ==
  /\ mpc \in {"seedRecv", "nextRecv"}
  /\ opc[ask] = "send"
  /\ LET b == batch[ask][hand[ask]]
     IN  /\ held' = [held EXCEPT ![ask] = hand[ask]]
         /\ hand' = [hand EXCEPT ![ask] = 0]
         /\ opc' = [opc EXCEPT ![ask] = "issue"]
         /\ IF b.err # "ok" /\ b.last < b.first
            THEN Fail(mpc = "seedRecv", b.err) /\ UNCHANGED pos
            ELSE /\ pos' = [pos EXCEPT ![ask] = b.first + 1]
                 /\ Deliver(mpc = "seedRecv", ask, b.first)
  /\ UNCHANGED <<input, opos, inflight, olast, free, batch, pool, abort, open>>

\* The receive in refill meets the owner's send.
Receive ==
  /\ mpc \in {"seedRecv", "nextRecv"}
  /\ opc[ask] = "send"
  /\ LET b == batch[ask][hand[ask]]
     IN  /\ held' = [held EXCEPT ![ask] = hand[ask]]
         /\ hand' = [hand EXCEPT ![ask] = 0]
         /\ opc' = [opc EXCEPT ![ask] = "issue"]
         /\ IF b.err # "ok" THEN Fail(mpc = "seedRecv", b.err) /\ UNCHANGED pos
            ELSE /\ pos' = [pos EXCEPT ![ask] = b.first + 1]
                 /\ Deliver(mpc = "seedRecv", ask, IF b.last < b.first THEN 0 ELSE b.first)
  /\ UNCHANGED <<input, opos, inflight, olast, free, batch, pool, abort, open>>

\* The receive finds the channel closed: the venue is exhausted.
ReceiveClosed ==
  /\ mpc \in {"seedRecv", "nextRecv"}
  /\ opc[ask] = "closed"
  /\ Deliver(mpc = "seedRecv", ask, 0)
  /\ UNCHANGED <<input, owners, free, batch, pool, held, pos, abort, open>>

\* Close, called between two calls of Next or by the failing constructor.
Close ==
  /\ mpc \in {"idle", "ended", "failed"}
  /\ IF inline THEN mpc' = "closed" /\ open' = FALSE /\ UNCHANGED <<ask, abort>>
     ELSE mpc' = "drain" /\ ask' = 1 /\ abort' = TRUE /\ UNCHANGED open
  /\ UNCHANGED <<input, owners, free, batch, pool, held, pos, merger>>

\* Close empties each venue's channel in turn until its owner closes it.
Drain ==
  /\ mpc = "drain"
  /\ ask \in Venues
  /\ \/ /\ opc[ask] = "send"
        /\ free' = [free EXCEPT ![ask] = Append(@, hand[ask])]
        /\ hand' = [hand EXCEPT ![ask] = 0]
        /\ opc' = [opc EXCEPT ![ask] = "issue"]
        /\ UNCHANGED ask
     \/ /\ opc[ask] = "closed"
        /\ ask' = ask + 1
        /\ UNCHANGED <<free, hand, opc>>
  /\ UNCHANGED <<input, opos, inflight, olast, batch, pool, mpc, held, pos, merger,
                 abort, open>>

\* Mutant of StopPool: the files are closed without waiting for the workers.
StopPoolEarly ==
  /\ mpc = "drain"
  /\ ask > K
  /\ mpc' = "closed"
  /\ open' = FALSE
  /\ UNCHANGED <<input, owners, free, batch, pool, ask, held, pos, merger, abort>>

\* pool.stop lets the queued work finish, then the cursors close their readers.
StopPool ==
  /\ mpc = "drain"
  /\ ask > K
  /\ queue = <<>> /\ busy = {}
  /\ mpc' = "closed"
  /\ open' = FALSE
  /\ UNCHANGED <<input, owners, free, batch, pool, ask, held, pos, merger, abort>>

------------------------------------------------------------------------------
Owner(v) == Issue(v) \/ TakeFree(v) \/ PutWork(v) \/ AwaitDone(v)
Worker == TakeWork \/ FinishWork
Merging == New \/ Seed \/ Seeded \/ NextInBatch \/ NextRefill \/ NextEnd \/ Receive
             \/ ReceiveClosed
Closing == Close \/ Drain \/ StopPool

Next == (\E v \in Venues : Owner(v)) \/ Worker \/ Merging \/ Closing

\* Every goroutine that can run does; the caller calls Next or Close again.
Spec == Init /\ [][Next]_vars /\ WF_vars(\E v \in Venues : Owner(v)) /\ WF_vars(Worker)
             /\ WF_vars(Merging \/ Closing)
------------------------------------------------------------------------------
(* What the merge owes its caller *)

\* The records of v the run is about, and how far they decode.
Wanted(v) == {p \in Positions(v) : keyOf(v, p)[1] >= seek}
Faults(v) == {p \in Wanted(v) : Fault(v, p, p - 1 \in Wanted(v)) # "ok"}
Valid == UNION {{<<v, p>> : p \in {q \in Wanted(v) : \A f \in Faults(v) : q < f}} : v \in Venues}
EventKey(e) == keyOf(e[1], e[2])

\* The last record of v before the batch that holds its first fault.
LastGood(v) ==
  LET p == Min(Faults(v))
      base == IF inline THEN Start(v) ELSE Max({Start(v), FileStart(v, p)})
  IN  p - ((p - base) % shape.records) - 1

\* The events emitted before the run stops at a fault.
UpToFault == {e \in Valid : \A v \in Venues : Faults(v) # {} =>
                /\ LastGood(v) \in Wanted(v)
                /\ Before(EventKey(e), keyOf(v, LastGood(v)))}

\* Types of the variables.
TypeOK ==
  /\ data \in {Load(d) : d \in Datasets} /\ workers \in WorkerCounts /\ shape \in Shapes /\ seek \in SeekTimes
  /\ \A v \in Venues :
       /\ opc[v] \in {"none", "issue", "take", "put", "await", "send", "closed"}
       /\ opos[v] \in 1 .. (Len(data.recs[v]) + 1)
       /\ {hand[v], held[v]} \subseteq 0 .. shape.batches
       /\ ToSet(inflight[v]) \cup ToSet(free[v]) \subseteq BatchIds
       /\ Len(inflight[v]) < shape.batches /\ Len(free[v]) <= shape.batches
  /\ Len(queue) <= workers /\ Cardinality(busy) <= workers
  /\ mpc \in {"new", "refused", "seed", "seedRecv", "nextRecv", "idle", "ended",
              "failed", "drain", "closed"}
  /\ ask \in 0 .. (K + 1)
  /\ abort \in BOOLEAN /\ open \in BOOLEAN

\* Whatever the workers and owners interleave, Next has returned a prefix of the
\* one sorted merge of the records that decode: in strict key order, none of
\* them invented, none skipped.
PrefixOfMerge ==
  /\ \A i \in 1 .. (Len(emitted) - 1) : Before(EventKey(emitted[i]), EventKey(emitted[i + 1]))
  /\ ToSet(emitted) \subseteq Valid
  /\ \A e \in Valid : \A i \in DOMAIN emitted :
       Before(EventKey(e), EventKey(emitted[i])) => e \in ToSet(emitted)

\* Where a run stops is the input's doing, never the schedule's.  A clean end
\* means that every record of every venue from the seek target on was returned
\* and that none of them had a fault: no corruption, duplicate or disorder, in a
\* batch, at a seam or at a file boundary, ends a run quietly.  An error comes
\* after exactly the records that the input and the batch shape put before it.
StopsWhereTheInputSays ==
  /\ mpc = "ended" => /\ \A v \in Venues : Faults(v) = {}
                      /\ ToSet(emitted) = Valid
  /\ merr # "ok" => ToSet(emitted) = UpToFault

\* A batch is in one pair of hands: no worker fills one that the merge walks,
\* that is being sent, or that is free, and no finished value waits unread when
\* it is filled again.
NoBatchIsShared ==
  \A v \in Venues :
    LET filling == {it.b : it \in {i \in busy \cup ToSet(queue) : i.v = v}}
        sending == IF opc[v] \in {"put", "send"} THEN {hand[v]} ELSE {}
    IN  /\ filling \cap (ToSet(free[v]) \cup {held[v]} \cup sending) = {}
        /\ ToSet(free[v]) \cap ({held[v]} \cup sending) = {}
        /\ Cardinality(ToSet(free[v])) = Len(free[v])
        /\ held[v] \notin sending
        /\ \A it \in busy : ~batch[it.v][it.b].done

\* The readers are closed only when no owner can queue work and no worker
\* decodes from them any more.
FilesOutliveDecoding ==
  ~open => busy = {} /\ queue = <<>> /\ \A v \in Venues : opc[v] \in {"none", "closed"}

\* Every call returns: the run is refused or comes to its close with every
\* goroutine ended, from whatever point Close was called at.
AlwaysCloses == <>(mpc \in {"refused", "closed"})
=============================================================================
