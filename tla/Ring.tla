-------------------------------- MODULE Ring --------------------------------
(***************************************************************************)
(* The fan-out ring of internal/fanout: one emit goroutine that writes     *)
(* records into a fixed number of slots (ring.go, barrier.go, fanout.go),  *)
(* any number of subscriber goroutines that read them through their own    *)
(* cursors (subscriber.go, gap.go), and callers that join and leave        *)
(* through the control queue (lifecycle.go).                               *)
(*                                                                         *)
(* Every step is one shared access of the code: a load or a store of an    *)
(* atomic word, or a section under the control queue's mutex.  A record is *)
(* represented by its emit index: the words of a slot hold the index of    *)
(* the record each was encoded from, so a torn read is a copy whose words  *)
(* come from different indexes.                                            *)
(***************************************************************************)
EXTENDS Integers, Sequences, FiniteSets

CONSTANTS
  Capacity,    \* Config.Capacity, the number of slots
  Words,       \* slotWords, the atomic words of one record
  Total,         \* how many records the merge yields before its clean end
  Snapshots,   \* the emit indexes of snapshot pointers, which carry a blob
  Ts,          \* Ts[n] is the exchange timestamp of the record at index n
  Subs,        \* the subscribers that may be created
  Modes,       \* the backpressure modes callers ask for
  Starts,      \* the start positions callers ask for
  Watchdog,    \* Config.WatchdogTimeout > 0
  BareCancel   \* callers use Subscriber.Cancel without Ring.Unsubscribe

Block == "block"
Drop  == "drop"

StartKinds == {"beginning", "exchangeTs", "emitIndex", "live"}

StartAt == [kind : StartKinds, arg : Nat]

\* NewRing accepts a power of two of at least two, for which the mask of
\* Write and read is the remainder taken by Slot below.
ASSUME CapacityAssumption == Capacity \in Nat /\ Capacity >= 2

\* The word that carries RecordType and the one that carries BlobLen differ.
ASSUME WordsAssumption == Words \in Nat /\ Words >= 2

ASSUME StreamAssumption ==
  /\ Total \in Nat
  /\ Snapshots \subseteq 0 .. (Total - 1)
  /\ Ts \in [0 .. (Total - 1) -> Nat]

\* Subscribe rejects every other mode, and the zero StartAt.
ASSUME RequestAssumption ==
  /\ Modes \subseteq {Block, Drop}
  /\ Starts \subseteq StartAt
  /\ Watchdog \in BOOLEAN
  /\ BareCancel \in BOOLEAN

\* What a slot's words hold before the first write.
Fresh == -1

NoStart == [kind |-> "live", arg |-> 0]

VARIABLES
  seq,         \* slot.seq, per slot
  word,        \* slot.words, per slot
  blob,        \* the slot's region of Ring.blobs
  writeSeq,    \* Ring.writeSeq
  endPlusOne,  \* Ring.endPlusOne
  blocking,    \* Ring.blocking
  pending,     \* controlQueue.pending
  started,     \* controlQueue.started
  closed,      \* controlQueue.closed
  wpc,         \* where the emit goroutine is
  wk,          \* the word the emit goroutine stores next
  batch,       \* the requests applyControl or closeControl took and has left
  victim,      \* the subscriber evictStalledBlockSubscriber has chosen
  joiner,      \* per subscriber, where the caller of Subscribe is
  leaver,      \* per subscriber, where the caller of Unsubscribe is
  mode,        \* Subscriber.mode
  start,       \* Subscriber.start
  cursor,      \* Subscriber.cursor, and pos, which only its own Next touches
  evicted,     \* Subscriber.evicted
  canceled,    \* Subscriber.canceled
  rpc,         \* where the subscriber's call of Next is
  target,      \* the local target of Ring.next
  rk,          \* the word read copies next
  buf,         \* the local copy of the words in read
  bbuf,        \* the local copy of the blob in read
  out,         \* the last Delivery
  res          \* what the last call of Next returned

slotVars   == <<seq, word, blob>>
writerVars == <<wpc, wk, batch, victim>>
ctrlVars   == <<pending, started, closed>>
callerVars == <<joiner, leaver, mode, start>>
readVars   == <<rpc, target, rk, buf, bbuf, out, res>>
stopVars   == <<evicted, canceled>>

vars == <<slotVars, writeSeq, endPlusOne, blocking, ctrlVars, writerVars,
          callerVars, cursor, stopVars, readVars>>

Slots == 0 .. (Capacity - 1)

\* n & r.mask
Slot(n) == n % Capacity

EmptyBuf == [j \in 1 .. Words |-> Fresh]

NoDelivery == [words |-> EmptyBuf, blob |-> Fresh, index |-> 0, first |-> 0]

Init ==
  /\ seq = [i \in Slots |-> 0]
  /\ word = [i \in Slots |-> EmptyBuf]
  /\ blob = [i \in Slots |-> Fresh]
  /\ writeSeq = 0
  /\ endPlusOne = 0
  /\ blocking = {}
  /\ pending = <<>>
  /\ started = FALSE
  /\ closed = FALSE
  /\ wpc = "idle"
  /\ wk = 1
  /\ batch = <<>>
  /\ victim = {}
  /\ joiner = [s \in Subs |-> "none"]
  /\ leaver = [s \in Subs |-> "none"]
  /\ mode = [s \in Subs |-> Drop]
  /\ start = [s \in Subs |-> NoStart]
  /\ cursor = [s \in Subs |-> 0]
  /\ evicted = [s \in Subs |-> FALSE]
  /\ canceled = [s \in Subs |-> FALSE]
  /\ rpc = [s \in Subs |-> "evicted"]
  /\ target = [s \in Subs |-> 0]
  /\ rk = [s \in Subs |-> 1]
  /\ buf = [s \in Subs |-> EmptyBuf]
  /\ bbuf = [s \in Subs |-> Fresh]
  /\ out = [s \in Subs |-> NoDelivery]
  /\ res = [s \in Subs |-> "none"]

-----------------------------------------------------------------------------
(***************************************************************************)
(* Joining and leaving.                                                    *)
(***************************************************************************)

\* The oldest emit index the ring might still hold.
OldestIndex == IF writeSeq > Capacity THEN writeSeq - Capacity ELSE 0

\* A read of index n that starts now and meets no concurrent write.
Holds(n) == seq[Slot(n)] = 2 * n + 1

\* The answer of findFirstAtOrAfter, if it has one: the scan of from .. to - 1
\* reads every record up to the first one stamped at or after t.
FindFirstAtOrAfter(t, from, to) ==
  {i \in from .. (to - 1) :
     /\ Holds(i) /\ Ts[i] >= t
     /\ \A j \in from .. (i - 1) : Holds(j) /\ Ts[j] < t}

\* The cursor subscribeNow resolves a start position to.
ResolveStart(st) ==
  CASE st.kind = "beginning"  -> 0
    [] st.kind = "emitIndex"  -> st.arg
    [] st.kind = "live"       -> writeSeq
    [] st.kind = "exchangeTs" ->
         LET found == FindFirstAtOrAfter(st.arg, OldestIndex, writeSeq)
         IN  IF found = {} THEN writeSeq ELSE CHOOSE i \in found : TRUE

\* Mutant of SubscribeNow: no check that the record to start from is held.
SubscribeUnchecked(s, m, st) ==
  /\ joiner' = [joiner EXCEPT ![s] = "joined"]
  /\ cursor' = [cursor EXCEPT ![s] = ResolveStart(st)]
  /\ blocking' = IF m = Block THEN blocking \cup {s} ELSE blocking

\* subscribeNow: resolve the start, refuse a Block subscriber that would
\* start on an overwritten record, register a Block subscriber.
SubscribeNow(s, m, st) ==
  LET c == ResolveStart(st)
  IN  IF m = Block /\ st.kind # "live" /\ c < OldestIndex
      THEN /\ joiner' = [joiner EXCEPT ![s] = "refused"]
           /\ UNCHANGED <<cursor, blocking>>
      ELSE /\ joiner' = [joiner EXCEPT ![s] = "joined"]
           /\ cursor' = [cursor EXCEPT ![s] = c]
           /\ blocking' = IF m = Block THEN blocking \cup {s} ELSE blocking

UnsubscribeNow(s) == blocking' = blocking \ {s}

\* Subscribe, on its three branches.  Before StartEmitting the subscriber
\* set is fixed by the goroutine that is going to emit, so the branch that
\* registers directly runs alone.
Subscribe(s, m, st) ==
  /\ joiner[s] = "none"
  /\ mode' = [mode EXCEPT ![s] = m]
  /\ start' = [start EXCEPT ![s] = st]
  /\ \/ /\ closed
        /\ joiner' = [joiner EXCEPT ![s] = "refused"]
        /\ UNCHANGED <<pending, cursor, blocking>>
     \/ /\ ~closed
        /\ started
        /\ pending' = Append(pending, <<"subscribe", s>>)
        /\ joiner' = [joiner EXCEPT ![s] = "queued"]
        /\ UNCHANGED <<cursor, blocking>>
     \/ /\ ~closed
        /\ ~started
        /\ SubscribeNow(s, m, st)
        /\ UNCHANGED pending
  /\ UNCHANGED <<slotVars, writeSeq, endPlusOne, started, closed, writerVars,
                 leaver, stopVars, readVars>>

\* Unsubscribe up to its deferred Cancel, which is a step of its own.
Unsubscribe(s) ==
  /\ joiner[s] = "joined"
  /\ leaver[s] = "none"
  /\ \/ /\ ~started
        /\ UnsubscribeNow(s)
        /\ leaver' = [leaver EXCEPT ![s] = "removed"]
        /\ UNCHANGED pending
     \/ /\ started
        /\ closed
        /\ leaver' = [leaver EXCEPT ![s] = "removed"]
        /\ UNCHANGED <<pending, blocking>>
     \/ /\ started
        /\ ~closed
        /\ pending' = Append(pending, <<"unsubscribe", s>>)
        /\ leaver' = [leaver EXCEPT ![s] = "queued"]
        /\ UNCHANGED blocking
  /\ UNCHANGED <<slotVars, writeSeq, endPlusOne, started, closed, writerVars,
                 joiner, mode, start, cursor, stopVars, readVars>>

\* Mutant of UnsubscribeCancel: cancels without waiting for the removal.
UnsubscribeCancelEarly(s) ==
  /\ leaver[s] = "queued"
  /\ ~canceled[s]
  /\ canceled' = [canceled EXCEPT ![s] = TRUE]
  /\ UNCHANGED <<slotVars, writeSeq, endPlusOne, blocking, ctrlVars, writerVars,
                 callerVars, cursor, evicted, readVars>>

\* The deferred s.Cancel() of Unsubscribe, once the removal was applied.
UnsubscribeCancel(s) ==
  /\ leaver[s] = "removed"
  /\ leaver' = [leaver EXCEPT ![s] = "left"]
  /\ canceled' = [canceled EXCEPT ![s] = TRUE]
  /\ UNCHANGED <<slotVars, writeSeq, endPlusOne, blocking, ctrlVars, writerVars,
                 joiner, mode, start, cursor, evicted, readVars>>

\* Subscriber.Cancel called on its own: the subscriber stays registered.
Cancel(s) ==
  /\ BareCancel
  /\ joiner[s] = "joined"
  /\ ~canceled[s]
  /\ canceled' = [canceled EXCEPT ![s] = TRUE]
  /\ UNCHANGED <<slotVars, writeSeq, endPlusOne, blocking, ctrlVars, writerVars,
                 callerVars, cursor, evicted, readVars>>

-----------------------------------------------------------------------------
(***************************************************************************)
(* The emit goroutine: RunDigest, applyControl and closeControl.           *)
(***************************************************************************)

StartEmitting ==
  /\ wpc = "idle"
  /\ started' = TRUE
  /\ wpc' = "loop"
  /\ UNCHANGED <<slotVars, writeSeq, endPlusOne, blocking, pending, closed, wk,
                 batch, victim, callerVars, cursor, stopVars, readVars>>

\* Mutant of AfterControl: the loop over the taken requests misses its end.
AfterControlStays(pc) == pc

\* Where applyControl returns to: RunDigest's loop or the barrier's spin.
AfterControl(pc) == IF pc \in {"loop", "apply"} THEN "next" ELSE "watch"

\* applyControl takes the queue under the mutex: between records ("loop")
\* and on every spin of the barrier ("held").
TakePending ==
  /\ wpc \in {"loop", "held"}
  /\ batch' = pending
  /\ pending' = <<>>
  /\ wpc' = IF pending = <<>> THEN AfterControl(wpc)
            ELSE IF wpc = "loop" THEN "apply" ELSE "heldApply"
  /\ UNCHANGED <<slotVars, writeSeq, endPlusOne, blocking, started, closed, wk,
                 victim, callerVars, cursor, stopVars, readVars>>

\* One taken request applied and its reply sent, in queue order.
ApplyRequest ==
  /\ wpc \in {"apply", "heldApply"}
  /\ batch' = Tail(batch)
  /\ wpc' = IF Tail(batch) = <<>> THEN AfterControl(wpc) ELSE wpc
  /\ LET kind == Head(batch)[1]
         s    == Head(batch)[2]
     IN  \/ /\ kind = "subscribe"
            /\ SubscribeNow(s, mode[s], start[s])
            /\ UNCHANGED leaver
         \/ /\ kind = "unsubscribe"
            /\ UnsubscribeNow(s)
            /\ leaver' = [leaver EXCEPT ![s] = "removed"]
            /\ UNCHANGED <<joiner, cursor>>
  /\ UNCHANGED <<slotVars, writeSeq, endPlusOne, ctrlVars, wk, victim, mode,
                 start, stopVars, readVars>>

\* Merger.Next yields a record and the pacer, if any, releases it.
NextRecord ==
  /\ wpc = "next"
  /\ writeSeq < Total
  /\ wpc' = "barrier"
  /\ UNCHANGED <<slotVars, writeSeq, endPlusOne, blocking, ctrlVars, wk, batch,
                 victim, callerVars, cursor, stopVars, readVars>>

\* The merge reports its clean end, or Pacer.Wait reports that the pacer was
\* stopped, which may happen at any record: either way RunDigest calls SetEnd.
NextEnds ==
  /\ wpc = "next"
  /\ wpc' = "setEnd"
  /\ UNCHANGED <<slotVars, writeSeq, endPlusOne, blocking, ctrlVars, wk, batch,
                 victim, callerVars, cursor, stopVars, readVars>>

\* Merger.Next or Write (a blob longer than MaxBlobBytes) fails: RunDigest
\* returns without SetEnd.
RunFails ==
  /\ wpc = "next"
  /\ wpc' = "failed"
  /\ UNCHANGED <<slotVars, writeSeq, endPlusOne, blocking, ctrlVars, wk, batch,
                 victim, callerVars, cursor, stopVars, readVars>>

\* cmd/replayd's run ends the ring at WriteIndex when RunDigest failed.
DriverEnds ==
  /\ wpc = "failed"
  /\ wpc' = "setEnd"
  /\ UNCHANGED <<slotVars, writeSeq, endPlusOne, blocking, ctrlVars, wk, batch,
                 victim, callerVars, cursor, stopVars, readVars>>

\* Mutant of EndWord: the bare index, which an end at zero cannot express.
EndWordBare(n) == n

\* Mutant of EndWord: one index too many.
EndWordPast(n) == n + 2

\* What SetEnd(n) stores: zero is kept for "no end yet".
EndWord(n) == n + 1

\* SetEnd publishes the end in one word ...
StoreEnd ==
  /\ wpc = "setEnd"
  /\ endPlusOne' = EndWord(writeSeq)
  /\ wpc' = "close"
  /\ UNCHANGED <<slotVars, writeSeq, blocking, ctrlVars, wk, batch, victim,
                 callerVars, cursor, stopVars, readVars>>

\* ... and closeControl shuts the queue and takes what is left in it,
CloseControl ==
  /\ wpc = "close"
  /\ closed' = TRUE
  /\ batch' = pending
  /\ pending' = <<>>
  /\ wpc' = IF pending = <<>> THEN "done" ELSE "drain"
  /\ UNCHANGED <<slotVars, writeSeq, endPlusOne, blocking, started, wk, victim,
                 callerVars, cursor, stopVars, readVars>>

\* ... then answers each leftover: ErrClosed to a join, nil to a leave.
FailRequest ==
  /\ wpc = "drain"
  /\ batch' = Tail(batch)
  /\ wpc' = IF Tail(batch) = <<>> THEN "done" ELSE "drain"
  /\ LET kind == Head(batch)[1]
         s    == Head(batch)[2]
     IN  IF kind = "subscribe"
         THEN /\ joiner' = [joiner EXCEPT ![s] = "refused"]
              /\ UNCHANGED leaver
         ELSE /\ leaver' = [leaver EXCEPT ![s] = "removed"]
              /\ UNCHANGED joiner
  /\ UNCHANGED <<slotVars, writeSeq, endPlusOne, blocking, ctrlVars, wk,
                 victim, mode, start, cursor, stopVars, readVars>>

-----------------------------------------------------------------------------
(***************************************************************************)
(* The emit goroutine: the Block barrier and its watchdog.                 *)
(***************************************************************************)

\* Mutant of Holders: a subscriber exactly one ring behind is let go.
HoldersOffByOne(n) == {s \in blocking : n >= Capacity /\ cursor[s] < n - Capacity}

\* The registered subscribers that hold index n back: minBlockCursor is at
\* or below n - capacity.  Cursors only grow, so a scan that passes has
\* found every cursor past the threshold at the moment it ends.
Holders(n) == {s \in blocking : n >= Capacity /\ cursor[s] <= n - Capacity}

BarrierPasses ==
  /\ wpc = "barrier"
  /\ Holders(writeSeq) = {}
  /\ wpc' = "invalidate"
  /\ UNCHANGED <<slotVars, writeSeq, endPlusOne, blocking, ctrlVars, wk, batch,
                 victim, callerVars, cursor, stopVars, readVars>>

\* Mutant of BarrierHolds: the spin does not service the control queue.
BarrierHoldsDeaf ==
  /\ wpc = "barrier"
  /\ Holders(writeSeq) # {}
  /\ wpc' = "watch"
  /\ UNCHANGED <<slotVars, writeSeq, endPlusOne, blocking, ctrlVars, wk, batch,
                 victim, callerVars, cursor, stopVars, readVars>>

BarrierHolds ==
  /\ wpc = "barrier"
  /\ Holders(writeSeq) # {}
  /\ wpc' = "held"
  /\ UNCHANGED <<slotVars, writeSeq, endPlusOne, blocking, ctrlVars, wk, batch,
                 victim, callerVars, cursor, stopVars, readVars>>

\* The watchdog is off or its window has not run out: spin.
WatchQuiet ==
  /\ wpc = "watch"
  /\ wpc' = "barrier"
  /\ UNCHANGED <<slotVars, writeSeq, endPlusOne, blocking, ctrlVars, wk, batch,
                 victim, callerVars, cursor, stopVars, readVars>>

\* The window has run out: evictStalledBlockSubscriber scans for a holder
\* with the smallest cursor, and finds none if every one has moved on.
WatchExpires ==
  /\ wpc = "watch"
  /\ Watchdog
  /\ IF Holders(writeSeq) = {}
     THEN /\ wpc' = "barrier"
          /\ UNCHANGED victim
     ELSE \E s \in Holders(writeSeq) :
            /\ \A t \in Holders(writeSeq) : cursor[s] <= cursor[t]
            /\ victim' = {s}
            /\ wpc' = "evict"
  /\ UNCHANGED <<slotVars, writeSeq, endPlusOne, blocking, ctrlVars, wk, batch,
                 callerVars, cursor, stopVars, readVars>>

\* Mutant of Evict: the victim is marked but stays registered.
EvictLeavesRegistered ==
  /\ wpc = "evict"
  /\ evicted' = [s \in Subs |-> evicted[s] \/ s \in victim]
  /\ victim' = {}
  /\ wpc' = "barrier"
  /\ UNCHANGED <<slotVars, writeSeq, endPlusOne, blocking, ctrlVars, wk, batch,
                 callerVars, cursor, canceled, readVars>>

\* The victim is marked and removed, whatever it has read since the scan.
Evict ==
  /\ wpc = "evict"
  /\ evicted' = [s \in Subs |-> evicted[s] \/ s \in victim]
  /\ blocking' = blocking \ victim
  /\ victim' = {}
  /\ wpc' = "barrier"
  /\ UNCHANGED <<slotVars, writeSeq, endPlusOne, ctrlVars, wk, batch,
                 callerVars, cursor, canceled, readVars>>

-----------------------------------------------------------------------------
(***************************************************************************)
(* The emit goroutine: Write past the barrier.                             *)
(***************************************************************************)

\* Mutant of Invalidate: the slot keeps its old seq while it is rewritten.
InvalidateSkipped ==
  /\ wpc = "invalidate"
  /\ wpc' = "words"
  /\ wk' = 1
  /\ UNCHANGED <<slotVars, writeSeq, endPlusOne, blocking, ctrlVars, batch,
                 victim, callerVars, cursor, stopVars, readVars>>

Invalidate ==
  /\ wpc = "invalidate"
  /\ seq' = [seq EXCEPT ![Slot(writeSeq)] = 2 * writeSeq]
  /\ wpc' = "words"
  /\ wk' = 1
  /\ UNCHANGED <<word, blob, writeSeq, endPlusOne, blocking, ctrlVars, batch,
                 victim, callerVars, cursor, stopVars, readVars>>

StoreWord ==
  /\ wpc = "words"
  /\ word' = [word EXCEPT ![Slot(writeSeq)][wk] = writeSeq]
  /\ wk' = IF wk = Words THEN 1 ELSE wk + 1
  /\ wpc' = IF wk < Words THEN "words"
            ELSE IF writeSeq \in Snapshots THEN "blob" ELSE "publish"
  /\ UNCHANGED <<seq, blob, writeSeq, endPlusOne, blocking, ctrlVars, batch,
                 victim, callerVars, cursor, stopVars, readVars>>

StoreBlob ==
  /\ wpc = "blob"
  /\ blob' = [blob EXCEPT ![Slot(writeSeq)] = writeSeq]
  /\ wpc' = "publish"
  /\ UNCHANGED <<seq, word, writeSeq, endPlusOne, blocking, ctrlVars, wk, batch,
                 victim, callerVars, cursor, stopVars, readVars>>

Publish ==
  /\ wpc = "publish"
  /\ seq' = [seq EXCEPT ![Slot(writeSeq)] = 2 * writeSeq + 1]
  /\ wpc' = "advance"
  /\ UNCHANGED <<word, blob, writeSeq, endPlusOne, blocking, ctrlVars, wk, batch,
                 victim, callerVars, cursor, stopVars, readVars>>

Advance ==
  /\ wpc = "advance"
  /\ writeSeq' = writeSeq + 1
  /\ wpc' = "loop"
  /\ UNCHANGED <<slotVars, endPlusOne, blocking, ctrlVars, wk, batch, victim,
                 callerVars, cursor, stopVars, readVars>>

Writer ==
  \/ StartEmitting \/ TakePending \/ ApplyRequest
  \/ NextRecord \/ NextEnds \/ RunFails \/ DriverEnds
  \/ StoreEnd \/ CloseControl \/ FailRequest
  \/ BarrierPasses \/ BarrierHolds \/ WatchQuiet \/ WatchExpires \/ Evict
  \/ Invalidate \/ StoreWord \/ StoreBlob \/ Publish \/ Advance

-----------------------------------------------------------------------------
(***************************************************************************)
(* A subscriber's Next, down to Ring.next and Ring.read.  A call that has  *)
(* returned leaves rpc at "evicted", where the next call begins.           *)
(***************************************************************************)

readerFrame == <<slotVars, writeSeq, endPlusOne, blocking, ctrlVars, writerVars,
                 callerVars, stopVars>>

TestEvicted(s) ==
  /\ rpc[s] = "evicted"
  /\ joiner[s] = "joined"
  /\ IF evicted[s]
     THEN /\ res' = [res EXCEPT ![s] = "evicted"]
          /\ UNCHANGED rpc
     ELSE /\ rpc' = [rpc EXCEPT ![s] = "canceled"]
          /\ UNCHANGED res
  /\ UNCHANGED <<readerFrame, cursor, target, rk, buf, bbuf, out>>

TestCanceled(s) ==
  /\ rpc[s] = "canceled"
  /\ IF canceled[s]
     THEN /\ res' = [res EXCEPT ![s] = "canceled"]
          /\ rpc' = [rpc EXCEPT ![s] = "evicted"]
          /\ UNCHANGED target
     ELSE /\ rpc' = [rpc EXCEPT ![s] = "load"]
          /\ target' = [target EXCEPT ![s] = cursor[s]]
          /\ UNCHANGED res
  /\ UNCHANGED <<readerFrame, cursor, rk, buf, bbuf, out>>

\* Mutant of Incomplete: an index that is not there yet is skipped.
IncompleteSkips(s, heldIdx) ==
  /\ rpc' = [rpc EXCEPT ![s] = "load"]
  /\ target' = [target EXCEPT ![s] = IF heldIdx > @ THEN heldIdx ELSE @ + 1]

\* Ring.next after an incomplete read of the target: wait at the cursor, or
\* catch up to the later index the slot was found to hold.
Incomplete(s, heldIdx) ==
  IF heldIdx <= target[s]
  THEN /\ rpc' = [rpc EXCEPT ![s] = "end"]
       /\ UNCHANGED target
  ELSE /\ rpc' = [rpc EXCEPT ![s] = "load"]
       /\ target' = [target EXCEPT ![s] = heldIdx]

LoadSeq(s) ==
  /\ rpc[s] = "load"
  /\ LET before == seq[Slot(target[s])]
     IN  IF before = 2 * target[s] + 1
         THEN /\ rpc' = [rpc EXCEPT ![s] = "copy"]
              /\ UNCHANGED target
         ELSE Incomplete(s, before \div 2)
  /\ UNCHANGED <<readerFrame, cursor, rk, buf, bbuf, out, res>>

\* What read does once the words are copied.  RecordType is taken from the
\* first word and BlobLen from the last; a snapshot with a length no
\* snapshot has is given up before the length is used.
AfterWords(copy) ==
  IF copy[1] \notin Snapshots THEN "reload"
  ELSE IF copy[Words] \in Snapshots THEN "copyBlob" ELSE "badLen"

CopyWord(s) ==
  /\ rpc[s] = "copy"
  /\ LET copy == [buf[s] EXCEPT ![rk[s]] = word[Slot(target[s])][rk[s]]]
     IN  /\ buf' = [buf EXCEPT ![s] = copy]
         /\ IF rk[s] < Words
            THEN /\ rk' = [rk EXCEPT ![s] = @ + 1]
                 /\ UNCHANGED rpc
            ELSE /\ rk' = [rk EXCEPT ![s] = 1]
                 /\ rpc' = [rpc EXCEPT ![s] = AfterWords(copy)]
  /\ UNCHANGED <<readerFrame, cursor, target, bbuf, out, res>>

CopyBlob(s) ==
  /\ rpc[s] = "copyBlob"
  /\ bbuf' = [bbuf EXCEPT ![s] = blob[Slot(target[s])]]
  /\ rpc' = [rpc EXCEPT ![s] = "reload"]
  /\ UNCHANGED <<readerFrame, cursor, target, rk, buf, out, res>>

\* The early return on a garbage length.
GiveUp(s) ==
  /\ rpc[s] = "badLen"
  /\ Incomplete(s, seq[Slot(target[s])] \div 2)
  /\ buf' = [buf EXCEPT ![s] = EmptyBuf]
  /\ UNCHANGED <<readerFrame, cursor, rk, bbuf, out, res>>

\* The second load of seq.  Unchanged, the copy is the delivery, with the
\* indexes from the cursor up to the target as its gap, and the cursor is
\* stored past the target.
Reload(s) ==
  /\ rpc[s] = "reload"
  /\ LET after == seq[Slot(target[s])]
     IN  IF after = 2 * target[s] + 1
         THEN /\ out' = [out EXCEPT ![s] =
                           [words |-> buf[s], blob |-> bbuf[s],
                            index |-> target[s], first |-> cursor[s]]]
              /\ cursor' = [cursor EXCEPT ![s] = target[s] + 1]
              /\ res' = [res EXCEPT ![s] = "record"]
              /\ rpc' = [rpc EXCEPT ![s] = "evicted"]
              /\ UNCHANGED target
         ELSE /\ Incomplete(s, after \div 2)
              /\ UNCHANGED <<out, cursor, res>>
  /\ buf' = [buf EXCEPT ![s] = EmptyBuf]
  /\ bbuf' = [bbuf EXCEPT ![s] = Fresh]
  /\ UNCHANGED <<readerFrame, rk>>

\* Nothing was ready: a clean end if the ring ended at or before the cursor,
\* another turn of Next's loop otherwise.
TestEnd(s) ==
  /\ rpc[s] = "end"
  /\ rpc' = [rpc EXCEPT ![s] = "evicted"]
  /\ IF endPlusOne # 0 /\ cursor[s] >= endPlusOne - 1
     THEN res' = [res EXCEPT ![s] = "end"]
     ELSE UNCHANGED res
  /\ UNCHANGED <<readerFrame, cursor, target, rk, buf, bbuf, out>>

Reader(s) ==
  \/ TestEvicted(s) \/ TestCanceled(s) \/ LoadSeq(s) \/ CopyWord(s)
  \/ CopyBlob(s) \/ GiveUp(s) \/ Reload(s) \/ TestEnd(s)

Caller(s) ==
  \/ \E m \in Modes, st \in Starts : Subscribe(s, m, st)
  \/ Unsubscribe(s) \/ UnsubscribeCancel(s) \/ Cancel(s)

Next == Writer \/ \E s \in Subs : Caller(s) \/ Reader(s)

Spec == Init /\ [][Next]_vars

(***************************************************************************)
(* Fairness.  The emit goroutine and the caller that owes a deferred       *)
(* Cancel are runnable goroutines the Go scheduler keeps running.  What    *)
(* only some of the properties may count on they name themselves: a clock  *)
(* that moves, so that a barrier spin that never ends meets its watchdog,  *)
(* and clients that keep calling Next.                                     *)
(***************************************************************************)
LiveSpec ==
  /\ Spec
  /\ WF_vars(Writer)
  /\ \A s \in Subs : WF_vars(UnsubscribeCancel(s))

ClockMoves == SF_vars(WatchExpires)

ClientsRead == \A s \in Subs : WF_vars(Reader(s))

-----------------------------------------------------------------------------
(***************************************************************************)
(* Properties.                                                             *)
(***************************************************************************)

Requests == {"subscribe", "unsubscribe"} \X Subs

Deliveries ==
  [words : [1 .. Words -> Int], blob : Int, index : Nat, first : Nat]

RingTypes ==
  /\ seq \in [Slots -> Nat]
  /\ word \in [Slots -> [1 .. Words -> Int]]
  /\ blob \in [Slots -> Int]
  /\ writeSeq \in Nat
  /\ endPlusOne \in Nat
  /\ blocking \subseteq Subs

WriterTypes ==
  /\ pending \in Seq(Requests)
  /\ started \in BOOLEAN
  /\ closed \in BOOLEAN
  /\ wpc \in {"idle", "loop", "apply", "next", "failed", "setEnd", "close",
              "drain", "done", "barrier", "held", "heldApply", "watch", "evict",
              "invalidate", "words", "blob", "publish", "advance"}
  /\ wk \in 1 .. Words
  /\ batch \in Seq(Requests)
  /\ wpc \in {"apply", "heldApply", "drain"} => batch # <<>>
  /\ victim \subseteq Subs

SubscriberTypes ==
  /\ joiner \in [Subs -> {"none", "queued", "joined", "refused"}]
  /\ leaver \in [Subs -> {"none", "queued", "removed", "left"}]
  /\ mode \in [Subs -> {Block, Drop}]
  /\ start \in [Subs -> StartAt]
  /\ cursor \in [Subs -> Nat]
  /\ evicted \in [Subs -> BOOLEAN]
  /\ canceled \in [Subs -> BOOLEAN]

ReaderTypes ==
  /\ rpc \in [Subs -> {"evicted", "canceled", "load", "copy", "copyBlob",
                       "badLen", "reload", "end"}]
  /\ target \in [Subs -> Nat]
  /\ rk \in [Subs -> 1 .. Words]
  /\ buf \in [Subs -> [1 .. Words -> Int]]
  /\ bbuf \in [Subs -> Int]
  /\ out \in [Subs -> Deliveries]
  /\ res \in [Subs -> {"none", "record", "end", "evicted", "canceled"}]

\* Every variable of the ring, of its emit goroutine and of its subscribers
\* keeps its type, and the emit goroutine is applying requests only while it
\* has one in hand.
TypeOK == RingTypes /\ WriterTypes /\ SubscriberTypes /\ ReaderTypes

\* A delivery is the whole of the record at its emit index: no word and no
\* blob of another record is ever accepted, however the writer's stores fall
\* between the reader's loads (Ring.Write, Ring.read).
NoTornDelivery ==
  \A s \in Subs :
    \/ out[s] = NoDelivery
    \/ /\ \A j \in 1 .. Words : out[s].words[j] = out[s].index
       /\ out[s].blob = IF out[s].index \in Snapshots THEN out[s].index ELSE Fresh

\* The slot a registered Block subscriber wants has not moved past the index
\* it wants: the barrier and the start check of subscribeNow together make
\* lapping impossible for it, wherever between records it joined.
BlockNeverLapped ==
  \A s \in blocking : seq[Slot(cursor[s])] <= 2 * cursor[s] + 1

\* A subscriber still on the barrier has never been handed a gap: a Block
\* subscriber can miss records only after Unsubscribe or the watchdog took it
\* off the barrier.
BlockNoLoss ==
  \A s \in blocking : out[s].first = out[s].index

\* Whoever is handed a gap had really lost the record it wanted: the slot of
\* the first missed index has moved on (Ring.next).
GapMeansLapped ==
  \A s \in Subs :
    out[s].first < out[s].index =>
      seq[Slot(out[s].first)] > 2 * out[s].first + 1

\* When Next reports a clean end the subscriber has been handed, or told of,
\* every index ever written, and none will be written any more (SetEnd, End).
CleanEndMissesNothing ==
  \A s \in Subs :
    res[s] = "end" => /\ cursor[s] >= writeSeq
                      /\ wpc \in {"close", "drain", "done"}

\* Unsubscribe cancels only after the removal: the emit goroutine never
\* meets a canceled subscriber that still counts at the barrier, except one
\* a caller canceled without unsubscribing.
CanceledIsOffTheBarrier ==
  \A s \in blocking : canceled[s] => BareCancel \/ closed

\* A subscriber the watchdog severed is off the barrier for good, and its
\* calls of Next, once one has returned ErrEvicted, return nothing else.
EvictionIsFinal ==
  [][\A s \in Subs : /\ evicted[s] => evicted'[s] /\ s \notin blocking'
                     /\ res[s] = "evicted" => res'[s] = "evicted"]_vars

\* Every join and every leave that was queued is answered, even while the
\* writer is parked at the barrier by a subscriber that reads nothing and no
\* watchdog ever expires, and even when the run ends first (applyControl,
\* closeControl).
RequestsAreAnswered ==
  \A s \in Subs : /\ joiner[s] = "queued" ~> joiner[s] \in {"joined", "refused"}
                  /\ leaver[s] = "queued" ~> leaver[s] = "left"

\* With the watchdog on, subscribers that stop reading cannot stop the run:
\* the writer gets through every barrier and the ring ends.
WatchdogFreesWriter == ClockMoves => <>(endPlusOne # 0)

\* A subscriber that keeps calling Next is eventually told to stop, with the
\* watchdog or without: the ring's end, its eviction or its cancellation.
ReadersFinish ==
  ClientsRead =>
    \A s \in Subs :
      joiner[s] = "joined" ~> res[s] \in {"end", "evicted", "canceled"}

=============================================================================
