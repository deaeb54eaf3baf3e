------------------------------ MODULE RingProof ------------------------------
(***************************************************************************)
(* Proofs about the ring, for every capacity, record size, stream and set  *)
(* of subscribers: types; no delivery is torn; no registered Block         *)
(* subscriber is lapped; what subscribers are handed; and the ring         *)
(* implements the feed.                                                    *)
(***************************************************************************)
EXTENDS RingRefinement, TLAPS


-----------------------------------------------------------------------------
(***************************************************************************)
(* Slots.                                                                  *)
(***************************************************************************)

\* The mask of Write and read always names a slot.
LEMMA SlotType ==
  ASSUME NEW n \in Nat
  PROVE  Slot(n) \in Slots
BY CapacityAssumption DEF Slot, Slots

\* Two indexes that share a slot are at least a whole lap apart.
LEMMA SameSlot ==
  ASSUME NEW m \in Nat, NEW n \in Nat, m < n, Slot(m) = Slot(n)
  PROVE  m + Capacity <= n
<1> DEFINE a == m \div Capacity
           b == n \div Capacity
<1>1. a \in Nat /\ b \in Nat
  BY CapacityAssumption
<1>2. m = Capacity * a + (m % Capacity)
  BY CapacityAssumption
<1>3. n = Capacity * b + (n % Capacity)
  BY CapacityAssumption
<1>4. m % Capacity = n % Capacity
  BY DEF Slot
<1>5. m % Capacity \in Int
  BY CapacityAssumption
<1> HIDE DEF a, b
<1>6. a < b
  <2>1. CASE b <= a
    <3>1. PICK k \in Nat : a = b + k
      BY <1>1, <2>1
    <3>2. Capacity * a = Capacity * b + Capacity * k
      BY <3>1, <1>1, CapacityAssumption
    <3>3. Capacity * k \in Int /\ Capacity * k >= 0
      BY <3>1, CapacityAssumption
    <3>4. Capacity * a \in Int /\ Capacity * b \in Int
      BY <1>1, CapacityAssumption
    <3>5. m >= n
      BY <3>2, <3>3, <3>4, <1>2, <1>3, <1>4, <1>5
    <3> QED BY <3>5
  <2> QED BY <2>1, <1>1
<1>7. PICK k \in Nat : b = a + 1 + k
  BY <1>6, <1>1
<1>8. Capacity * b = Capacity * a + Capacity + Capacity * k
  BY <1>7, <1>1, CapacityAssumption
<1>9. Capacity * k \in Int /\ Capacity * k >= 0
  BY <1>7, CapacityAssumption
<1>10. Capacity * a \in Int /\ Capacity * b \in Int
  BY <1>1, CapacityAssumption
<1> QED BY <1>2, <1>3, <1>4, <1>5, <1>8, <1>9, <1>10, CapacityAssumption

-----------------------------------------------------------------------------
(***************************************************************************)
(* Types.                                                                  *)
(***************************************************************************)

\* A start position always resolves to an emit index.
LEMMA ResolveType ==
  ASSUME TypeOK, NEW st \in StartAt
  PROVE  ResolveStart(st) \in Nat
<1>1. writeSeq \in Nat /\ OldestIndex \in Nat
  BY CapacityAssumption DEF TypeOK, RingTypes, OldestIndex
<1>2. FindFirstAtOrAfter(st.arg, OldestIndex, writeSeq) \subseteq Nat
  BY <1>1 DEF FindFirstAtOrAfter
<1>3. CASE st.kind = "exchangeTs"
  BY <1>1, <1>2, <1>3 DEF ResolveStart
<1> QED
  BY <1>1, <1>3 DEF ResolveStart, StartAt, StartKinds

\* subscribeNow keeps the types of what it changes.
LEMMA SubscribeNowType ==
  ASSUME TypeOK, NEW s \in Subs, NEW m, NEW st \in StartAt, SubscribeNow(s, m, st)
  PROVE  /\ joiner' \in [Subs -> {"none", "queued", "joined", "refused"}]
         /\ cursor' \in [Subs -> Nat]
         /\ blocking' \subseteq Subs
<1> DEFINE c == ResolveStart(st)
<1>1. c \in Nat
  BY ResolveType
<1> HIDE DEF c
<1>2. CASE m = Block /\ st.kind # "live" /\ c < OldestIndex
  BY <1>2 DEF SubscribeNow, TypeOK, SubscriberTypes, RingTypes, c
<1>3. CASE ~(m = Block /\ st.kind # "live" /\ c < OldestIndex)
  <2>1. /\ joiner' = [joiner EXCEPT ![s] = "joined"]
        /\ cursor' = [cursor EXCEPT ![s] = c]
        /\ blocking' = IF m = Block THEN blocking \cup {s} ELSE blocking
    BY <1>3 DEF SubscribeNow, c
  <2> QED BY <1>1, <2>1 DEF TypeOK, SubscriberTypes, RingTypes
<1> QED BY <1>2, <1>3

\* A new ring is well typed.
LEMMA TypeInit == Init => TypeOK
<1> SUFFICES ASSUME Init
             PROVE  TypeOK
  OBVIOUS
<1>1. EmptyBuf \in [1 .. Words -> Int]
  BY DEF EmptyBuf, Fresh
<1>2. RingTypes
  BY <1>1 DEF Init, RingTypes, Fresh
<1>3. WriterTypes
  <2>1. <<>> \in Seq(Requests)
    OBVIOUS
  <2>2. 1 \in 1 .. Words
    BY WordsAssumption
  <2> QED BY <2>1, <2>2 DEF Init, WriterTypes
<1>4. SubscriberTypes
  BY DEF Init, SubscriberTypes, NoStart, StartAt, StartKinds, Drop, Block
<1>5. NoDelivery \in Deliveries
  BY <1>1 DEF NoDelivery, Deliveries, Fresh
<1>6. ReaderTypes
  BY <1>1, <1>5, WordsAssumption DEF Init, ReaderTypes, Fresh
<1> QED BY <1>2, <1>3, <1>4, <1>6 DEF TypeOK

\* Types are kept by every step.
LEMMA TypeStep == TypeOK /\ [Next]_vars => TypeOK'
<1> SUFFICES ASSUME TypeOK, [Next]_vars
             PROVE  TypeOK'
  OBVIOUS
<1> USE DEF slotVars, writerVars, ctrlVars, callerVars, readVars, stopVars, readerFrame
<1>0. RingTypes /\ WriterTypes /\ SubscriberTypes /\ ReaderTypes
  BY DEF TypeOK
<1>1. CASE StartEmitting
  BY <1>0, <1>1 DEF StartEmitting, TypeOK, RingTypes, WriterTypes, SubscriberTypes, ReaderTypes
<1>2. CASE TakePending
  BY <1>0, <1>2 DEF TakePending, TypeOK, RingTypes, WriterTypes, SubscriberTypes, ReaderTypes, AfterControl
<1>3. CASE ApplyRequest
  <2>1. batch \in Seq(Requests) /\ batch # <<>>
    BY <1>0, <1>3 DEF WriterTypes, ApplyRequest
  <2>2. Head(batch) \in Requests /\ Tail(batch) \in Seq(Requests)
    BY <2>1
  <2>3. Head(batch)[2] \in Subs /\ Head(batch)[1] \in {"subscribe", "unsubscribe"}
    BY <2>2 DEF Requests
  <2>4. WriterTypes' /\ ReaderTypes'
    BY <1>0, <1>3, <2>2 DEF ApplyRequest, AfterControl, WriterTypes, ReaderTypes
  <2>5. CASE Head(batch)[1] = "subscribe"
    <3>1. SubscribeNow(Head(batch)[2], mode[Head(batch)[2]], start[Head(batch)[2]])
      BY <1>3, <2>5 DEF ApplyRequest
    <3>2. start[Head(batch)[2]] \in StartAt
      BY <1>0, <2>3 DEF SubscriberTypes
    <3>3. /\ joiner' \in [Subs -> {"none", "queued", "joined", "refused"}]
          /\ cursor' \in [Subs -> Nat]
          /\ blocking' \subseteq Subs
      BY <3>1, <3>2, <2>3, SubscribeNowType
    <3>4. UNCHANGED <<leaver, mode, start, evicted, canceled, slotVars, writeSeq, endPlusOne>>
      BY <1>3, <2>5 DEF ApplyRequest
    <3> QED BY <1>0, <2>4, <3>3, <3>4 DEF TypeOK, RingTypes, SubscriberTypes
  <2>6. CASE Head(batch)[1] = "unsubscribe"
    <3>1. RingTypes' /\ SubscriberTypes'
      BY <1>0, <1>3, <2>3, <2>6 DEF ApplyRequest, UnsubscribeNow, RingTypes, SubscriberTypes
    <3> QED BY <2>4, <3>1 DEF TypeOK
  <2> QED BY <2>3, <2>5, <2>6
<1>4. CASE NextRecord
  BY <1>0, <1>4 DEF NextRecord, TypeOK, RingTypes, WriterTypes, SubscriberTypes, ReaderTypes
<1>5. CASE NextEnds
  BY <1>0, <1>5 DEF NextEnds, TypeOK, RingTypes, WriterTypes, SubscriberTypes, ReaderTypes
<1>6. CASE RunFails
  BY <1>0, <1>6 DEF RunFails, TypeOK, RingTypes, WriterTypes, SubscriberTypes, ReaderTypes
<1>7. CASE DriverEnds
  BY <1>0, <1>7 DEF DriverEnds, TypeOK, RingTypes, WriterTypes, SubscriberTypes, ReaderTypes
<1>8. CASE StoreEnd
  BY <1>0, <1>8 DEF StoreEnd, EndWord, TypeOK, RingTypes, WriterTypes, SubscriberTypes, ReaderTypes
<1>9. CASE CloseControl
  BY <1>0, <1>9 DEF CloseControl, TypeOK, RingTypes, WriterTypes, SubscriberTypes, ReaderTypes
<1>10. CASE FailRequest
  <2>1. batch \in Seq(Requests) /\ batch # <<>>
    BY <1>0, <1>10 DEF WriterTypes, FailRequest
  <2>2. Head(batch) \in Requests /\ Tail(batch) \in Seq(Requests)
    BY <2>1
  <2>3. Head(batch)[2] \in Subs /\ Head(batch)[1] \in {"subscribe", "unsubscribe"}
    BY <2>2 DEF Requests
  <2>4. WriterTypes'
    BY <1>0, <1>10, <2>2 DEF FailRequest, WriterTypes
  <2>5. SubscriberTypes'
    BY <1>0, <1>10, <2>3 DEF FailRequest, SubscriberTypes
  <2>6. RingTypes' /\ ReaderTypes'
    BY <1>0, <1>10 DEF FailRequest, RingTypes, ReaderTypes
  <2> QED BY <2>4, <2>5, <2>6 DEF TypeOK
<1>11. CASE BarrierPasses
  BY <1>0, <1>11 DEF BarrierPasses, TypeOK, RingTypes, WriterTypes, SubscriberTypes, ReaderTypes
<1>12. CASE BarrierHolds
  BY <1>0, <1>12 DEF BarrierHolds, TypeOK, RingTypes, WriterTypes, SubscriberTypes, ReaderTypes
<1>13. CASE WatchQuiet
  BY <1>0, <1>13 DEF WatchQuiet, TypeOK, RingTypes, WriterTypes, SubscriberTypes, ReaderTypes
<1>14. CASE WatchExpires
  <2>1. WriterTypes'
    BY <1>0, <1>14 DEF WatchExpires, WriterTypes, RingTypes, Holders
  <2>2. RingTypes' /\ SubscriberTypes' /\ ReaderTypes'
    BY <1>0, <1>14 DEF WatchExpires, RingTypes, SubscriberTypes, ReaderTypes
  <2> QED BY <2>1, <2>2 DEF TypeOK
<1>15. CASE Evict
  <2>1. WriterTypes'
    BY <1>0, <1>15 DEF Evict, WriterTypes
  <2>2. RingTypes'
    BY <1>0, <1>15 DEF Evict, RingTypes
  <2>3. SubscriberTypes'
    BY <1>0, <1>15 DEF Evict, SubscriberTypes
  <2>4. ReaderTypes'
    BY <1>0, <1>15 DEF Evict, ReaderTypes
  <2> QED BY <2>1, <2>2, <2>3, <2>4 DEF TypeOK
<1>16. CASE Invalidate
  <2>1. Slot(writeSeq) \in Slots
    BY <1>0, SlotType DEF RingTypes
  <2>2. RingTypes'
    BY <1>0, <1>16, <2>1 DEF Invalidate, RingTypes, WriterTypes
  <2>3. WriterTypes'
    BY <1>0, <1>16, WordsAssumption DEF Invalidate, WriterTypes
  <2>4. SubscriberTypes' /\ ReaderTypes'
    BY <1>0, <1>16 DEF Invalidate, SubscriberTypes, ReaderTypes
  <2> QED BY <2>2, <2>3, <2>4 DEF TypeOK
<1>17. CASE StoreWord
  <2>1. Slot(writeSeq) \in Slots
    BY <1>0, SlotType DEF RingTypes
  <2>2. RingTypes'
    BY <1>0, <1>17, <2>1 DEF StoreWord, RingTypes, WriterTypes
  <2>3. WriterTypes'
    BY <1>0, <1>17, WordsAssumption DEF StoreWord, WriterTypes
  <2>4. SubscriberTypes' /\ ReaderTypes'
    BY <1>0, <1>17 DEF StoreWord, SubscriberTypes, ReaderTypes
  <2> QED BY <2>2, <2>3, <2>4 DEF TypeOK
<1>18. CASE StoreBlob
  <2>1. Slot(writeSeq) \in Slots
    BY <1>0, SlotType DEF RingTypes
  <2>2. RingTypes'
    BY <1>0, <1>18, <2>1 DEF StoreBlob, RingTypes, WriterTypes
  <2>3. WriterTypes'
    BY <1>0, <1>18, WordsAssumption DEF StoreBlob, WriterTypes
  <2>4. SubscriberTypes' /\ ReaderTypes'
    BY <1>0, <1>18 DEF StoreBlob, SubscriberTypes, ReaderTypes
  <2> QED BY <2>2, <2>3, <2>4 DEF TypeOK
<1>19. CASE Publish
  <2>1. Slot(writeSeq) \in Slots
    BY <1>0, SlotType DEF RingTypes
  <2>2. RingTypes'
    BY <1>0, <1>19, <2>1 DEF Publish, RingTypes, WriterTypes
  <2>3. WriterTypes'
    BY <1>0, <1>19, WordsAssumption DEF Publish, WriterTypes
  <2>4. SubscriberTypes' /\ ReaderTypes'
    BY <1>0, <1>19 DEF Publish, SubscriberTypes, ReaderTypes
  <2> QED BY <2>2, <2>3, <2>4 DEF TypeOK
<1>20. CASE Advance
  BY <1>0, <1>20 DEF Advance, TypeOK, RingTypes, WriterTypes, SubscriberTypes, ReaderTypes
<1>21. CASE \E s \in Subs : \E m \in Modes, st \in Starts : Subscribe(s, m, st)
  <2> PICK s \in Subs, m \in Modes, st \in Starts : Subscribe(s, m, st)
    BY <1>21
  <2>1. m \in {Block, Drop} /\ st \in StartAt
    BY RequestAssumption
  <2>2. ReaderTypes'
    BY <1>0 DEF Subscribe, ReaderTypes
  <2>3. CASE ~closed /\ ~started
    <3>1. SubscribeNow(s, m, st)
      BY <2>3 DEF Subscribe
    <3>2. /\ joiner' \in [Subs -> {"none", "queued", "joined", "refused"}]
          /\ cursor' \in [Subs -> Nat]
          /\ blocking' \subseteq Subs
      BY <3>1, <2>1, SubscribeNowType
    <3>3. SubscriberTypes'
      BY <1>0, <2>1, <3>2 DEF Subscribe, SubscriberTypes
    <3>4. RingTypes' /\ WriterTypes'
      BY <1>0, <2>3, <3>2 DEF Subscribe, RingTypes, WriterTypes
    <3> QED BY <2>2, <3>3, <3>4 DEF TypeOK
  <2>4. CASE closed
    <3>1. SubscriberTypes'
      BY <1>0, <2>1, <2>4 DEF Subscribe, SubscriberTypes
    <3>2. RingTypes' /\ WriterTypes'
      BY <1>0, <2>4 DEF Subscribe, RingTypes, WriterTypes
    <3> QED BY <2>2, <3>1, <3>2 DEF TypeOK
  <2>5. CASE ~closed /\ started
    <3>1. <<"subscribe", s>> \in Requests
      BY DEF Requests
    <3>2. SubscriberTypes'
      BY <1>0, <2>1, <2>5 DEF Subscribe, SubscriberTypes
    <3>3. RingTypes'
      BY <1>0, <2>5 DEF Subscribe, RingTypes
    <3>4. Append(pending, <<"subscribe", s>>) \in Seq(Requests)
      BY <1>0, <3>1 DEF WriterTypes
    <3>5. WriterTypes'
      BY <1>0, <2>5, <3>4 DEF Subscribe, WriterTypes
    <3> QED BY <2>2, <3>2, <3>3, <3>5 DEF TypeOK
  <2> QED BY <2>3, <2>4, <2>5
<1>22. CASE \E s \in Subs : Unsubscribe(s)
  <2> PICK s \in Subs : Unsubscribe(s)
    BY <1>22
  <2>1. <<"unsubscribe", s>> \in Requests
    BY DEF Requests
  <2>2. Append(pending, <<"unsubscribe", s>>) \in Seq(Requests)
    BY <1>0, <2>1 DEF WriterTypes
  <2>3. WriterTypes'
    BY <1>0, <2>2 DEF Unsubscribe, WriterTypes
  <2>4. SubscriberTypes'
    BY <1>0 DEF Unsubscribe, SubscriberTypes
  <2>5. RingTypes' /\ ReaderTypes'
    BY <1>0 DEF Unsubscribe, UnsubscribeNow, RingTypes, ReaderTypes
  <2> QED BY <2>3, <2>4, <2>5 DEF TypeOK
<1>23. CASE \E s \in Subs : UnsubscribeCancel(s)
  <2> PICK s \in Subs : UnsubscribeCancel(s)
    BY <1>23
  <2>1. SubscriberTypes'
    BY <1>0 DEF UnsubscribeCancel, SubscriberTypes
  <2>2. RingTypes' /\ WriterTypes' /\ ReaderTypes'
    BY <1>0 DEF UnsubscribeCancel, RingTypes, WriterTypes, ReaderTypes
  <2> QED BY <2>1, <2>2 DEF TypeOK
<1>24. CASE \E s \in Subs : Cancel(s)
  <2> PICK s \in Subs : Cancel(s)
    BY <1>24
  <2>1. SubscriberTypes'
    BY <1>0 DEF Cancel, SubscriberTypes
  <2>2. RingTypes' /\ WriterTypes' /\ ReaderTypes'
    BY <1>0 DEF Cancel, RingTypes, WriterTypes, ReaderTypes
  <2> QED BY <2>1, <2>2 DEF TypeOK
<1>25. CASE \E s \in Subs : TestEvicted(s)
  <2> PICK s \in Subs : TestEvicted(s)
    BY <1>25
  <2>1. ReaderTypes'
    BY <1>0 DEF TestEvicted, ReaderTypes
  <2>2. RingTypes' /\ WriterTypes' /\ SubscriberTypes'
    BY <1>0 DEF TestEvicted, RingTypes, WriterTypes, SubscriberTypes
  <2> QED BY <2>1, <2>2 DEF TypeOK
<1>26. CASE \E s \in Subs : TestCanceled(s)
  <2> PICK s \in Subs : TestCanceled(s)
    BY <1>26
  <2>1. ReaderTypes'
    <3>1. CASE canceled[s]
      BY <1>0, <3>1 DEF TestCanceled, ReaderTypes
    <3>2. CASE ~canceled[s]
      <4>1. target' = [target EXCEPT ![s] = cursor[s]] /\ cursor[s] \in Nat
        BY <1>0, <3>2 DEF TestCanceled, SubscriberTypes
      <4> QED BY <1>0, <3>2, <4>1 DEF TestCanceled, ReaderTypes
    <3> QED BY <3>1, <3>2
  <2>2. RingTypes' /\ WriterTypes' /\ SubscriberTypes'
    BY <1>0 DEF TestCanceled, RingTypes, WriterTypes, SubscriberTypes
  <2> QED BY <2>1, <2>2 DEF TypeOK
<1>27. CASE \E s \in Subs : LoadSeq(s)
  <2> PICK s \in Subs : LoadSeq(s)
    BY <1>27
  <2>1. Slot(target[s]) \in Slots
    BY <1>0, SlotType DEF ReaderTypes
  <2>2. seq[Slot(target[s])] \in Nat /\ seq[Slot(target[s])] \div 2 \in Nat
    BY <1>0, <2>1 DEF RingTypes
  <2>3. ReaderTypes'
    BY <1>0, <2>2 DEF LoadSeq, ReaderTypes, Incomplete
  <2>4. RingTypes' /\ WriterTypes' /\ SubscriberTypes'
    BY <1>0 DEF LoadSeq, RingTypes, WriterTypes, SubscriberTypes
  <2> QED BY <2>3, <2>4 DEF TypeOK
<1>28. CASE \E s \in Subs : CopyWord(s)
  <2> PICK s \in Subs : CopyWord(s)
    BY <1>28
  <2>1. Slot(target[s]) \in Slots
    BY <1>0, SlotType DEF ReaderTypes
  <2>2. ReaderTypes'
    <3> DEFINE copy == [buf[s] EXCEPT ![rk[s]] = word[Slot(target[s])][rk[s]]]
    <3>1. word[Slot(target[s])] \in [1 .. Words -> Int] /\ rk[s] \in 1 .. Words
      BY <1>0, <2>1 DEF RingTypes, ReaderTypes
    <3>2. copy \in [1 .. Words -> Int]
      BY <1>0, <3>1 DEF ReaderTypes
    <3>3. buf' = [buf EXCEPT ![s] = copy]
      BY DEF CopyWord
    <3>4. AfterWords(copy) \in {"copyBlob", "badLen", "reload"}
      BY DEF AfterWords
    <3>5. /\ IF rk[s] < Words
             THEN rk' = [rk EXCEPT ![s] = rk[s] + 1] /\ rpc' = rpc
             ELSE rk' = [rk EXCEPT ![s] = 1] /\ rpc' = [rpc EXCEPT ![s] = AfterWords(copy)]
          /\ UNCHANGED <<target, bbuf, out, res>>
      BY DEF CopyWord
    <3> HIDE DEF copy
    <3>6. rk' \in [Subs -> 1 .. Words]
      <4>1. PICK k \in 1 .. Words : rk' = [rk EXCEPT ![s] = k]
        <5>1. CASE rk[s] < Words
          <6>1. rk[s] + 1 \in 1 .. Words
            BY <3>1, <5>1, WordsAssumption
          <6> QED BY <3>5, <5>1, <6>1
        <5>2. CASE ~(rk[s] < Words)
          <6>1. 1 \in 1 .. Words
            BY WordsAssumption
          <6> QED BY <3>5, <5>2, <6>1
        <5> QED BY <5>1, <5>2
      <4> QED BY <1>0, <4>1 DEF ReaderTypes
    <3>7. buf' \in [Subs -> [1 .. Words -> Int]]
      BY <1>0, <3>2, <3>3 DEF ReaderTypes
    <3> QED BY <1>0, <3>4, <3>5, <3>6, <3>7 DEF ReaderTypes
  <2>3. RingTypes' /\ WriterTypes' /\ SubscriberTypes'
    BY <1>0 DEF CopyWord, RingTypes, WriterTypes, SubscriberTypes
  <2> QED BY <2>2, <2>3 DEF TypeOK
<1>29. CASE \E s \in Subs : CopyBlob(s)
  <2> PICK s \in Subs : CopyBlob(s)
    BY <1>29
  <2>1. Slot(target[s]) \in Slots
    BY <1>0, SlotType DEF ReaderTypes
  <2>2. ReaderTypes'
    BY <1>0, <2>1 DEF CopyBlob, ReaderTypes, RingTypes
  <2>3. RingTypes' /\ WriterTypes' /\ SubscriberTypes'
    BY <1>0 DEF CopyBlob, RingTypes, WriterTypes, SubscriberTypes
  <2> QED BY <2>2, <2>3 DEF TypeOK
<1>30. CASE \E s \in Subs : GiveUp(s)
  <2> PICK s \in Subs : GiveUp(s)
    BY <1>30
  <2>1. Slot(target[s]) \in Slots
    BY <1>0, SlotType DEF ReaderTypes
  <2>2. seq[Slot(target[s])] \in Nat /\ seq[Slot(target[s])] \div 2 \in Nat
    BY <1>0, <2>1 DEF RingTypes
  <2>3. EmptyBuf \in [1 .. Words -> Int] /\ Fresh \in Int
    BY DEF EmptyBuf, Fresh
  <2>4. ReaderTypes'
    BY <1>0, <2>2, <2>3 DEF GiveUp, ReaderTypes, Incomplete
  <2>5. RingTypes' /\ WriterTypes' /\ SubscriberTypes'
    BY <1>0 DEF GiveUp, RingTypes, WriterTypes, SubscriberTypes
  <2> QED BY <2>4, <2>5 DEF TypeOK
<1>31. CASE \E s \in Subs : Reload(s)
  <2> PICK s \in Subs : Reload(s)
    BY <1>31
  <2>1. Slot(target[s]) \in Slots
    BY <1>0, SlotType DEF ReaderTypes
  <2>2. seq[Slot(target[s])] \in Nat /\ seq[Slot(target[s])] \div 2 \in Nat
    BY <1>0, <2>1 DEF RingTypes
  <2>3. EmptyBuf \in [1 .. Words -> Int] /\ Fresh \in Int
    BY DEF EmptyBuf, Fresh
  <2>4. [words |-> buf[s], blob |-> bbuf[s], index |-> target[s], first |-> cursor[s]] \in Deliveries
    BY <1>0 DEF ReaderTypes, SubscriberTypes, Deliveries
  <2> DEFINE d == [words |-> buf[s], blob |-> bbuf[s], index |-> target[s], first |-> cursor[s]]
             after == seq[Slot(target[s])]
  <2>5. cursor' \in [Subs -> Nat] /\ ReaderTypes'
    <3>1. CASE after = 2 * target[s] + 1
      <4>1. /\ out' = [out EXCEPT ![s] = d]
            /\ cursor' = [cursor EXCEPT ![s] = target[s] + 1]
            /\ res' = [res EXCEPT ![s] = "record"]
            /\ rpc' = [rpc EXCEPT ![s] = "evicted"]
            /\ UNCHANGED <<target, rk>>
            /\ buf' = [buf EXCEPT ![s] = EmptyBuf]
            /\ bbuf' = [bbuf EXCEPT ![s] = Fresh]
        BY <3>1 DEF Reload
      <4>2. target[s] + 1 \in Nat
        BY <1>0 DEF ReaderTypes
      <4> HIDE DEF d
      <4>3. cursor' \in [Subs -> Nat]
        BY <1>0, <4>1, <4>2 DEF SubscriberTypes
      <4>4. ReaderTypes'
        BY <1>0, <2>3, <2>4, <4>1 DEF ReaderTypes, d
      <4> QED BY <4>3, <4>4
    <3>2. CASE after # 2 * target[s] + 1
      <4>1. /\ Incomplete(s, after \div 2)
            /\ UNCHANGED <<out, cursor, res, rk>>
            /\ buf' = [buf EXCEPT ![s] = EmptyBuf]
            /\ bbuf' = [bbuf EXCEPT ![s] = Fresh]
        BY <3>2 DEF Reload
      <4>2. ReaderTypes'
        BY <1>0, <2>2, <2>3, <4>1 DEF ReaderTypes, Incomplete
      <4> QED BY <1>0, <4>1, <4>2 DEF SubscriberTypes
    <3> QED BY <3>1, <3>2
  <2>7. SubscriberTypes'
    BY <1>0, <2>5 DEF Reload, SubscriberTypes
  <2>8. RingTypes' /\ WriterTypes'
    BY <1>0 DEF Reload, RingTypes, WriterTypes
  <2> QED BY <2>5, <2>7, <2>8 DEF TypeOK
<1>32. CASE \E s \in Subs : TestEnd(s)
  <2> PICK s \in Subs : TestEnd(s)
    BY <1>32
  <2>1. ReaderTypes'
    BY <1>0 DEF TestEnd, ReaderTypes
  <2>2. RingTypes' /\ WriterTypes' /\ SubscriberTypes'
    BY <1>0 DEF TestEnd, RingTypes, WriterTypes, SubscriberTypes
  <2> QED BY <2>1, <2>2 DEF TypeOK
<1>33. CASE UNCHANGED vars
  BY <1>0, <1>33 DEF vars, TypeOK, RingTypes, WriterTypes, SubscriberTypes, ReaderTypes
<1> QED
  BY <1>1, <1>2, <1>3, <1>4, <1>5, <1>6, <1>7, <1>8, <1>9, <1>10, <1>11, <1>12, <1>13, <1>14, <1>15, <1>16, <1>17, <1>18, <1>19, <1>20, <1>21, <1>22, <1>23, <1>24, <1>25, <1>26, <1>27, <1>28, <1>29, <1>30, <1>31, <1>32, <1>33
  DEF Next, Writer, Caller, Reader

\* Type correctness: see TypeOK.
THEOREM TypeCorrect == Spec => []TypeOK
BY TypeInit, TypeStep, PTL DEF Spec

-----------------------------------------------------------------------------
(***************************************************************************)
(* No delivery is torn, for every capacity, record size, stream and set of *)
(* subscribers.  The argument is the seqlock's: an odd seq vouches for the *)
(* words under it, seq never comes back to a value it left, so a copy made *)
(* between two equal odd loads was made while the words did not change.    *)
(***************************************************************************)

\* The slot the emit goroutine is at.
Here == Slot(writeSeq)

\* seq grows along the stream: the slot being written carries the index
\* being written, every other one an earlier index.
SeqOrder ==
  /\ wpc \in {"words", "blob", "publish"} => seq[Here] = 2 * writeSeq
  /\ wpc = "advance" => seq[Here] = 2 * writeSeq + 1
  /\ \A i \in Slots :
       (i # Here \/ wpc \notin {"words", "blob", "publish", "advance"}) =>
         seq[i] = 0 \/ seq[i] < 2 * writeSeq

\* An odd seq vouches for the whole slot.
OddIsWhole ==
  \A i \in Slots : \A n \in Nat :
    seq[i] = 2 * n + 1 =>
      /\ \A j \in 1 .. Words : word[i][j] = n
      /\ n \in Snapshots => blob[i] = n

\* How far the write in progress has come.
WriteProgress ==
  /\ wpc = "words" => \A j \in 1 .. (wk - 1) : word[Here][j] = writeSeq
  /\ wpc \in {"blob", "publish"} => \A j \in 1 .. Words : word[Here][j] = writeSeq
  /\ (wpc = "publish" /\ writeSeq \in Snapshots) => blob[Here] = writeSeq

\* A read in progress found its index published: either the slot still
\* carries that index, and what is copied so far is that record, or it has
\* moved on.
ReadProgress(s) ==
  LET t == target[s]
      q == seq[Slot(t)]
  IN  /\ rpc[s] # "copy" => rk[s] = 1
      /\ rpc[s] # "reload" => bbuf[s] = Fresh
      /\ rpc[s] \in {"copy", "copyBlob", "badLen", "reload"} => q >= 2 * t + 1
      /\ q = 2 * t + 1 =>
           /\ rpc[s] # "badLen"
           /\ rpc[s] = "copy" => \A j \in 1 .. (rk[s] - 1) : buf[s][j] = t
           /\ rpc[s] \in {"copyBlob", "reload"} => \A j \in 1 .. Words : buf[s][j] = t
           /\ rpc[s] = "copyBlob" => t \in Snapshots
           /\ rpc[s] = "reload" => bbuf[s] = IF t \in Snapshots THEN t ELSE Fresh

ReadsInProgress == \A s \in Subs : ReadProgress(s)

SeqlockInv ==
  TypeOK /\ SeqOrder /\ OddIsWhole /\ WriteProgress /\ ReadsInProgress /\ NoTornDelivery

-----------------------------------------------------------------------------
(***************************************************************************)
(* Steps that touch no slot, and steps that touch no read.                 *)
(***************************************************************************)

\* Where the emit goroutine has a slot in hand.
Writing == {"words", "blob", "publish", "advance"}

\* What the seqlock's invariant reads of the writer.
slotSide == <<seq, word, blob, writeSeq>>

\* What it reads of the subscribers.
readSide == <<rpc, target, rk, buf, bbuf, out>>

\* A step that leaves the slots alone and does not begin or end a write.
LEMMA SlotsFrame ==
  ASSUME SeqOrder, OddIsWhole, WriteProgress, UNCHANGED slotSide,
         UNCHANGED <<wpc, wk>> \/ (wpc \notin Writing /\ wpc' \notin Writing)
  PROVE  SeqOrder' /\ OddIsWhole' /\ WriteProgress'
<1> USE DEF slotSide, Writing
<1>1. Here' = Here
  BY DEF Here
<1>2. SeqOrder'
  BY <1>1 DEF SeqOrder
<1>3. OddIsWhole'
  BY DEF OddIsWhole
<1>4. WriteProgress'
  BY <1>1 DEF WriteProgress
<1> QED BY <1>2, <1>3, <1>4

\* A step that leaves the reads and every seq alone.
LEMMA ReadsFrame ==
  ASSUME ReadsInProgress, NoTornDelivery, UNCHANGED seq, UNCHANGED readSide
  PROVE  ReadsInProgress' /\ NoTornDelivery'
<1>1. ReadsInProgress'
  BY DEF ReadsInProgress, ReadProgress, readSide
<1>2. NoTornDelivery'
  BY DEF NoTornDelivery, readSide
<1> QED BY <1>1, <1>2

\* The emit goroutine outside Write's stores.
Idling ==
  \/ StartEmitting \/ TakePending \/ ApplyRequest
  \/ NextRecord \/ NextEnds \/ RunFails \/ DriverEnds
  \/ StoreEnd \/ CloseControl \/ FailRequest
  \/ BarrierPasses \/ BarrierHolds \/ WatchQuiet \/ WatchExpires \/ Evict

\* The emit goroutine between writes leaves slots and reads alone.
LEMMA IdlingFrame ==
  ASSUME Idling
  PROVE  /\ UNCHANGED slotSide /\ UNCHANGED readSide
         /\ wpc \notin Writing /\ wpc' \notin Writing
<1> USE DEF slotVars, readVars, slotSide, readSide, Writing
<1>1. CASE StartEmitting
  BY <1>1 DEF StartEmitting
<1>2. CASE TakePending
  BY <1>2 DEF TakePending, AfterControl
<1>3. CASE ApplyRequest
  BY <1>3 DEF ApplyRequest, AfterControl
<1>4. CASE NextRecord \/ NextEnds \/ RunFails \/ DriverEnds
  BY <1>4 DEF NextRecord, NextEnds, RunFails, DriverEnds
<1>5. CASE StoreEnd \/ CloseControl \/ FailRequest
  BY <1>5 DEF StoreEnd, CloseControl, FailRequest
<1>6. CASE BarrierPasses \/ BarrierHolds \/ WatchQuiet \/ Evict
  BY <1>6 DEF BarrierPasses, BarrierHolds, WatchQuiet, Evict
<1>7. CASE WatchExpires
  BY <1>7 DEF WatchExpires
<1> QED BY <1>1, <1>2, <1>3, <1>4, <1>5, <1>6, <1>7 DEF Idling

\* Callers leave slots and reads alone.
LEMMA CallerFrame ==
  ASSUME NEW s \in Subs, Caller(s)
  PROVE  UNCHANGED slotSide /\ UNCHANGED readSide /\ UNCHANGED <<wpc, wk>>
<1> USE DEF slotVars, readVars, slotSide, readSide, writerVars
<1>1. CASE \E m \in Modes, st \in Starts : Subscribe(s, m, st)
  BY <1>1 DEF Subscribe
<1>2. CASE Unsubscribe(s) \/ UnsubscribeCancel(s) \/ Cancel(s)
  BY <1>2 DEF Unsubscribe, UnsubscribeCancel, Cancel
<1> QED BY <1>1, <1>2 DEF Caller

\* Next leaves the slots alone.
LEMMA ReaderFrame ==
  ASSUME NEW s \in Subs, Reader(s)
  PROVE  UNCHANGED slotSide /\ UNCHANGED <<wpc, wk>>
<1> USE DEF readerFrame, slotVars, slotSide, writerVars
<1>1. CASE TestEvicted(s) \/ TestCanceled(s) \/ LoadSeq(s) \/ CopyWord(s)
  BY <1>1 DEF TestEvicted, TestCanceled, LoadSeq, CopyWord
<1>2. CASE CopyBlob(s) \/ GiveUp(s) \/ Reload(s) \/ TestEnd(s)
  BY <1>2 DEF CopyBlob, GiveUp, Reload, TestEnd
<1> QED BY <1>1, <1>2 DEF Reader

-----------------------------------------------------------------------------
(***************************************************************************)
(* The stores of Write.                                                    *)
(***************************************************************************)

\* A store of seq past every index a read in progress may have found there
\* cuts those reads off from their second load.
LEMMA SeqMoves ==
  ASSUME TypeOK, ReadsInProgress, NoTornDelivery, UNCHANGED readSide,
         NEW i \in Slots, NEW v \in Nat, seq' = [seq EXCEPT ![i] = v],
         \A t \in Nat : seq[i] >= 2 * t + 1 => v > 2 * t + 1
  PROVE  ReadsInProgress' /\ NoTornDelivery'
<1>1. ASSUME NEW s \in Subs
      PROVE  ReadProgress(s)'
  <2>1. target[s] \in Nat /\ Slot(target[s]) \in Slots
    BY SlotType DEF TypeOK, ReaderTypes
  <2>2. ReadProgress(s)
    BY DEF ReadsInProgress
  <2>3. seq \in [Slots -> Nat]
    BY DEF TypeOK, RingTypes
  <2>4. UNCHANGED <<rpc, target, rk, buf, bbuf>>
    BY DEF readSide
  <2>5. CASE Slot(target[s]) # i
    <3>1. seq'[Slot(target[s])] = seq[Slot(target[s])]
      BY <2>1, <2>3, <2>5
    <3> QED BY <2>2, <2>4, <3>1 DEF ReadProgress
  <2>6. CASE Slot(target[s]) = i
    <3>1. seq'[Slot(target[s])] = v
      BY <2>1, <2>3, <2>6
    <3>2. rpc[s] \in {"copy", "copyBlob", "badLen", "reload"} => v > 2 * target[s] + 1
      BY <2>1, <2>2, <2>6 DEF ReadProgress
    <3>3. rpc[s] \in {"copy", "copyBlob", "badLen", "reload"} =>
            v >= 2 * target[s] + 1 /\ v # 2 * target[s] + 1
      BY <2>1, <3>2
    <3> QED BY <2>2, <2>4, <3>1, <3>3 DEF ReadProgress
  <2> QED BY <2>5, <2>6
<1>2. NoTornDelivery'
  BY DEF NoTornDelivery, readSide
<1> QED BY <1>1, <1>2 DEF ReadsInProgress

\* The stores of Ring.Write keep the seqlock invariant.
LEMMA WriteStep ==
  ASSUME SeqlockInv,
         Invalidate \/ StoreWord \/ StoreBlob \/ Publish \/ Advance
  PROVE  SeqOrder' /\ OddIsWhole' /\ WriteProgress' /\ ReadsInProgress' /\ NoTornDelivery'
<1> USE DEF slotVars, readVars, readSide
<1>0. /\ SeqOrder /\ OddIsWhole /\ WriteProgress
      /\ ReadsInProgress /\ NoTornDelivery /\ TypeOK
      /\ writeSeq \in Nat /\ Here \in Slots
      /\ seq \in [Slots -> Nat]
      /\ word \in [Slots -> [1 .. Words -> Int]]
      /\ blob \in [Slots -> Int]
      /\ wk \in 1 .. Words
  BY SlotType DEF SeqlockInv, TypeOK, RingTypes, WriterTypes, Here
<1>1. CASE Invalidate
  <2>1. /\ seq' = [seq EXCEPT ![Here] = 2 * writeSeq]
        /\ wpc = "invalidate" /\ wpc' = "words" /\ wk' = 1
        /\ UNCHANGED <<word, blob, writeSeq>> /\ UNCHANGED readSide
    BY <1>1 DEF Invalidate, Here
  <2>2. Here' = Here
    BY <2>1 DEF Here
  <2>3. \A i \in Slots : seq[i] = 0 \/ seq[i] < 2 * writeSeq
    BY <1>0, <2>1 DEF SeqOrder
  <2>4. SeqOrder'
    BY <1>0, <2>1, <2>2, <2>3 DEF SeqOrder
  <2>5. OddIsWhole'
    <3> SUFFICES ASSUME NEW i \in Slots, NEW n \in Nat, seq'[i] = 2 * n + 1
                 PROVE  /\ \A j \in 1 .. Words : word'[i][j] = n
                        /\ n \in Snapshots => blob'[i] = n
      BY DEF OddIsWhole
    <3>1. i # Here
      BY <1>0, <2>1
    <3>2. seq[i] = 2 * n + 1
      BY <1>0, <2>1, <3>1
    <3> QED BY <1>0, <2>1, <3>2 DEF OddIsWhole
  <2>6. WriteProgress'
    BY <2>1 DEF WriteProgress
  <2>7. ReadsInProgress' /\ NoTornDelivery'
    <3>1. \A t \in Nat : seq[Here] >= 2 * t + 1 => 2 * writeSeq > 2 * t + 1
      BY <1>0, <2>3
    <3>2. 2 * writeSeq \in Nat
      BY <1>0
    <3> QED BY <1>0, <2>1, <3>1, <3>2, SeqMoves
  <2> QED BY <2>4, <2>5, <2>6, <2>7
<1>2. CASE StoreWord
  <2>1. /\ word' = [word EXCEPT ![Here][wk] = writeSeq]
        /\ wpc = "words" /\ UNCHANGED <<seq, blob, writeSeq>> /\ UNCHANGED readSide
        /\ wk' = IF wk = Words THEN 1 ELSE wk + 1
        /\ wpc' = IF wk < Words THEN "words"
                  ELSE IF writeSeq \in Snapshots THEN "blob" ELSE "publish"
    BY <1>2 DEF StoreWord, Here
  <2>2. Here' = Here
    BY <2>1 DEF Here
  <2>3. seq[Here] = 2 * writeSeq
    BY <1>0, <2>1 DEF SeqOrder
  <2>4. SeqOrder'
    BY <1>0, <2>1, <2>2, <2>3 DEF SeqOrder
  <2>5. OddIsWhole'
    <3> SUFFICES ASSUME NEW i \in Slots, NEW n \in Nat, seq'[i] = 2 * n + 1
                 PROVE  /\ \A j \in 1 .. Words : word'[i][j] = n
                        /\ n \in Snapshots => blob'[i] = n
      BY DEF OddIsWhole
    <3>1. i # Here
      BY <1>0, <2>1, <2>3
    <3>2. word'[i] = word[i]
      BY <1>0, <2>1, <3>1
    <3> QED BY <1>0, <2>1, <3>2 DEF OddIsWhole
  <2>6. \A j \in 1 .. wk : word'[Here][j] = writeSeq
    <3>1. \A j \in 1 .. (wk - 1) : word[Here][j] = writeSeq
      BY <1>0, <2>1 DEF WriteProgress
    <3>2. word'[Here] = [word[Here] EXCEPT ![wk] = writeSeq]
      BY <1>0, <2>1
    <3>3. word[Here] \in [1 .. Words -> Int]
      BY <1>0
    <3> QED BY <1>0, <3>1, <3>2, <3>3, WordsAssumption
  <2>7. WriteProgress'
    <3>1. CASE wk < Words
      <4>1. wk' = wk + 1 /\ wpc' = "words"
        BY <1>0, <2>1, <3>1, WordsAssumption
      <4>2. 1 .. (wk' - 1) = 1 .. wk
        BY <1>0, <4>1
      <4> QED BY <2>1, <2>2, <2>6, <4>1, <4>2 DEF WriteProgress
    <3>2. CASE ~(wk < Words)
      <4>1. wk = Words
        BY <1>0, <3>2, WordsAssumption
      <4>2. \/ wpc' = "blob"
            \/ wpc' = "publish" /\ writeSeq \notin Snapshots
        BY <2>1, <3>2
      <4> QED BY <2>1, <2>2, <2>6, <4>1, <4>2 DEF WriteProgress
    <3> QED BY <3>1, <3>2
  <2>8. ReadsInProgress' /\ NoTornDelivery'
    BY <1>0, <2>1, ReadsFrame
  <2> QED BY <2>4, <2>5, <2>7, <2>8
<1>3. CASE StoreBlob
  <2>1. /\ blob' = [blob EXCEPT ![Here] = writeSeq]
        /\ wpc = "blob" /\ wpc' = "publish"
        /\ UNCHANGED <<seq, word, writeSeq>> /\ UNCHANGED readSide
    BY <1>3 DEF StoreBlob, Here
  <2>2. Here' = Here
    BY <2>1 DEF Here
  <2>3. seq[Here] = 2 * writeSeq
    BY <1>0, <2>1 DEF SeqOrder
  <2>4. SeqOrder'
    BY <1>0, <2>1, <2>2, <2>3 DEF SeqOrder
  <2>5. OddIsWhole'
    <3> SUFFICES ASSUME NEW i \in Slots, NEW n \in Nat, seq'[i] = 2 * n + 1
                 PROVE  /\ \A j \in 1 .. Words : word'[i][j] = n
                        /\ n \in Snapshots => blob'[i] = n
      BY DEF OddIsWhole
    <3>1. i # Here
      BY <1>0, <2>1, <2>3
    <3>2. blob'[i] = blob[i]
      BY <1>0, <2>1, <3>1
    <3> QED BY <1>0, <2>1, <3>2 DEF OddIsWhole
  <2>6. WriteProgress'
    BY <1>0, <2>1, <2>2 DEF WriteProgress
  <2>7. ReadsInProgress' /\ NoTornDelivery'
    BY <1>0, <2>1, ReadsFrame
  <2> QED BY <2>4, <2>5, <2>6, <2>7
<1>4. CASE Publish
  <2>1. /\ seq' = [seq EXCEPT ![Here] = 2 * writeSeq + 1]
        /\ wpc = "publish" /\ wpc' = "advance"
        /\ UNCHANGED <<word, blob, writeSeq>> /\ UNCHANGED readSide
    BY <1>4 DEF Publish, Here
  <2>2. Here' = Here
    BY <2>1 DEF Here
  <2>3. seq[Here] = 2 * writeSeq
    BY <1>0, <2>1 DEF SeqOrder
  <2>4. SeqOrder'
    BY <1>0, <2>1, <2>2, <2>3 DEF SeqOrder
  <2>5. OddIsWhole'
    <3> SUFFICES ASSUME NEW i \in Slots, NEW n \in Nat, seq'[i] = 2 * n + 1
                 PROVE  /\ \A j \in 1 .. Words : word'[i][j] = n
                        /\ n \in Snapshots => blob'[i] = n
      BY DEF OddIsWhole
    <3>1. CASE i = Here
      <4>1. n = writeSeq
        BY <1>0, <2>1, <3>1
      <4> QED BY <1>0, <2>1, <3>1, <4>1 DEF WriteProgress
    <3>2. CASE i # Here
      <4>1. seq[i] = 2 * n + 1
        BY <1>0, <2>1, <3>2
      <4> QED BY <1>0, <2>1, <4>1 DEF OddIsWhole
    <3> QED BY <3>1, <3>2
  <2>6. WriteProgress'
    BY <2>1 DEF WriteProgress
  <2>7. ReadsInProgress' /\ NoTornDelivery'
    <3>1. \A t \in Nat : seq[Here] >= 2 * t + 1 => 2 * writeSeq + 1 > 2 * t + 1
      BY <1>0, <2>3
    <3>2. 2 * writeSeq + 1 \in Nat
      BY <1>0
    <3> QED BY <1>0, <2>1, <3>1, <3>2, SeqMoves
  <2> QED BY <2>4, <2>5, <2>6, <2>7
<1>5. CASE Advance
  <2>1. /\ writeSeq' = writeSeq + 1
        /\ wpc = "advance" /\ wpc' = "loop"
        /\ UNCHANGED <<seq, word, blob>> /\ UNCHANGED readSide
    BY <1>5 DEF Advance
  <2>2. \A i \in Slots : seq[i] < 2 * (writeSeq + 1)
    <3> TAKE i \in Slots
    <3>1. CASE i = Here
      BY <1>0, <2>1, <3>1 DEF SeqOrder
    <3>2. CASE i # Here
      <4>1. seq[i] = 0 \/ seq[i] < 2 * writeSeq
        BY <1>0, <3>2 DEF SeqOrder
      <4>2. seq[i] \in Nat
        BY <1>0
      <4> QED BY <1>0, <4>1, <4>2
    <3> QED BY <3>1, <3>2
  <2>3. SeqOrder'
    BY <2>1, <2>2 DEF SeqOrder
  <2>4. OddIsWhole'
    BY <1>0, <2>1 DEF OddIsWhole
  <2>5. WriteProgress'
    BY <2>1 DEF WriteProgress
  <2>6. ReadsInProgress' /\ NoTornDelivery'
    BY <1>0, <2>1, ReadsFrame
  <2> QED BY <2>3, <2>4, <2>5, <2>6
<1> QED BY <1>1, <1>2, <1>3, <1>4, <1>5

-----------------------------------------------------------------------------
(***************************************************************************)
(* The loads of a read.                                                    *)
(***************************************************************************)

\* A step of one subscriber's Next leaves the other subscribers' alone.
LEMMA ReaderIsLocal ==
  ASSUME TypeOK, NEW s \in Subs, NEW u \in Subs, u # s, Reader(s)
  PROVE  /\ rpc'[u] = rpc[u] /\ target'[u] = target[u] /\ rk'[u] = rk[u]
         /\ buf'[u] = buf[u] /\ bbuf'[u] = bbuf[u] /\ out'[u] = out[u]
<1> USE DEF TypeOK, ReaderTypes
<1>1. CASE TestEvicted(s) \/ TestCanceled(s) \/ TestEnd(s)
  BY <1>1 DEF TestEvicted, TestCanceled, TestEnd
<1>2. CASE LoadSeq(s)
  BY <1>2 DEF LoadSeq, Incomplete
<1>3. CASE CopyWord(s)
  <2>1. /\ UNCHANGED <<target, bbuf, out>>
        /\ \E copy : /\ buf' = [buf EXCEPT ![s] = copy]
                     /\ \/ rk' = [rk EXCEPT ![s] = rk[s] + 1] /\ rpc' = rpc
                        \/ rk' = [rk EXCEPT ![s] = 1] /\ rpc' = [rpc EXCEPT ![s] = AfterWords(copy)]
    BY <1>3 DEF CopyWord
  <2> QED BY <2>1
<1>6. CASE CopyBlob(s)
  BY <1>6 DEF CopyBlob
<1>4. CASE GiveUp(s)
  BY <1>4 DEF GiveUp, Incomplete
<1>5. CASE Reload(s)
  BY <1>5 DEF Reload, Incomplete
<1> QED BY <1>1, <1>2, <1>3, <1>4, <1>5, <1>6 DEF Reader

\* Outside a read nothing is claimed but that nothing is left over.
LEMMA NoReadNoClaim ==
  ASSUME NEW s \in Subs,
         rpc'[s] \in {"evicted", "canceled", "load", "end"},
         rk'[s] = 1, bbuf'[s] = Fresh
  PROVE  ReadProgress(s)'
BY DEF ReadProgress

\* The loads of Ring.read keep the seqlock invariant.
LEMMA ReadStep ==
  ASSUME SeqlockInv, NEW s \in Subs, Reader(s)
  PROVE  ReadProgress(s)' /\ (out'[s] = out[s] \/
           /\ \A j \in 1 .. Words : out'[s].words[j] = out'[s].index
           /\ out'[s].blob = IF out'[s].index \in Snapshots THEN out'[s].index ELSE Fresh)
<1> DEFINE t == target[s]
           q == seq[Slot(t)]
<1>0. /\ ReadProgress(s) /\ OddIsWhole /\ TypeOK
      /\ t \in Nat /\ Slot(t) \in Slots /\ q \in Nat
  BY SlotType DEF SeqlockInv, ReadsInProgress, TypeOK, RingTypes, ReaderTypes
<1>00. /\ rpc = [u \in Subs |-> rpc[u]] /\ target \in [Subs -> Nat]
       /\ rk \in [Subs -> 1 .. Words] /\ buf \in [Subs -> [1 .. Words -> Int]]
       /\ bbuf \in [Subs -> Int] /\ out \in [Subs -> Deliveries]
  BY <1>0 DEF TypeOK, ReaderTypes
<1>000. UNCHANGED seq
  BY ReaderFrame DEF slotSide
<1> HIDE DEF t, q
<1>1. CASE TestEvicted(s) \/ TestCanceled(s) \/ TestEnd(s)
  <2>1. /\ rpc[s] \in {"evicted", "canceled", "end"}
        /\ rpc'[s] \in {"evicted", "canceled", "load"}
        /\ UNCHANGED <<rk, bbuf, out>>
    BY <1>00, <1>1 DEF TestEvicted, TestCanceled, TestEnd
  <2>2. rk[s] = 1 /\ bbuf[s] = Fresh
    BY <1>0, <2>1 DEF ReadProgress
  <2> QED BY <2>1, <2>2, NoReadNoClaim
<1>2. CASE LoadSeq(s)
  <2>1. rpc[s] = "load" /\ UNCHANGED <<rk, buf, bbuf, out>>
    BY <1>2 DEF LoadSeq
  <2>2. rk[s] = 1 /\ bbuf[s] = Fresh
    BY <1>0, <2>1 DEF ReadProgress
  <2>3. CASE q = 2 * t + 1
    <3>1. rpc'[s] = "copy" /\ target'[s] = t
      BY <1>00, <1>2, <2>3 DEF LoadSeq, t, q
    <3>2. seq'[Slot(target'[s])] = 2 * target'[s] + 1
      BY <1>000, <2>3, <3>1 DEF t, q
    <3>3. seq'[Slot(target'[s])] >= 2 * target'[s] + 1
      BY <1>0, <3>1, <3>2
    <3> QED BY <2>1, <2>2, <3>1, <3>3 DEF ReadProgress
  <2>4. CASE q # 2 * t + 1
    <3>1. rpc'[s] \in {"end", "load"}
      BY <1>00, <1>2, <2>4 DEF LoadSeq, Incomplete, t, q
    <3> QED BY <2>1, <2>2, <3>1, NoReadNoClaim
  <2> QED BY <2>3, <2>4
<1>3. CASE CopyWord(s)
  <2> DEFINE k == rk[s]
             copy == [buf[s] EXCEPT ![k] = word[Slot(t)][k]]
  <2>1. /\ rpc[s] = "copy" /\ UNCHANGED <<target, bbuf, out>>
        /\ buf' = [buf EXCEPT ![s] = copy]
        /\ IF k < Words
           THEN rk' = [rk EXCEPT ![s] = rk[s] + 1] /\ rpc' = rpc
           ELSE rk' = [rk EXCEPT ![s] = 1] /\ rpc' = [rpc EXCEPT ![s] = AfterWords(copy)]
    BY <1>3 DEF CopyWord, t
  <2>2. k \in 1 .. Words /\ buf[s] \in [1 .. Words -> Int] /\ bbuf[s] = Fresh
    BY <1>0, <1>00, <2>1 DEF ReadProgress
  <2>3. q >= 2 * t + 1
    BY <1>0, <2>1 DEF ReadProgress, t, q
  <2>4. buf'[s] = copy /\ target'[s] = t /\ bbuf'[s] = Fresh /\ seq'[Slot(target'[s])] = q
    BY <1>00, <1>000, <2>1, <2>2 DEF t, q
  <2>5. q = 2 * t + 1 => \A j \in 1 .. k : copy[j] = t
    <3> SUFFICES ASSUME q = 2 * t + 1, NEW j \in 1 .. k
                 PROVE  copy[j] = t
      OBVIOUS
    <3>1. word[Slot(t)][k] = t
      BY <1>0, <2>2 DEF OddIsWhole, q
    <3>2. CASE j = k
      BY <2>2, <3>1, <3>2
    <3>3. CASE j # k
      <4>1. j \in 1 .. (k - 1) /\ j \in 1 .. Words
        BY <2>2, <3>3, WordsAssumption
      <4>2. buf[s][j] = t
        BY <1>0, <2>1, <4>1 DEF ReadProgress, t, q
      <4> QED BY <2>2, <3>3, <4>1, <4>2
    <3> QED BY <3>2, <3>3
  <2> HIDE DEF copy, k
  <2>6. CASE k < Words
    <3>1. rpc'[s] = "copy" /\ rk'[s] = k + 1
      BY <1>00, <2>1, <2>6 DEF k
    <3>2. 1 .. (rk'[s] - 1) = 1 .. k
      BY <2>2, <3>1
    <3>3. q = 2 * t + 1 => \A j \in 1 .. (rk'[s] - 1) : buf'[s][j] = t
      BY <2>4, <2>5, <3>2
    <3> QED BY <2>1, <2>3, <2>4, <3>1, <3>3 DEF ReadProgress
  <2>7. CASE ~(k < Words)
    <3>1. rpc'[s] = AfterWords(copy) /\ rk'[s] = 1
      BY <1>00, <2>1, <2>7
    <3>2. k = Words /\ 1 \in 1 .. k /\ Words \in 1 .. k
      BY <2>2, <2>7, WordsAssumption
    <3>3. q = 2 * t + 1 => /\ \A j \in 1 .. Words : buf'[s][j] = t
                           /\ copy[1] = t /\ copy[Words] = t
      BY <2>4, <2>5, <3>2
    <3>4. rpc'[s] \in {"copyBlob", "badLen", "reload"}
      BY <3>1 DEF AfterWords
    <3>5. q = 2 * t + 1 => rpc'[s] = IF t \in Snapshots THEN "copyBlob" ELSE "reload"
      BY <3>1, <3>3 DEF AfterWords
    <3> QED BY <2>1, <2>3, <2>4, <3>1, <3>3, <3>4, <3>5 DEF ReadProgress
  <2> QED BY <2>6, <2>7
<1>4. CASE CopyBlob(s)
  <2>1. /\ rpc[s] = "copyBlob" /\ rpc'[s] = "reload" /\ UNCHANGED <<target, rk, buf, out>>
        /\ bbuf'[s] = blob[Slot(t)]
    BY <1>00, <1>4 DEF CopyBlob, t
  <2>2. q >= 2 * t + 1 /\ rk[s] = 1
    BY <1>0, <2>1 DEF ReadProgress, t, q
  <2>3. q = 2 * t + 1 => t \in Snapshots /\ blob[Slot(t)] = t /\ \A j \in 1 .. Words : buf[s][j] = t
    BY <1>0, <2>1 DEF ReadProgress, OddIsWhole, t, q
  <2>4. target'[s] = t /\ seq'[Slot(target'[s])] = q
    BY <1>000, <2>1 DEF t, q
  <2> QED BY <2>1, <2>2, <2>3, <2>4 DEF ReadProgress
<1>5. CASE GiveUp(s)
  <2>1. /\ rpc[s] = "badLen" /\ rpc'[s] \in {"end", "load"} /\ UNCHANGED <<rk, bbuf, out>>
    BY <1>00, <1>5 DEF GiveUp, Incomplete
  <2>2. rk[s] = 1 /\ bbuf[s] = Fresh
    BY <1>0, <2>1 DEF ReadProgress
  <2> QED BY <2>1, <2>2, NoReadNoClaim
<1>6. CASE Reload(s)
  <2>1. rpc[s] = "reload" /\ UNCHANGED rk /\ bbuf'[s] = Fresh
    BY <1>00, <1>6 DEF Reload
  <2>2. rk[s] = 1
    BY <1>0, <2>1 DEF ReadProgress
  <2>3. CASE q = 2 * t + 1
    <3>1. /\ rpc'[s] = "evicted"
          /\ out'[s] = [words |-> buf[s], blob |-> bbuf[s], index |-> t, first |-> cursor[s]]
      BY <1>00, <1>6, <2>3 DEF Reload, t, q
    <3>2. /\ \A j \in 1 .. Words : buf[s][j] = t
          /\ bbuf[s] = IF t \in Snapshots THEN t ELSE Fresh
      BY <1>0, <2>1, <2>3 DEF ReadProgress, t, q
    <3>3. ReadProgress(s)'
      BY <2>1, <2>2, <3>1, NoReadNoClaim
    <3> QED BY <3>1, <3>2, <3>3
  <2>4. CASE q # 2 * t + 1
    <3>1. rpc'[s] \in {"end", "load"} /\ UNCHANGED out
      BY <1>00, <1>6, <2>4 DEF Reload, Incomplete, t, q
    <3> QED BY <2>1, <2>2, <3>1, NoReadNoClaim
  <2> QED BY <2>3, <2>4
<1> QED BY <1>1, <1>2, <1>3, <1>4, <1>5, <1>6 DEF Reader

\* A step of one subscriber's Next, seen by all of them.
LEMMA ReaderStep ==
  ASSUME SeqlockInv, NEW s \in Subs, Reader(s)
  PROVE  SeqOrder' /\ OddIsWhole' /\ WriteProgress' /\ ReadsInProgress' /\ NoTornDelivery'
<1>0. /\ TypeOK /\ SeqOrder /\ OddIsWhole /\ WriteProgress
      /\ ReadsInProgress /\ NoTornDelivery
  BY DEF SeqlockInv
<1>1. UNCHANGED slotSide /\ UNCHANGED <<wpc, wk>>
  BY ReaderFrame
<1>2. SeqOrder' /\ OddIsWhole' /\ WriteProgress'
  BY <1>0, <1>1, SlotsFrame
<1>3. UNCHANGED seq
  BY <1>1 DEF slotSide
<1>4. ReadsInProgress'
  <2> SUFFICES ASSUME NEW u \in Subs PROVE ReadProgress(u)'
    BY DEF ReadsInProgress
  <2>1. CASE u = s
    BY <2>1, ReadStep
  <2>2. CASE u # s
    <3>1. /\ rpc'[u] = rpc[u] /\ target'[u] = target[u] /\ rk'[u] = rk[u]
          /\ buf'[u] = buf[u] /\ bbuf'[u] = bbuf[u]
      BY <1>0, <2>2, ReaderIsLocal
    <3>2. ReadProgress(u)
      BY <1>0 DEF ReadsInProgress
    <3> QED BY <1>3, <3>1, <3>2 DEF ReadProgress
  <2> QED BY <2>1, <2>2
<1>5. NoTornDelivery'
  <2> SUFFICES ASSUME NEW u \in Subs
               PROVE  \/ out'[u] = NoDelivery
                      \/ /\ \A j \in 1 .. Words : out'[u].words[j] = out'[u].index
                         /\ out'[u].blob = IF out'[u].index \in Snapshots
                                           THEN out'[u].index ELSE Fresh
    BY DEF NoTornDelivery
  <2>1. CASE out'[u] = out[u]
    BY <1>0, <2>1 DEF NoTornDelivery
  <2>2. CASE out'[u] # out[u]
    <3>1. u = s
      BY <1>0, <2>2, ReaderIsLocal
    <3> QED BY <2>2, <3>1, ReadStep
  <2> QED BY <2>1, <2>2
<1> QED BY <1>2, <1>4, <1>5

-----------------------------------------------------------------------------
(***************************************************************************)
(* The invariant.                                                          *)
(***************************************************************************)

\* The seqlock invariant holds of a new ring.
LEMMA SeqlockInit == Init => SeqlockInv
<1> SUFFICES ASSUME Init PROVE SeqlockInv
  OBVIOUS
<1>1. TypeOK
  BY TypeInit
<1>2. SeqOrder /\ WriteProgress
  BY DEF Init, SeqOrder, WriteProgress
<1>3. OddIsWhole
  <2>1. \A i \in Slots : \A n \in Nat : seq[i] # 2 * n + 1
    BY DEF Init
  <2> QED BY <2>1 DEF OddIsWhole
<1>4. ReadsInProgress
  BY DEF Init, ReadsInProgress, ReadProgress
<1>5. NoTornDelivery
  BY DEF Init, NoTornDelivery
<1> QED BY <1>1, <1>2, <1>3, <1>4, <1>5 DEF SeqlockInv

\* The seqlock invariant is inductive.
LEMMA SeqlockStep == SeqlockInv /\ [Next]_vars => SeqlockInv'
<1> SUFFICES ASSUME SeqlockInv, [Next]_vars
             PROVE  SeqlockInv'
  OBVIOUS
<1>0. /\ TypeOK /\ SeqOrder /\ OddIsWhole /\ WriteProgress
      /\ ReadsInProgress /\ NoTornDelivery
  BY DEF SeqlockInv
<1>1. TypeOK'
  BY <1>0, TypeStep
<1>2. ASSUME UNCHANGED slotSide, UNCHANGED readSide,
             UNCHANGED <<wpc, wk>> \/ (wpc \notin Writing /\ wpc' \notin Writing)
      PROVE  SeqOrder' /\ OddIsWhole' /\ WriteProgress' /\ ReadsInProgress' /\ NoTornDelivery'
  <2>1. SeqOrder' /\ OddIsWhole' /\ WriteProgress'
    BY <1>0, <1>2, SlotsFrame
  <2>2. UNCHANGED seq
    BY <1>2 DEF slotSide
  <2>3. ReadsInProgress' /\ NoTornDelivery'
    BY <1>0, <1>2, <2>2, ReadsFrame
  <2> QED BY <2>1, <2>3
<1>3. CASE Idling
  BY <1>1, <1>2, <1>3, IdlingFrame DEF SeqlockInv
<1>4. CASE Invalidate \/ StoreWord \/ StoreBlob \/ Publish \/ Advance
  BY <1>1, <1>4, WriteStep DEF SeqlockInv
<1>5. ASSUME NEW s \in Subs, Caller(s) PROVE SeqlockInv'
  BY <1>1, <1>2, <1>5, CallerFrame DEF SeqlockInv
<1>6. ASSUME NEW s \in Subs, Reader(s) PROVE SeqlockInv'
  BY <1>1, <1>6, ReaderStep DEF SeqlockInv
<1>7. CASE UNCHANGED vars
  <2>1. UNCHANGED slotSide /\ UNCHANGED readSide /\ UNCHANGED <<wpc, wk>>
    BY <1>7 DEF vars, slotVars, readVars, writerVars, slotSide, readSide
  <2> QED BY <1>1, <1>2, <2>1 DEF SeqlockInv
<1> QED BY <1>3, <1>4, <1>5, <1>6, <1>7 DEF Next, Writer, Idling

\* No subscriber is ever handed a record with words or a blob of another:
\* Ring.Write's stores and Ring.read's loads may interleave in any way, for
\* any capacity, any record size, any stream and any number of subscribers.
THEOREM NoTorn == Spec => []NoTornDelivery
<1>1. SeqlockInv => NoTornDelivery
  BY DEF SeqlockInv
<1> QED BY SeqlockInit, SeqlockStep, <1>1, PTL DEF Spec

-----------------------------------------------------------------------------
(***************************************************************************)
(* No registered Block subscriber is ever lapped.  The writer is at most   *)
(* one ring ahead of whoever is on the barrier, and an index shares its    *)
(* slot only with indexes whole laps away, so the slot such a subscriber   *)
(* wants cannot have moved past the index it wants.                        *)
(***************************************************************************)

-----------------------------------------------------------------------------
(***************************************************************************)
(* Arithmetic of slots: two indexes share a slot when they are whole laps  *)
(* apart.                                                                  *)
(***************************************************************************)

\* One lap on, an index is back at its slot.
LEMMA OneLapOn ==
  ASSUME NEW n \in Nat
  PROVE  Slot(n + Capacity) = Slot(n)
<1> DEFINE m == n + Capacity
           a == n \div Capacity
           b == m \div Capacity
           p == Capacity * a
           q == Capacity * b
<1>1. /\ a \in Int /\ b \in Int /\ m \in Nat /\ p \in Int /\ q \in Int
      /\ n = p + Slot(n) /\ Slot(n) \in 0 .. (Capacity - 1)
  BY CapacityAssumption DEF Slot
<1>2. m = q + Slot(m) /\ Slot(m) \in 0 .. (Capacity - 1)
  BY <1>1, CapacityAssumption DEF Slot
<1>3. CASE a + 1 = b
  <2>1. q = p + Capacity
    BY <1>1, <1>3, CapacityAssumption
  <2> HIDE DEF p, q
  <2> QED BY <1>1, <1>2, <2>1, CapacityAssumption
<1>4. CASE b <= a
  <2>1. q <= p
    BY <1>1, <1>4, CapacityAssumption
  <2> HIDE DEF p, q
  <2> QED BY <1>1, <1>2, <2>1, CapacityAssumption
<1>5. CASE a + 2 <= b
  <2>1. Capacity * (a + 2) <= q
    BY <1>1, <1>5, CapacityAssumption
  <2>2. Capacity * (a + 2) = p + 2 * Capacity
    BY <1>1, CapacityAssumption
  <2> HIDE DEF p, q
  <2> QED BY <1>1, <1>2, <2>1, <2>2, CapacityAssumption
<1> QED BY <1>1, <1>3, <1>4, <1>5

-----------------------------------------------------------------------------
(***************************************************************************)
(* What the slots hold.                                                    *)
(***************************************************************************)

\* A slot holds only indexes of its own residue.
InItsSlot == \A i \in Slots : seq[i] # 0 => Slot(seq[i] \div 2) = i

\* No slot is behind: an index once written is there, or a later one.
Recent == \A n \in 0 .. (writeSeq - 1) : seq[Slot(n)] >= 2 * n + 1

\* Where Write is past its barrier.
PastBarrier == {"invalidate", "words", "blob", "publish", "advance"}

\* The barrier's work: the writer is at most one ring ahead of a registered
\* subscriber, and less than that once it is past the barrier.
KeptUp ==
  \A s \in blocking :
    /\ cursor[s] + Capacity >= writeSeq
    /\ wpc \in PastBarrier => cursor[s] + Capacity > writeSeq

\* Only Block subscribers register, and a mode is fixed by then.
Registered ==
  /\ ~started => wpc = "idle"
  /\ \A s \in blocking : joiner[s] # "none" /\ mode[s] = Block

BarrierInv == SeqlockInv /\ InItsSlot /\ Recent /\ KeptUp /\ Registered

\* The barrier invariant holds of a new ring.
LEMMA BarrierInit == Init => BarrierInv
<1> SUFFICES ASSUME Init PROVE BarrierInv
  OBVIOUS
<1>1. SeqlockInv
  BY SeqlockInit
<1>2. InItsSlot /\ Recent
  BY SlotType DEF Init, InItsSlot, Recent
<1>3. KeptUp /\ Registered
  BY DEF Init, KeptUp, Registered
<1> QED BY <1>1, <1>2, <1>3 DEF BarrierInv

\* Who stores into seq, and who moves writeSeq.
LEMMA SlotsMove ==
  ASSUME [Next]_vars
  PROVE  Invalidate \/ Publish \/ Advance \/ UNCHANGED <<seq, writeSeq>>
<1>1. CASE Idling
  BY <1>1, IdlingFrame DEF slotSide
<1>2. CASE StoreWord \/ StoreBlob
  BY <1>2 DEF StoreWord, StoreBlob
<1>3. ASSUME NEW s \in Subs, Caller(s) \/ Reader(s)
      PROVE  UNCHANGED <<seq, writeSeq>>
  BY <1>3, CallerFrame, ReaderFrame DEF slotSide
<1>4. CASE UNCHANGED vars
  BY <1>4 DEF vars, slotVars
<1> QED BY <1>1, <1>2, <1>3, <1>4 DEF Next, Writer, Idling

\* A store for the index n at its slot keeps every slot in its residue class
\* and none behind.
LEMMA SeqStored ==
  ASSUME SeqlockInv, InItsSlot, Recent, UNCHANGED writeSeq,
         NEW v \in Nat, v \div 2 = writeSeq, v >= 2 * writeSeq,
         seq' = [seq EXCEPT ![Here] = v]
  PROVE  InItsSlot' /\ Recent'
<1>1. writeSeq \in Nat /\ seq \in [Slots -> Nat] /\ Here \in Slots
  BY SlotType DEF SeqlockInv, TypeOK, RingTypes, Here
<1>2. InItsSlot'
  <2> SUFFICES ASSUME NEW i \in Slots, seq'[i] # 0 PROVE Slot(seq'[i] \div 2) = i
    BY DEF InItsSlot
  <2>1. CASE i = Here
    BY <1>1, <2>1 DEF Here
  <2>2. CASE i # Here
    BY <1>1, <2>2 DEF InItsSlot
  <2> QED BY <2>1, <2>2
<1>3. Recent'
  <2> SUFFICES ASSUME NEW n \in 0 .. (writeSeq - 1) PROVE seq'[Slot(n)] >= 2 * n + 1
    BY DEF Recent
  <2>0. Slot(n) \in Slots /\ n \in Nat
    BY <1>1, SlotType
  <2>1. CASE Slot(n) = Here
    <3>1. seq'[Slot(n)] = v
      BY <1>1, <2>1
    <3> QED BY <1>1, <2>0, <3>1
  <2>2. CASE Slot(n) # Here
    <3>1. seq'[Slot(n)] = seq[Slot(n)]
      BY <1>1, <2>0, <2>2
    <3> QED BY <3>1 DEF Recent
  <2> QED BY <2>1, <2>2
<1> QED BY <1>2, <1>3

\* InItsSlot and Recent are kept by every step.
LEMMA SlotsStep ==
  ASSUME SeqlockInv, InItsSlot, Recent, [Next]_vars
  PROVE  InItsSlot' /\ Recent'
<1>0. writeSeq \in Nat /\ seq \in [Slots -> Nat] /\ Here \in Slots /\ SeqOrder
  BY SlotType DEF SeqlockInv, TypeOK, RingTypes, Here
<1>1. CASE Invalidate
  <2>1. /\ 2 * writeSeq \in Nat /\ (2 * writeSeq) \div 2 = writeSeq
        /\ 2 * writeSeq >= 2 * writeSeq
    BY <1>0
  <2>2. seq' = [seq EXCEPT ![Here] = 2 * writeSeq] /\ UNCHANGED writeSeq
    BY <1>1 DEF Invalidate, Here
  <2> QED BY <2>1, <2>2, SeqStored
<1>2. CASE Publish
  <2>1. /\ 2 * writeSeq + 1 \in Nat /\ (2 * writeSeq + 1) \div 2 = writeSeq
        /\ 2 * writeSeq + 1 >= 2 * writeSeq
    BY <1>0
  <2>2. seq' = [seq EXCEPT ![Here] = 2 * writeSeq + 1] /\ UNCHANGED writeSeq
    BY <1>2 DEF Publish, Here
  <2> QED BY <2>1, <2>2, SeqStored
<1>3. CASE Advance
  <2>1. UNCHANGED seq /\ writeSeq' = writeSeq + 1 /\ seq[Here] = 2 * writeSeq + 1
    BY <1>0, <1>3 DEF Advance, SeqOrder, slotVars
  <2>2. InItsSlot'
    BY <2>1 DEF InItsSlot
  <2>3. Recent'
    <3> SUFFICES ASSUME NEW n \in 0 .. writeSeq PROVE seq[Slot(n)] >= 2 * n + 1
      BY <1>0, <2>1 DEF Recent
    <3>1. CASE n = writeSeq
      BY <1>0, <2>1, <3>1 DEF Here
    <3>2. CASE n # writeSeq
      <4>1. n \in 0 .. (writeSeq - 1)
        BY <1>0, <3>2
      <4> QED BY <4>1 DEF Recent
    <3> QED BY <3>1, <3>2
  <2> QED BY <2>2, <2>3
<1>4. CASE UNCHANGED <<seq, writeSeq>>
  BY <1>4 DEF InItsSlot, Recent
<1> QED BY <1>1, <1>2, <1>3, <1>4, SlotsMove

-----------------------------------------------------------------------------
(***************************************************************************)
(* The barrier.                                                            *)
(***************************************************************************)

\* What subscribeNow accepts for a Block subscriber is at most one ring back.
LEMMA JoinedIsHeld ==
  ASSUME TypeOK, NEW s \in Subs, NEW st \in StartAt, NEW m \in {Block, Drop},
         SubscribeNow(s, m, st)
  PROVE  /\ blocking' \subseteq blocking \cup {s}
         /\ m = Drop => blocking' = blocking
         /\ \A u \in Subs : u # s => cursor'[u] = cursor[u] /\ joiner'[u] = joiner[u]
         /\ joiner'[s] \in {"joined", "refused"}
         /\ joiner'[s] = "refused" => UNCHANGED <<cursor, blocking>>
         /\ \/ UNCHANGED <<cursor, blocking>>
            \/ m = Block => cursor'[s] + Capacity >= writeSeq
<1>0. /\ cursor \in [Subs -> Nat] /\ writeSeq \in Nat /\ ResolveStart(st) \in Nat
      /\ joiner \in [Subs -> {"none", "queued", "joined", "refused"}]
  BY ResolveType DEF TypeOK, RingTypes, SubscriberTypes
<1> DEFINE c == ResolveStart(st)
<1> HIDE DEF c
<1>1. CASE m = Block /\ st.kind # "live" /\ c < OldestIndex
  BY <1>0, <1>1 DEF SubscribeNow, c, Block, Drop
<1>2. CASE ~(m = Block /\ st.kind # "live" /\ c < OldestIndex)
  <2>1. /\ joiner' = [joiner EXCEPT ![s] = "joined"]
        /\ cursor' = [cursor EXCEPT ![s] = c]
        /\ blocking' = IF m = Block THEN blocking \cup {s} ELSE blocking
    BY <1>2 DEF SubscribeNow, c
  <2>2. m = Block => c + Capacity >= writeSeq
    <3>1. st.kind = "live" => c = writeSeq
      BY DEF ResolveStart, c
    <3>2. CASE st.kind = "live"
      BY <1>0, <3>1, <3>2, CapacityAssumption
    <3>3. CASE st.kind # "live" /\ m = Block
      <4>1. c \in Nat /\ ~(c < OldestIndex)
        BY <1>0, <1>2, <3>3 DEF c
      <4>2. OldestIndex \in Int /\ OldestIndex + Capacity >= writeSeq
        BY <1>0, CapacityAssumption DEF OldestIndex
      <4> QED BY <1>0, <4>1, <4>2, CapacityAssumption
    <3> QED BY <3>2, <3>3
  <2>3. cursor'[s] = c /\ joiner'[s] = "joined"
    BY <1>0, <2>1
  <2>4. \A u \in Subs : u # s => cursor'[u] = cursor[u] /\ joiner'[u] = joiner[u]
    BY <1>0, <2>1
  <2> QED BY <2>1, <2>2, <2>3, <2>4 DEF Block, Drop
<1> QED BY <1>1, <1>2

\* A step that registers nobody, moves no cursor and passes no barrier.
LEMMA KeptFrame ==
  ASSUME KeptUp, Registered,
         blocking' \subseteq blocking, UNCHANGED <<cursor, writeSeq, mode>>,
         \A s \in blocking : joiner'[s] = joiner[s] \/ joiner'[s] # "none",
         wpc' \in PastBarrier => wpc \in PastBarrier,
         ~started' => wpc' = "idle"
  PROVE  KeptUp' /\ Registered'
BY DEF KeptUp, Registered

\* subscribeNow registers nobody the writer is too far ahead of.
LEMMA KeptByJoin ==
  ASSUME TypeOK, KeptUp, Registered,
         NEW s \in Subs, NEW m \in {Block, Drop}, NEW st \in StartAt,
         SubscribeNow(s, m, st), UNCHANGED writeSeq,
         m = Drop => s \notin blocking,
         \A u \in Subs \ {s} : mode'[u] = mode[u], mode'[s] = m,
         wpc' \notin PastBarrier, ~started' => wpc' = "idle"
  PROVE  KeptUp' /\ Registered'
<1>1. blocking \subseteq Subs /\ blocking' \subseteq Subs
  BY SubscribeNowType DEF TypeOK, RingTypes
<1>2. ASSUME NEW u \in blocking', u # s
      PROVE  /\ cursor'[u] + Capacity >= writeSeq'
             /\ joiner'[u] # "none" /\ mode'[u] = Block
  <2>1. u \in blocking /\ cursor'[u] = cursor[u] /\ joiner'[u] = joiner[u]
    BY <1>1, <1>2, JoinedIsHeld
  <2> QED BY <1>1, <1>2, <2>1 DEF KeptUp, Registered
<1>3. ASSUME s \in blocking'
      PROVE  /\ cursor'[s] + Capacity >= writeSeq'
             /\ joiner'[s] # "none" /\ mode'[s] = Block
  <2>1. m = Block
    BY <1>3, JoinedIsHeld
  <2>2. joiner'[s] # "none"
    BY JoinedIsHeld
  <2>3. CASE UNCHANGED <<cursor, blocking>>
    BY <1>3, <2>1, <2>2, <2>3 DEF KeptUp
  <2>4. CASE m = Block => cursor'[s] + Capacity >= writeSeq
    BY <2>1, <2>2, <2>4
  <2> QED BY <2>3, <2>4, JoinedIsHeld
<1> QED BY <1>2, <1>3 DEF KeptUp, Registered

\* No step of the emit goroutine breaks KeptUp or Registered.
LEMMA KeptByWriter ==
  ASSUME BarrierInv, Writer
  PROVE  KeptUp' /\ Registered'
<1> USE DEF slotVars, writerVars, ctrlVars, callerVars, stopVars, PastBarrier
<1>0. /\ KeptUp /\ Registered /\ TypeOK
      /\ writeSeq \in Nat /\ cursor \in [Subs -> Nat] /\ blocking \subseteq Subs
      /\ mode \in [Subs -> {Block, Drop}] /\ start \in [Subs -> StartAt]
  BY DEF BarrierInv, SeqlockInv, TypeOK, RingTypes, SubscriberTypes
<1>1. CASE StartEmitting \/ TakePending
  BY <1>0, <1>1, KeptFrame DEF StartEmitting, TakePending, AfterControl, Registered
<1>2. CASE ApplyRequest
  <2>1. /\ batch \in Seq(Requests) /\ batch # <<>> /\ wpc \in {"apply", "heldApply"}
        /\ wpc' \notin PastBarrier /\ started
        /\ UNCHANGED <<writeSeq, mode, started>>
    BY <1>0, <1>2 DEF ApplyRequest, AfterControl, TypeOK, WriterTypes, Registered
  <2>2. Head(batch) \in Requests
    BY <2>1
  <2> DEFINE s == Head(batch)[2]
  <2>3. s \in Subs
    BY <2>2 DEF Requests
  <2>4. CASE SubscribeNow(s, mode[s], start[s])
    <3>1. mode[s] \in {Block, Drop} /\ start[s] \in StartAt
      BY <1>0, <2>3
    <3>2. mode[s] = Drop => s \notin blocking
      BY <1>0 DEF Registered, Block, Drop
    <3> HIDE DEF s
    <3> QED BY <1>0, <2>1, <2>3, <2>4, <3>1, <3>2, KeptByJoin
  <2>5. CASE UnsubscribeNow(s) /\ UNCHANGED <<joiner, cursor>>
    <3>1. blocking' \subseteq blocking
      BY <2>5 DEF UnsubscribeNow
    <3> QED BY <1>0, <2>1, <2>5, <3>1, KeptFrame
  <2> QED BY <1>2, <2>4, <2>5 DEF ApplyRequest
<1>3. CASE NextRecord \/ NextEnds \/ RunFails \/ DriverEnds
  BY <1>0, <1>3, KeptFrame DEF NextRecord, NextEnds, RunFails, DriverEnds, Registered
<1>4. CASE StoreEnd \/ CloseControl
  BY <1>0, <1>4, KeptFrame DEF StoreEnd, CloseControl, Registered
<1>5. CASE FailRequest
  <2>1. /\ batch \in Seq(Requests) /\ batch # <<>>
        /\ wpc' \notin PastBarrier /\ started'
        /\ UNCHANGED <<blocking, cursor, writeSeq, mode>>
        /\ joiner' = [joiner EXCEPT ![Head(batch)[2]] = "refused"] \/ UNCHANGED joiner
    BY <1>0, <1>5 DEF FailRequest, TypeOK, WriterTypes, Registered
  <2>2. \A s \in blocking : joiner'[s] = joiner[s] \/ joiner'[s] = "refused"
    BY <1>0, <2>1 DEF TypeOK, SubscriberTypes
  <2> QED BY <1>0, <2>1, <2>2, KeptFrame
<1>6. CASE BarrierPasses
  <2>1. /\ UNCHANGED <<blocking, cursor, writeSeq, mode, joiner, started>>
        /\ wpc = "barrier" /\ wpc' = "invalidate" /\ Holders(writeSeq) = {}
    BY <1>6 DEF BarrierPasses
  <2>2. ASSUME NEW s \in blocking
        PROVE  cursor[s] + Capacity > writeSeq
    <3>1. ~(writeSeq >= Capacity /\ cursor[s] <= writeSeq - Capacity)
      BY <2>1 DEF Holders
    <3>2. cursor[s] \in Nat
      BY <1>0
    <3> QED BY <1>0, <3>1, <3>2, CapacityAssumption
  <2>3. KeptUp'
    BY <1>0, <2>1, <2>2 DEF KeptUp
  <2> QED BY <1>0, <2>1, <2>3 DEF Registered
<1>7. CASE BarrierHolds \/ WatchQuiet \/ WatchExpires
  BY <1>0, <1>7, KeptFrame DEF BarrierHolds, WatchQuiet, WatchExpires, Registered
<1>8. CASE Evict
  BY <1>0, <1>8, KeptFrame DEF Evict, Registered
<1>9. CASE Invalidate \/ StoreWord \/ StoreBlob \/ Publish
  BY <1>0, <1>9, KeptFrame DEF Invalidate, StoreWord, StoreBlob, Publish, Registered
<1>10. CASE Advance
  <2>1. /\ UNCHANGED <<blocking, cursor, mode, joiner, started>>
        /\ wpc = "advance" /\ wpc' = "loop" /\ writeSeq' = writeSeq + 1
    BY <1>10 DEF Advance
  <2>2. ASSUME NEW s \in blocking
        PROVE  cursor[s] + Capacity >= writeSeq + 1
    <3>1. cursor[s] + Capacity > writeSeq /\ cursor[s] \in Nat
      BY <1>0, <2>1 DEF KeptUp
    <3> QED BY <1>0, <3>1, CapacityAssumption
  <2>3. KeptUp'
    BY <2>1, <2>2 DEF KeptUp
  <2> QED BY <1>0, <2>1, <2>3 DEF Registered
<1> QED BY <1>1, <1>2, <1>3, <1>4, <1>5, <1>6, <1>7, <1>8, <1>9, <1>10 DEF Writer

\* A record that is still held is at most one ring back.
LEMMA HeldIsRecent ==
  ASSUME TypeOK, Recent, NEW n \in Nat, Holds(n)
  PROVE  n + Capacity >= writeSeq
<1>0. writeSeq \in Nat /\ n + Capacity \in Nat
  BY CapacityAssumption DEF TypeOK, RingTypes
<1> SUFFICES ASSUME n + Capacity < writeSeq PROVE FALSE
  BY <1>0, CapacityAssumption
<1>1. n + Capacity \in 0 .. (writeSeq - 1)
  BY <1>0
<1>2. seq[Slot(n)] >= 2 * (n + Capacity) + 1
  BY <1>1, OneLapOn DEF Recent
<1> QED BY <1>2, CapacityAssumption DEF Holds

\* No step of a caller breaks KeptUp or Registered.
LEMMA KeptByCaller ==
  ASSUME BarrierInv, NEW s \in Subs, Caller(s)
  PROVE  KeptUp' /\ Registered'
<1> USE DEF slotVars, writerVars, ctrlVars, callerVars, stopVars, PastBarrier
<1>0. /\ KeptUp /\ Registered /\ TypeOK /\ blocking \subseteq Subs
      /\ mode \in [Subs -> {Block, Drop}]
      /\ joiner \in [Subs -> {"none", "queued", "joined", "refused"}]
  BY DEF BarrierInv, SeqlockInv, TypeOK, RingTypes, SubscriberTypes
<1>1. ASSUME NEW m \in Modes, NEW st \in Starts, Subscribe(s, m, st)
      PROVE  KeptUp' /\ Registered'
  <2>0. m \in {Block, Drop} /\ st \in StartAt
    BY RequestAssumption
  <2>1. /\ mode' = [mode EXCEPT ![s] = m] /\ joiner[s] = "none"
        /\ UNCHANGED <<writeSeq, started, wpc>>
    BY <1>1 DEF Subscribe
  <2>2. s \notin blocking
    BY <1>0, <2>1 DEF Registered
  <2>3. mode'[s] = m /\ \A u \in Subs \ {s} : mode'[u] = mode[u]
    BY <1>0, <2>1
  <2>4. CASE ~started /\ SubscribeNow(s, m, st)
    <3>1. wpc' = "idle"
      BY <1>0, <2>1, <2>4 DEF Registered
    <3> QED BY <1>0, <2>0, <2>1, <2>2, <2>3, <2>4, <3>1, KeptByJoin
  <2>5. CASE /\ UNCHANGED <<cursor, blocking>>
             /\ \E v : joiner' = [joiner EXCEPT ![s] = v]
    <3>1. \A u \in blocking : joiner'[u] = joiner[u] /\ mode'[u] = mode[u]
      BY <1>0, <2>2, <2>3, <2>5
    <3> QED BY <1>0, <2>1, <2>5, <3>1 DEF KeptUp, Registered
  <2> QED BY <1>1, <2>4, <2>5 DEF Subscribe
<1>2. CASE Unsubscribe(s)
  <2>1. /\ blocking' \subseteq blocking
        /\ UNCHANGED <<cursor, writeSeq, mode, joiner, wpc, started>>
    BY <1>2 DEF Unsubscribe, UnsubscribeNow
  <2> QED BY <1>0, <2>1, KeptFrame DEF Registered
<1>3. CASE UnsubscribeCancel(s) \/ Cancel(s)
  BY <1>0, <1>3, KeptFrame DEF UnsubscribeCancel, Cancel, Registered
<1> QED BY <1>1, <1>2, <1>3 DEF Caller

\* A cursor that a read moves only moves on.
LEMMA KeptByReader ==
  ASSUME BarrierInv, NEW s \in Subs, Reader(s)
  PROVE  KeptUp' /\ Registered'
<1>0. /\ KeptUp /\ Registered /\ TypeOK /\ Recent /\ blocking \subseteq Subs
      /\ writeSeq \in Nat /\ cursor \in [Subs -> Nat] /\ target[s] \in Nat
  BY DEF BarrierInv, SeqlockInv, TypeOK, RingTypes, SubscriberTypes, ReaderTypes
<1>1. UNCHANGED <<writeSeq, blocking, wpc, started, joiner, mode>>
  <2> USE DEF readerFrame, writerVars, ctrlVars, callerVars
  <2>1. CASE TestEvicted(s) \/ TestCanceled(s) \/ LoadSeq(s) \/ CopyWord(s)
    BY <2>1 DEF TestEvicted, TestCanceled, LoadSeq, CopyWord
  <2>2. CASE CopyBlob(s) \/ GiveUp(s) \/ Reload(s) \/ TestEnd(s)
    BY <2>2 DEF CopyBlob, GiveUp, Reload, TestEnd
  <2> QED BY <2>1, <2>2 DEF Reader
<1>2. CASE UNCHANGED cursor
  BY <1>0, <1>1, <1>2, KeptFrame DEF Registered
<1>3. CASE cursor' = [cursor EXCEPT ![s] = target[s] + 1] /\ Holds(target[s])
  <2>1. target[s] + Capacity >= writeSeq
    BY <1>0, <1>3, HeldIsRecent
  <2>2. target[s] + 1 + Capacity > writeSeq
    BY <1>0, <2>1, CapacityAssumption
  <2>3. ASSUME NEW u \in blocking
        PROVE  /\ cursor'[u] + Capacity >= writeSeq
               /\ wpc \in PastBarrier => cursor'[u] + Capacity > writeSeq
    <3>1. CASE u = s
      <4>1. cursor'[u] = target[s] + 1
        BY <1>0, <1>3, <3>1
      <4> QED BY <1>0, <2>2, <4>1, CapacityAssumption
    <3>2. CASE u # s
      BY <1>0, <1>3, <3>2 DEF KeptUp
    <3> QED BY <3>1, <3>2
  <2>4. KeptUp'
    BY <1>1, <2>3 DEF KeptUp
  <2> QED BY <1>0, <1>1, <2>4 DEF Registered
<1>4. UNCHANGED cursor \/ (cursor' = [cursor EXCEPT ![s] = target[s] + 1] /\ Holds(target[s]))
  <2>1. CASE TestEvicted(s) \/ TestCanceled(s) \/ LoadSeq(s) \/ CopyWord(s)
    BY <2>1 DEF TestEvicted, TestCanceled, LoadSeq, CopyWord
  <2>2. CASE CopyBlob(s) \/ GiveUp(s) \/ TestEnd(s)
    BY <2>2 DEF CopyBlob, GiveUp, TestEnd
  <2>3. CASE Reload(s)
    BY <2>3 DEF Reload, Holds
  <2> QED BY <2>1, <2>2, <2>3 DEF Reader
<1> QED BY <1>2, <1>3, <1>4

\* The barrier invariant is inductive.
LEMMA BarrierStep == BarrierInv /\ [Next]_vars => BarrierInv'
<1> SUFFICES ASSUME BarrierInv, [Next]_vars
             PROVE  BarrierInv'
  OBVIOUS
<1>1. SeqlockInv'
  BY SeqlockStep DEF BarrierInv
<1>2. InItsSlot' /\ Recent'
  BY SlotsStep DEF BarrierInv
<1>3. KeptUp' /\ Registered'
  <2>1. CASE UNCHANGED vars
    BY <2>1, KeptFrame DEF BarrierInv, Registered, vars, writerVars, ctrlVars, callerVars
  <2> QED BY <2>1, KeptByWriter, KeptByCaller, KeptByReader DEF Next
<1> QED BY <1>1, <1>2, <1>3 DEF BarrierInv

\* Where a slot has moved past an index it is a whole lap past it.
LEMMA PastIsALap ==
  ASSUME SeqlockInv, InItsSlot, NEW c \in Nat, seq[Slot(c)] > 2 * c + 1
  PROVE  /\ c + Capacity <= writeSeq
         /\ wpc \notin PastBarrier => c + Capacity < writeSeq
<1> DEFINE i == Slot(c)
           n == seq[i] \div 2
<1>0. /\ writeSeq \in Nat /\ seq \in [Slots -> Nat] /\ i \in Slots /\ SeqOrder
  BY SlotType DEF SeqlockInv, TypeOK, RingTypes
<1>1. seq[i] \in Nat /\ n \in Nat /\ c < n /\ seq[i] # 0
  BY <1>0
<1>2. Slot(n) = Slot(c)
  BY <1>0, <1>1 DEF InItsSlot
<1> HIDE DEF i
<1>3. n < writeSeq \/ (n <= writeSeq /\ wpc \in PastBarrier)
  <2>1. \/ seq[i] < 2 * writeSeq
        \/ wpc \in PastBarrier /\ (seq[i] = 2 * writeSeq \/ seq[i] = 2 * writeSeq + 1)
    BY <1>0, <1>1 DEF SeqOrder, PastBarrier, WriterTypes, SeqlockInv, TypeOK
  <2> QED BY <1>0, <1>1, <2>1
<1> HIDE DEF n
<1>4. c + Capacity <= n
  BY <1>1, <1>2, SameSlot
<1> QED BY <1>0, <1>1, <1>3, <1>4, CapacityAssumption

\* The barrier invariant rules lapping out.
LEMMA BarrierKeeps == BarrierInv => BlockNeverLapped
<1> SUFFICES ASSUME BarrierInv, NEW s \in blocking
             PROVE  seq[Slot(cursor[s])] <= 2 * cursor[s] + 1
  BY DEF BlockNeverLapped
<1>0. /\ SeqlockInv /\ InItsSlot /\ KeptUp /\ writeSeq \in Nat /\ cursor[s] \in Nat
      /\ seq[Slot(cursor[s])] \in Nat
  BY SlotType DEF BarrierInv, SeqlockInv, TypeOK, RingTypes, SubscriberTypes
<1> SUFFICES ASSUME seq[Slot(cursor[s])] > 2 * cursor[s] + 1
             PROVE  FALSE
  BY <1>0
<1>1. /\ cursor[s] + Capacity <= writeSeq
      /\ wpc \notin PastBarrier => cursor[s] + Capacity < writeSeq
  BY <1>0, PastIsALap
<1>2. /\ cursor[s] + Capacity >= writeSeq
      /\ wpc \in PastBarrier => cursor[s] + Capacity > writeSeq
  BY <1>0 DEF KeptUp
<1> QED BY <1>0, <1>1, <1>2, CapacityAssumption

\* The slot a registered Block subscriber wants never moves past it,
\* wherever between records it joined and however the others come and go
\* (subscribeNow, waitForBlockBarrier), for any capacity and any subscribers.
THEOREM NeverLapped == Spec => []BlockNeverLapped
BY BarrierInit, BarrierStep, BarrierKeeps, PTL DEF Spec

-----------------------------------------------------------------------------
(***************************************************************************)
(* What subscribers are handed.  A join is applied once, to a subscriber   *)
(* that has not read yet, so a cursor only grows under a reader; a reader  *)
(* ahead of its cursor has found the slot of its cursor lapped, which the  *)
(* barrier rules out for a registered Block subscriber.                    *)
(***************************************************************************)

\* The subscriber each request of q is about waits for its join, or is in.
Answerable(q) ==
  \A k \in 1 .. Len(q) :
    /\ q[k][1] = "subscribe" => joiner[q[k][2]] = "queued"
    /\ q[k][1] = "unsubscribe" => joiner[q[k][2]] = "joined"

\* No join is queued twice.
JoinsOnce(q) ==
  \A k, l \in 1 .. Len(q) :
    (q[k][1] = "subscribe" /\ q[l][1] = "subscribe" /\ k # l) => q[k][2] # q[l][2]

\* No join is queued that the emit goroutine already took.
Apart ==
  \A k \in 1 .. Len(pending), l \in 1 .. Len(batch) :
    (pending[k][1] = "subscribe" /\ batch[l][1] = "subscribe") =>
      pending[k][2] # batch[l][2]

QueueInv ==
  /\ Answerable(pending) /\ Answerable(batch)
  /\ JoinsOnce(pending) /\ JoinsOnce(batch)
  /\ Apart

\* A subscriber that is not in has neither read nor registered nor left.
Untouched ==
  \A s \in Subs :
    joiner[s] # "joined" =>
      /\ rpc[s] = "evicted" /\ out[s] = NoDelivery /\ res[s] = "none"
      /\ s \notin blocking /\ leaver[s] = "none"

MemberInv == QueueInv /\ Untouched

-----------------------------------------------------------------------------
(***************************************************************************)
(* Requests and members.                                                   *)
(***************************************************************************)

\* A request is a kind and a subscriber.
LEMMA RequestParts ==
  ASSUME NEW q \in Seq(Requests), NEW k \in 1 .. Len(q)
  PROVE  q[k][1] \in {"subscribe", "unsubscribe"} /\ q[k][2] \in Subs
<1>1. q[k] \in Requests
  OBVIOUS
<1> QED BY <1>1 DEF Requests

\* The emit goroutine deals with the head of what it took.
LEMMA QueueServed ==
  ASSUME TypeOK, QueueInv, batch # <<>>, batch' = Tail(batch), UNCHANGED pending,
         \A u \in Subs : joiner'[u] = joiner[u] \/
                         (Head(batch)[1] = "subscribe" /\ u = Head(batch)[2])
  PROVE  QueueInv'
<1> DEFINE T == Tail(batch)
<1>0. batch \in Seq(Requests) /\ pending \in Seq(Requests)
  BY DEF TypeOK, WriterTypes
<1>1. /\ Len(batch) \in Nat /\ Len(batch) > 0 /\ Head(batch) = batch[1]
      /\ 1 \in 1 .. Len(batch) /\ T \in Seq(Requests) /\ Len(T) = Len(batch) - 1
  BY <1>0
<1>2. \A k \in 1 .. Len(T) : T[k] = batch[k + 1] /\ k + 1 \in 1 .. Len(batch) /\ k + 1 # 1
  BY <1>0, <1>1
<1> HIDE DEF T
<1>3. ASSUME NEW k \in 1 .. Len(T)
      PROVE  joiner'[T[k][2]] = joiner[T[k][2]]
  <2>1. T[k] = batch[k + 1] /\ k + 1 \in 1 .. Len(batch) /\ k + 1 # 1
    BY <1>2
  <2>2. T[k][1] \in {"subscribe", "unsubscribe"} /\ T[k][2] \in Subs
    BY <1>1, RequestParts
  <2>3. batch[1][1] = "subscribe" => T[k][2] # batch[1][2]
    BY <1>1, <2>1, <2>2 DEF QueueInv, Answerable, JoinsOnce
  <2> QED BY <1>1, <2>2, <2>3
<1>4. ASSUME NEW k \in 1 .. Len(pending)
      PROVE  joiner'[pending[k][2]] = joiner[pending[k][2]]
  <2>2. pending[k][1] \in {"subscribe", "unsubscribe"} /\ pending[k][2] \in Subs
    BY <1>0, RequestParts
  <2>3. batch[1][1] = "subscribe" => pending[k][2] # batch[1][2]
    BY <1>1, <2>2 DEF QueueInv, Answerable, Apart
  <2> QED BY <1>1, <2>2, <2>3
<1>5. batch' = T
  BY DEF T
<1>6. Answerable(pending)'
  BY <1>4 DEF QueueInv, Answerable
<1>7. Answerable(batch)'
  <2> SUFFICES ASSUME NEW k \in 1 .. Len(T)
               PROVE  /\ T[k][1] = "subscribe" => joiner'[T[k][2]] = "queued"
                      /\ T[k][1] = "unsubscribe" => joiner'[T[k][2]] = "joined"
    BY <1>5 DEF Answerable
  <2>1. T[k] = batch[k + 1] /\ k + 1 \in 1 .. Len(batch)
    BY <1>2
  <2> QED BY <1>3, <2>1 DEF QueueInv, Answerable
<1>8. JoinsOnce(pending)'
  BY DEF QueueInv, JoinsOnce
<1>9. JoinsOnce(batch)'
  <2> SUFFICES ASSUME NEW k \in 1 .. Len(T), NEW l \in 1 .. Len(T),
                      T[k][1] = "subscribe", T[l][1] = "subscribe", k # l
               PROVE  T[k][2] # T[l][2]
    BY <1>5 DEF JoinsOnce
  <2>1. /\ T[k] = batch[k + 1] /\ k + 1 \in 1 .. Len(batch)
        /\ T[l] = batch[l + 1] /\ l + 1 \in 1 .. Len(batch)
    BY <1>2
  <2>2. k + 1 # l + 1
    BY <1>1
  <2> QED BY <2>1, <2>2 DEF QueueInv, JoinsOnce
<1>10. Apart'
  BY <1>2, <1>5 DEF QueueInv, Apart
<1> QED BY <1>6, <1>7, <1>8, <1>9, <1>10 DEF QueueInv

\* A caller queues a request about a subscriber of the right kind.
LEMMA QueueGrows ==
  ASSUME TypeOK, QueueInv, NEW s \in Subs, NEW kind \in {"subscribe", "unsubscribe"},
         pending' = Append(pending, <<kind, s>>), UNCHANGED batch,
         \A u \in Subs \ {s} : joiner'[u] = joiner[u],
         kind = "subscribe" => joiner[s] = "none" /\ joiner'[s] = "queued",
         kind = "unsubscribe" => joiner[s] = "joined" /\ joiner'[s] = "joined"
  PROVE  QueueInv'
<1> DEFINE P == Append(pending, <<kind, s>>)
           e == Len(pending) + 1
<1>0. batch \in Seq(Requests) /\ pending \in Seq(Requests) /\ Len(pending) \in Nat
  BY DEF TypeOK, WriterTypes
<1>1. /\ Len(P) = e /\ P[e] = <<kind, s>>
      /\ \A k \in 1 .. Len(pending) : P[k] = pending[k]
      /\ \A k \in 1 .. Len(P) : k = e \/ k \in 1 .. Len(pending)
  BY <1>0
<1>2. pending' = P
  OBVIOUS
<1>3. P[e][1] = kind /\ P[e][2] = s
  BY <1>1
<1> HIDE DEF P, e
<1>4. \A k \in 1 .. Len(pending) : /\ pending[k][1] = "subscribe" => joiner[pending[k][2]] = "queued"
                                   /\ pending[k][1] = "unsubscribe" => joiner[pending[k][2]] = "joined"
                                   /\ pending[k][1] \in {"subscribe", "unsubscribe"}
                                   /\ pending[k][2] \in Subs
  BY <1>0, RequestParts DEF QueueInv, Answerable
<1>5. \A k \in 1 .. Len(batch) : /\ batch[k][1] = "subscribe" => joiner[batch[k][2]] = "queued"
                                 /\ batch[k][1] = "unsubscribe" => joiner[batch[k][2]] = "joined"
                                 /\ batch[k][1] \in {"subscribe", "unsubscribe"}
                                 /\ batch[k][2] \in Subs
  BY <1>0, RequestParts DEF QueueInv, Answerable
<1>6. Answerable(pending)'
  <2> SUFFICES ASSUME NEW k \in 1 .. Len(P)
               PROVE  /\ P[k][1] = "subscribe" => joiner'[P[k][2]] = "queued"
                      /\ P[k][1] = "unsubscribe" => joiner'[P[k][2]] = "joined"
    BY <1>2 DEF Answerable
  <2>1. CASE k = e
    BY <1>3, <2>1
  <2>2. CASE k \in 1 .. Len(pending)
    <3>1. pending[k][2] = s => kind = "unsubscribe" /\ joiner[s] = "joined"
      BY <1>4, <2>2
    <3> QED BY <1>1, <1>4, <2>2, <3>1
  <2> QED BY <1>1, <2>1, <2>2
<1>7. Answerable(batch)'
  <2> SUFFICES ASSUME NEW k \in 1 .. Len(batch)
               PROVE  /\ batch[k][1] = "subscribe" => joiner'[batch[k][2]] = "queued"
                      /\ batch[k][1] = "unsubscribe" => joiner'[batch[k][2]] = "joined"
    BY DEF Answerable
  <2>1. batch[k][2] = s => kind = "unsubscribe" /\ joiner[s] = "joined"
    BY <1>5
  <2> QED BY <1>5, <2>1
<1>8. JoinsOnce(pending)'
  <2> SUFFICES ASSUME NEW k \in 1 .. Len(P), NEW l \in 1 .. Len(P),
                      P[k][1] = "subscribe", P[l][1] = "subscribe", k # l
               PROVE  P[k][2] # P[l][2]
    BY <1>2 DEF JoinsOnce
  <2>1. CASE k \in 1 .. Len(pending) /\ l \in 1 .. Len(pending)
    BY <1>1, <2>1 DEF QueueInv, JoinsOnce
  <2>2. CASE k = e \/ l = e
    BY <1>1, <1>3, <1>4, <2>2
  <2> QED BY <1>1, <2>1, <2>2
<1>9. Apart'
  <2> SUFFICES ASSUME NEW k \in 1 .. Len(P), NEW l \in 1 .. Len(batch),
                      P[k][1] = "subscribe", batch[l][1] = "subscribe"
               PROVE  P[k][2] # batch[l][2]
    BY <1>2 DEF Apart
  <2>1. CASE k \in 1 .. Len(pending)
    BY <1>1, <2>1 DEF QueueInv, Apart
  <2>2. CASE k = e
    BY <1>3, <1>5, <2>2
  <2> QED BY <1>1, <2>1, <2>2
<1>10. JoinsOnce(batch)'
  BY DEF QueueInv, JoinsOnce
<1> QED BY <1>6, <1>7, <1>8, <1>9, <1>10 DEF QueueInv

\* A step that makes or breaks no membership.
LEMMA MemberFrame ==
  ASSUME MemberInv, UNCHANGED <<pending, batch, joiner, leaver, rpc, out, res>>,
         blocking' \subseteq blocking
  PROVE  MemberInv'
<1>1. QueueInv'
  BY DEF MemberInv, QueueInv, Answerable, JoinsOnce, Apart
<1>2. Untouched'
  BY DEF MemberInv, Untouched
<1> QED BY <1>1, <1>2 DEF MemberInv

\* The queue changes hands and is emptied.
LEMMA QueueTaken ==
  ASSUME MemberInv, batch' = pending, pending' = <<>>,
         UNCHANGED <<joiner, leaver, rpc, out, res, blocking>>
  PROVE  MemberInv'
<1>1. QueueInv'
  BY DEF MemberInv, QueueInv, Answerable, JoinsOnce, Apart
<1>2. Untouched'
  BY DEF MemberInv, Untouched
<1> QED BY <1>1, <1>2 DEF MemberInv

\* subscribeNow, for a subscriber that waits to get in.
LEMMA UntouchedByJoin ==
  ASSUME TypeOK, Untouched, NEW s \in Subs, NEW m \in {Block, Drop},
         NEW st \in StartAt, SubscribeNow(s, m, st), joiner[s] # "joined",
         UNCHANGED <<leaver, rpc, out, res>>
  PROVE  Untouched'
<1> SUFFICES ASSUME NEW u \in Subs, joiner'[u] # "joined"
             PROVE  /\ rpc'[u] = "evicted" /\ out'[u] = NoDelivery /\ res'[u] = "none"
                    /\ u \notin blocking' /\ leaver'[u] = "none"
  BY DEF Untouched
<1>1. CASE u = s
  <2>1. joiner'[s] = "refused" /\ UNCHANGED blocking
    BY <1>1, JoinedIsHeld
  <2> QED BY <1>1, <2>1 DEF Untouched
<1>2. CASE u # s
  <2>1. joiner'[u] = joiner[u] /\ blocking' \subseteq blocking \cup {s}
    BY <1>2, JoinedIsHeld
  <2> QED BY <1>2, <2>1 DEF Untouched
<1> QED BY <1>1, <1>2

\* Members and requests under the steps of the emit goroutine.
LEMMA MemberByWriter ==
  ASSUME TypeOK, MemberInv, Writer
  PROVE  MemberInv'
<1> USE DEF slotVars, ctrlVars, callerVars, readVars
<1>0. /\ QueueInv /\ Untouched
      /\ joiner \in [Subs -> {"none", "queued", "joined", "refused"}]
      /\ leaver \in [Subs -> {"none", "queued", "removed", "left"}]
      /\ mode \in [Subs -> {Block, Drop}] /\ start \in [Subs -> StartAt]
      /\ batch \in Seq(Requests)
  BY DEF MemberInv, TypeOK, WriterTypes, SubscriberTypes
<1>1. ASSUME batch # <<>>
      PROVE  /\ Head(batch)[1] \in {"subscribe", "unsubscribe"} /\ Head(batch)[2] \in Subs
             /\ Head(batch)[1] = "subscribe" => joiner[Head(batch)[2]] = "queued"
             /\ Head(batch)[1] = "unsubscribe" => joiner[Head(batch)[2]] = "joined"
  <2>1. Head(batch) = batch[1] /\ 1 \in 1 .. Len(batch)
    BY <1>0, <1>1
  <2> QED BY <1>0, <2>1, RequestParts DEF QueueInv, Answerable
<1>2. CASE TakePending \/ CloseControl
  BY <1>2, QueueTaken DEF TakePending, CloseControl
<1>3. CASE ApplyRequest
  <2> DEFINE s == Head(batch)[2]
  <2>1. /\ batch # <<>> /\ batch' = Tail(batch) /\ UNCHANGED <<pending, rpc, out, res>>
    BY <1>3 DEF ApplyRequest, TypeOK, WriterTypes
  <2>2. /\ s \in Subs /\ mode[s] \in {Block, Drop} /\ start[s] \in StartAt
    BY <1>0, <1>1, <2>1
  <2>3. CASE /\ Head(batch)[1] = "subscribe"
             /\ SubscribeNow(s, mode[s], start[s]) /\ UNCHANGED leaver
    <3>1. joiner[s] # "joined"
      BY <1>1, <2>1, <2>3
    <3>2. \A u \in Subs : u # s => joiner'[u] = joiner[u]
      BY <2>2, <2>3, JoinedIsHeld
    <3>3. Untouched'
      <4> HIDE DEF s
      <4> QED BY <1>0, <2>1, <2>2, <2>3, <3>1, UntouchedByJoin
    <3>4. QueueInv'
      BY <1>0, <2>1, <2>3, <3>2, QueueServed
    <3> QED BY <3>3, <3>4 DEF MemberInv
  <2>4. CASE /\ Head(batch)[1] = "unsubscribe" /\ UnsubscribeNow(s)
             /\ leaver' = [leaver EXCEPT ![s] = "removed"] /\ UNCHANGED <<joiner, cursor>>
    <3>1. joiner[s] = "joined"
      BY <1>1, <2>1, <2>4
    <3>2. \A u \in Subs : u # s => leaver'[u] = leaver[u]
      BY <1>0, <2>4
    <3>3. blocking' \subseteq blocking
      BY <2>4 DEF UnsubscribeNow
    <3>4. Untouched'
      BY <1>0, <2>1, <2>4, <3>1, <3>2, <3>3 DEF Untouched
    <3>5. QueueInv'
      BY <1>0, <2>1, <2>4, QueueServed
    <3> QED BY <3>4, <3>5 DEF MemberInv
  <2> QED BY <1>3, <2>3, <2>4 DEF ApplyRequest
<1>4. CASE FailRequest
  <2> DEFINE s == Head(batch)[2]
  <2>1. /\ batch # <<>> /\ batch' = Tail(batch)
        /\ UNCHANGED <<pending, rpc, out, res, blocking>>
    BY <1>4 DEF FailRequest, TypeOK, WriterTypes
  <2>2. s \in Subs
    BY <1>1, <2>1
  <2>3. CASE /\ Head(batch)[1] = "subscribe"
             /\ joiner' = [joiner EXCEPT ![s] = "refused"] /\ UNCHANGED leaver
    <3>1. joiner[s] # "joined" /\ \A u \in Subs : u # s => joiner'[u] = joiner[u]
      BY <1>0, <1>1, <2>1, <2>2, <2>3
    <3>2. Untouched'
      BY <1>0, <2>1, <2>2, <2>3, <3>1 DEF Untouched
    <3>3. QueueInv'
      BY <1>0, <2>1, <2>3, <3>1, QueueServed
    <3> QED BY <3>2, <3>3 DEF MemberInv
  <2>4. CASE /\ Head(batch)[1] # "subscribe"
             /\ leaver' = [leaver EXCEPT ![s] = "removed"] /\ UNCHANGED joiner
    <3>1. joiner[s] = "joined"
      BY <1>1, <2>1, <2>4
    <3>2. \A u \in Subs : u # s => leaver'[u] = leaver[u]
      BY <1>0, <2>4
    <3>3. Untouched'
      BY <1>0, <2>1, <2>4, <3>1, <3>2 DEF Untouched
    <3>4. QueueInv'
      BY <1>0, <2>1, <2>4, QueueServed
    <3> QED BY <3>3, <3>4 DEF MemberInv
  <2> QED BY <1>4, <2>3, <2>4 DEF FailRequest
<1>5. CASE StartEmitting \/ NextRecord \/ NextEnds \/ RunFails \/ DriverEnds \/ StoreEnd
  BY <1>5, MemberFrame DEF StartEmitting, NextRecord, NextEnds, RunFails, DriverEnds, StoreEnd
<1>6. CASE BarrierPasses \/ BarrierHolds \/ WatchQuiet \/ WatchExpires \/ Evict
  BY <1>6, MemberFrame DEF BarrierPasses, BarrierHolds, WatchQuiet, WatchExpires, Evict
<1>7. CASE Invalidate \/ StoreWord \/ StoreBlob \/ Publish \/ Advance
  BY <1>7, MemberFrame DEF Invalidate, StoreWord, StoreBlob, Publish, Advance
<1> QED BY <1>2, <1>3, <1>4, <1>5, <1>6, <1>7 DEF Writer

\* Members and requests under the steps of callers.
LEMMA MemberByCaller ==
  ASSUME TypeOK, MemberInv, NEW s \in Subs, Caller(s)
  PROVE  MemberInv'
<1> USE DEF writerVars, callerVars, ctrlVars, readVars
<1>0. /\ QueueInv /\ Untouched
      /\ joiner \in [Subs -> {"none", "queued", "joined", "refused"}]
      /\ leaver \in [Subs -> {"none", "queued", "removed", "left"}]
  BY DEF MemberInv, TypeOK, SubscriberTypes
<1>1. ASSUME NEW m \in Modes, NEW st \in Starts, Subscribe(s, m, st)
      PROVE  MemberInv'
  <2>1. m \in {Block, Drop} /\ st \in StartAt
    BY RequestAssumption
  <2>2. joiner[s] = "none" /\ UNCHANGED <<batch, leaver, rpc, out, res>>
    BY <1>1 DEF Subscribe
  <2>3. \A k \in 1 .. Len(pending) : pending[k][1] \in {"subscribe", "unsubscribe"} /\ pending[k][2] # s
    BY <1>0, <2>2, RequestParts DEF TypeOK, WriterTypes, QueueInv, Answerable
  <2>4. \A k \in 1 .. Len(batch) : batch[k][1] \in {"subscribe", "unsubscribe"} /\ batch[k][2] # s
    BY <1>0, <2>2, RequestParts DEF TypeOK, WriterTypes, QueueInv, Answerable
  <2>5. ASSUME UNCHANGED pending, \A u \in Subs : u # s => joiner'[u] = joiner[u]
        PROVE  QueueInv'
    <3>1. pending \in Seq(Requests) /\ batch \in Seq(Requests)
      BY DEF TypeOK, WriterTypes
    <3>2. Answerable(pending)'
      BY <1>0, <2>3, <2>5, <3>1, RequestParts DEF QueueInv, Answerable
    <3>3. Answerable(batch)'
      BY <1>0, <2>2, <2>4, <2>5, <3>1, RequestParts DEF QueueInv, Answerable
    <3>4. JoinsOnce(pending)' /\ JoinsOnce(batch)' /\ Apart'
      BY <1>0, <2>2, <2>5 DEF QueueInv, JoinsOnce, Apart
    <3> QED BY <3>2, <3>3, <3>4 DEF QueueInv
  <2>6. CASE /\ joiner' = [joiner EXCEPT ![s] = "refused"]
             /\ UNCHANGED <<pending, cursor, blocking>>
    <3>1. \A u \in Subs : u # s => joiner'[u] = joiner[u]
      BY <1>0, <2>6
    <3>2. Untouched'
      BY <1>0, <2>2, <2>6, <3>1 DEF Untouched
    <3> QED BY <2>5, <2>6, <3>1, <3>2 DEF MemberInv
  <2>7. CASE /\ pending' = Append(pending, <<"subscribe", s>>)
             /\ joiner' = [joiner EXCEPT ![s] = "queued"] /\ UNCHANGED <<cursor, blocking>>
    <3>1. joiner'[s] = "queued" /\ \A u \in Subs : u # s => joiner'[u] = joiner[u]
      BY <1>0, <2>7
    <3>2. Untouched'
      BY <1>0, <2>2, <2>7, <3>1 DEF Untouched
    <3>3. QueueInv'
      BY <1>0, <2>2, <2>7, <3>1, QueueGrows
    <3> QED BY <3>2, <3>3 DEF MemberInv
  <2>8. CASE SubscribeNow(s, m, st) /\ UNCHANGED pending
    <3>1. \A u \in Subs : u # s => joiner'[u] = joiner[u]
      BY <2>1, <2>8, JoinedIsHeld
    <3>2. Untouched'
      BY <1>0, <2>1, <2>2, <2>8, UntouchedByJoin
    <3> QED BY <2>5, <2>8, <3>1, <3>2 DEF MemberInv
  <2> QED BY <1>1, <2>6, <2>7, <2>8 DEF Subscribe
<1>2. CASE Unsubscribe(s)
  <2>1. /\ joiner[s] = "joined" /\ UNCHANGED <<batch, joiner, rpc, out, res>>
        /\ blocking' \subseteq blocking
        /\ pending' = pending \/ pending' = Append(pending, <<"unsubscribe", s>>)
        /\ \E v : leaver' = [leaver EXCEPT ![s] = v]
    BY <1>2 DEF Unsubscribe, UnsubscribeNow
  <2>2. \A u \in Subs : u # s => leaver'[u] = leaver[u]
    BY <1>0, <2>1
  <2>3. Untouched'
    BY <1>0, <2>1, <2>2 DEF Untouched
  <2>4. CASE pending' = pending
    <3>1. QueueInv'
      BY <1>0, <2>1, <2>4 DEF QueueInv, Answerable, JoinsOnce, Apart
    <3> QED BY <2>3, <3>1 DEF MemberInv
  <2>5. CASE pending' = Append(pending, <<"unsubscribe", s>>)
    <3>1. QueueInv'
      BY <1>0, <2>1, <2>5, QueueGrows
    <3> QED BY <2>3, <3>1 DEF MemberInv
  <2> QED BY <2>1, <2>4, <2>5
<1>3. CASE UnsubscribeCancel(s)
  <2>1. /\ UNCHANGED <<pending, batch, joiner, blocking, rpc, out, res>>
        /\ leaver[s] = "removed" /\ leaver' = [leaver EXCEPT ![s] = "left"]
    BY <1>3 DEF UnsubscribeCancel
  <2>2. joiner[s] = "joined" /\ \A u \in Subs : u # s => leaver'[u] = leaver[u]
    BY <1>0, <2>1 DEF Untouched
  <2>3. Untouched'
    BY <1>0, <2>1, <2>2 DEF Untouched
  <2>4. QueueInv'
    BY <1>0, <2>1 DEF QueueInv, Answerable, JoinsOnce, Apart
  <2> QED BY <2>3, <2>4 DEF MemberInv
<1>4. CASE Cancel(s)
  BY <1>4, MemberFrame DEF Cancel
<1> QED BY <1>1, <1>2, <1>3, <1>4 DEF Caller

\* Only a subscriber that is in calls Next, and Next changes only its own.
LEMMA ReaderIsMember ==
  ASSUME TypeOK, Untouched, NEW s \in Subs, Reader(s)
  PROVE  /\ joiner[s] = "joined"
         /\ UNCHANGED <<pending, batch, joiner, leaver, blocking, canceled, closed, endPlusOne>>
         /\ \A u \in Subs : u # s => res'[u] = res[u] /\ cursor'[u] = cursor[u]
<1> USE DEF readerFrame, writerVars, ctrlVars, callerVars, stopVars
<1>1. joiner[s] = "joined"
  BY DEF Untouched, Reader, TestEvicted, TestCanceled, LoadSeq, CopyWord, CopyBlob,
         GiveUp, Reload, TestEnd
<1>2. CASE TestEvicted(s) \/ TestCanceled(s) \/ TestEnd(s)
  BY <1>1, <1>2 DEF TestEvicted, TestCanceled, TestEnd, TypeOK, ReaderTypes
<1>3. CASE LoadSeq(s) \/ CopyWord(s) \/ CopyBlob(s) \/ GiveUp(s)
  BY <1>1, <1>3 DEF LoadSeq, CopyWord, CopyBlob, GiveUp
<1>4. CASE Reload(s)
  BY <1>1, <1>4 DEF Reload, TypeOK, ReaderTypes, SubscriberTypes
<1> QED BY <1>2, <1>3, <1>4 DEF Reader

\* Members and requests under the steps of Next.
LEMMA MemberByReader ==
  ASSUME TypeOK, MemberInv, NEW s \in Subs, Reader(s)
  PROVE  MemberInv'
<1>0. QueueInv /\ Untouched
  BY DEF MemberInv
<1>1. /\ joiner[s] = "joined" /\ UNCHANGED <<pending, batch, joiner, leaver, blocking>>
      /\ \A u \in Subs : u # s => res'[u] = res[u]
  BY <1>0, ReaderIsMember
<1>2. \A u \in Subs : u # s => rpc'[u] = rpc[u] /\ out'[u] = out[u]
  BY ReaderIsLocal
<1>3. Untouched'
  BY <1>0, <1>1, <1>2 DEF Untouched
<1>4. QueueInv'
  BY <1>0, <1>1 DEF QueueInv, Answerable, JoinsOnce, Apart
<1> QED BY <1>3, <1>4 DEF MemberInv

\* MemberInv is kept by every step.
LEMMA MemberStep ==
  ASSUME TypeOK, MemberInv, [Next]_vars
  PROVE  MemberInv'
<1>1. CASE UNCHANGED vars
  BY <1>1, MemberFrame DEF vars, ctrlVars, writerVars, callerVars, readVars
<1> QED BY <1>1, MemberByWriter, MemberByCaller, MemberByReader DEF Next

-----------------------------------------------------------------------------
(***************************************************************************)
(* Deliveries.                                                             *)
(***************************************************************************)

\* Where Ring.next has a target.
Seeking == {"load", "copy", "copyBlob", "badLen", "reload"}

\* A target is never behind the cursor, and ahead of it only once the
\* cursor's slot was found lapped.
CatchUp ==
  \A s \in Subs :
    rpc[s] \in Seeking =>
      /\ target[s] >= cursor[s]
      /\ target[s] > cursor[s] => seq[Slot(cursor[s])] > 2 * cursor[s] + 1

DeliveryInv ==
  BarrierInv /\ MemberInv /\ CatchUp /\ GapMeansLapped /\ BlockNoLoss

\* No store of seq goes back.
LEMMA SeqGrows ==
  ASSUME SeqlockInv, [Next]_vars
  PROVE  \A i \in Slots : seq'[i] >= seq[i]
<1>0. writeSeq \in Nat /\ seq \in [Slots -> Nat] /\ Here \in Slots /\ SeqOrder
  BY SlotType DEF SeqlockInv, TypeOK, RingTypes, Here
<1>1. CASE Invalidate
  <2>1. seq' = [seq EXCEPT ![Here] = 2 * writeSeq] /\ wpc = "invalidate"
    BY <1>1 DEF Invalidate, Here
  <2>2. seq[Here] = 0 \/ seq[Here] < 2 * writeSeq
    BY <1>0, <2>1 DEF SeqOrder
  <2> QED BY <1>0, <2>1, <2>2
<1>2. CASE Publish
  <2>1. seq' = [seq EXCEPT ![Here] = 2 * writeSeq + 1] /\ wpc = "publish"
    BY <1>2 DEF Publish, Here
  <2>2. seq[Here] = 2 * writeSeq
    BY <1>0, <2>1 DEF SeqOrder
  <2> QED BY <1>0, <2>1, <2>2
<1>3. CASE UNCHANGED seq
  BY <1>0, <1>3
<1> QED BY <1>1, <1>2, <1>3, SlotsMove DEF Advance, slotVars

\* Outside Next nothing that was read changes, a cursor moves only for a
\* subscriber that is not in, and only such a one registers.
LEMMA JoinMoves ==
  ASSUME TypeOK, MemberInv, Writer \/ \E s \in Subs : Caller(s)
  PROVE  /\ UNCHANGED readVars
         /\ \A u \in Subs : joiner[u] = "joined" => /\ cursor'[u] = cursor[u]
                                                    /\ u \in blocking' => u \in blocking
<1> USE DEF slotVars, writerVars, ctrlVars, callerVars, readVars
<1>0. /\ mode \in [Subs -> {Block, Drop}] /\ start \in [Subs -> StartAt]
      /\ batch \in Seq(Requests)
  BY DEF TypeOK, SubscriberTypes, WriterTypes
<1>1. ASSUME NEW s \in Subs, NEW m \in {Block, Drop}, NEW st \in StartAt,
             SubscribeNow(s, m, st), joiner[s] # "joined"
      PROVE  \A u \in Subs : joiner[u] = "joined" => /\ cursor'[u] = cursor[u]
                                                     /\ u \in blocking' => u \in blocking
  BY <1>1, JoinedIsHeld
<1>2. CASE ApplyRequest
  <2>1. batch # <<>> /\ UNCHANGED readVars
    BY <1>2 DEF ApplyRequest, TypeOK, WriterTypes
  <2>2. Head(batch) = batch[1] /\ 1 \in 1 .. Len(batch)
    BY <1>0, <2>1
  <2>3. Head(batch)[2] \in Subs
    BY <1>0, <2>2, RequestParts
  <2>4. Head(batch)[1] = "subscribe" => joiner[Head(batch)[2]] = "queued"
    BY <2>2 DEF MemberInv, QueueInv, Answerable
  <2>5. CASE /\ Head(batch)[1] = "subscribe"
             /\ SubscribeNow(Head(batch)[2], mode[Head(batch)[2]], start[Head(batch)[2]])
    <3>1. mode[Head(batch)[2]] \in {Block, Drop} /\ start[Head(batch)[2]] \in StartAt
      BY <1>0, <2>3
    <3>2. joiner[Head(batch)[2]] # "joined"
      BY <2>4, <2>5
    <3> QED BY <1>1, <2>1, <2>3, <2>5, <3>1, <3>2
  <2>6. CASE UnsubscribeNow(Head(batch)[2]) /\ UNCHANGED cursor
    BY <2>1, <2>6 DEF UnsubscribeNow
  <2> QED BY <1>2, <2>5, <2>6 DEF ApplyRequest
<1>3. CASE StartEmitting \/ TakePending \/ NextRecord \/ NextEnds \/ RunFails \/ DriverEnds
  BY <1>3 DEF StartEmitting, TakePending, NextRecord, NextEnds, RunFails, DriverEnds
<1>4. CASE StoreEnd \/ CloseControl \/ FailRequest
  BY <1>4 DEF StoreEnd, CloseControl, FailRequest
<1>5. CASE BarrierPasses \/ BarrierHolds \/ WatchQuiet \/ WatchExpires \/ Evict
  BY <1>5 DEF BarrierPasses, BarrierHolds, WatchQuiet, WatchExpires, Evict
<1>6. CASE Invalidate \/ StoreWord \/ StoreBlob \/ Publish \/ Advance
  BY <1>6 DEF Invalidate, StoreWord, StoreBlob, Publish, Advance
<1>7. ASSUME NEW s \in Subs, NEW m \in Modes, NEW st \in Starts, Subscribe(s, m, st)
      PROVE  /\ UNCHANGED readVars
             /\ \A u \in Subs : joiner[u] = "joined" => /\ cursor'[u] = cursor[u]
                                                        /\ u \in blocking' => u \in blocking
  <2>1. UNCHANGED readVars /\ joiner[s] # "joined" /\ m \in {Block, Drop} /\ st \in StartAt
    BY <1>7, RequestAssumption DEF Subscribe
  <2> QED BY <1>1, <1>7, <2>1 DEF Subscribe
<1>8. ASSUME NEW s \in Subs, Unsubscribe(s) \/ UnsubscribeCancel(s) \/ Cancel(s)
      PROVE  UNCHANGED <<readVars, cursor>> /\ blocking' \subseteq blocking
  BY <1>8 DEF Unsubscribe, UnsubscribeNow, UnsubscribeCancel, Cancel
<1> QED BY <1>2, <1>3, <1>4, <1>5, <1>6, <1>7, <1>8 DEF Writer, Caller

\* Deliveries under the steps of the emit goroutine and of callers.
LEMMA DeliveryByOthers ==
  ASSUME DeliveryInv, Writer \/ \E s \in Subs : Caller(s)
  PROVE  CatchUp' /\ GapMeansLapped' /\ BlockNoLoss'
<1>0. /\ TypeOK /\ MemberInv /\ SeqlockInv /\ Untouched
      /\ seq \in [Slots -> Nat] /\ cursor \in [Subs -> Nat] /\ out \in [Subs -> Deliveries]
      /\ blocking' \subseteq Subs
      /\ seq' \in [Slots -> Nat]
  BY TypeStep DEF DeliveryInv, BarrierInv, MemberInv, SeqlockInv, TypeOK, RingTypes,
                  SubscriberTypes, ReaderTypes, Next
<1>1. UNCHANGED <<rpc, target, out>>
  BY <1>0, JoinMoves DEF readVars
<1>2. \A u \in Subs : joiner[u] = "joined" => /\ cursor'[u] = cursor[u]
                                              /\ u \in blocking' => u \in blocking
  BY <1>0, JoinMoves
<1>3. \A i \in Slots : seq'[i] >= seq[i]
  BY <1>0, SeqGrows DEF Next
<1>4. \A n, k \in Nat : seq[Slot(n)] > k => seq'[Slot(n)] > k
  <2> TAKE n, k \in Nat
  <2>1. Slot(n) \in Slots
    BY SlotType
  <2>2. seq[Slot(n)] \in Nat /\ seq'[Slot(n)] \in Nat /\ seq'[Slot(n)] >= seq[Slot(n)]
    BY <1>0, <1>3, <2>1
  <2> QED BY <2>2
<1>5. CatchUp'
  <2> SUFFICES ASSUME NEW s \in Subs, rpc[s] \in Seeking
               PROVE  /\ target[s] >= cursor'[s]
                      /\ target[s] > cursor'[s] => seq'[Slot(cursor'[s])] > 2 * cursor'[s] + 1
    BY <1>1 DEF CatchUp
  <2>1. joiner[s] = "joined"
    BY <1>0 DEF Untouched, Seeking
  <2>2. cursor'[s] = cursor[s] /\ cursor[s] \in Nat /\ 2 * cursor[s] + 1 \in Nat
    BY <1>0, <1>2, <2>1
  <2> QED BY <1>4, <2>2 DEF DeliveryInv, CatchUp
<1>6. GapMeansLapped'
  <2> SUFFICES ASSUME NEW s \in Subs, out[s].first < out[s].index
               PROVE  seq'[Slot(out[s].first)] > 2 * out[s].first + 1
    BY <1>1 DEF GapMeansLapped
  <2>1. out[s].first \in Nat /\ 2 * out[s].first + 1 \in Nat
    BY <1>0 DEF Deliveries
  <2> QED BY <1>4, <2>1 DEF DeliveryInv, GapMeansLapped
<1>7. BlockNoLoss'
  <2> SUFFICES ASSUME NEW s \in blocking' PROVE out[s].first = out[s].index
    BY <1>1 DEF BlockNoLoss
  <2>1. CASE joiner[s] = "joined"
    BY <1>0, <1>2, <2>1 DEF DeliveryInv, BlockNoLoss
  <2>2. CASE joiner[s] # "joined"
    BY <1>0, <2>2 DEF Untouched, NoDelivery
  <2> QED BY <2>1, <2>2
<1> QED BY <1>5, <1>6, <1>7

\* After an incomplete read Ring.next waits, or goes after a later index
\* because the slot of its target, and so of its cursor, has moved on.
LEMMA IncompleteCatchesUp ==
  ASSUME TypeOK, NEW s \in Subs, target[s] >= cursor[s],
         target[s] > cursor[s] => seq[Slot(cursor[s])] > 2 * cursor[s] + 1,
         Incomplete(s, seq[Slot(target[s])] \div 2)
  PROVE  /\ target'[s] >= cursor[s]
         /\ target'[s] > cursor[s] => seq[Slot(cursor[s])] > 2 * cursor[s] + 1
<1> DEFINE q == seq[Slot(target[s])]
<1>0. /\ target \in [Subs -> Nat] /\ cursor[s] \in Nat /\ target[s] \in Nat /\ q \in Nat
  BY SlotType DEF TypeOK, RingTypes, SubscriberTypes, ReaderTypes
<1> HIDE DEF q
<1>1. CASE q \div 2 <= target[s]
  BY <1>1 DEF Incomplete, q
<1>2. CASE ~(q \div 2 <= target[s])
  <2>1. target'[s] = q \div 2
    BY <1>0, <1>2 DEF Incomplete, q
  <2>2. q \div 2 > target[s] /\ q > 2 * target[s] + 1
    BY <1>0, <1>2
  <2>3. q \div 2 >= cursor[s]
    BY <1>0, <2>2
  <2>4. seq[Slot(cursor[s])] > 2 * cursor[s] + 1
    BY <1>0, <2>2 DEF q
  <2> QED BY <2>1, <2>3, <2>4
<1> QED BY <1>1, <1>2

\* Deliveries under the steps of Next.
LEMMA DeliveryByReader ==
  ASSUME DeliveryInv, NEW s \in Subs, Reader(s)
  PROVE  CatchUp' /\ GapMeansLapped' /\ BlockNoLoss'
<1>0. /\ TypeOK /\ Untouched /\ CatchUp /\ GapMeansLapped /\ BlockNoLoss /\ BlockNeverLapped
      /\ cursor \in [Subs -> Nat] /\ target \in [Subs -> Nat] /\ out \in [Subs -> Deliveries]
      /\ rpc = [u \in Subs |-> rpc[u]]
      /\ blocking \subseteq Subs /\ cursor[s] \in Nat /\ target[s] \in Nat
  BY BarrierKeeps DEF DeliveryInv, BarrierInv, MemberInv, SeqlockInv, TypeOK, RingTypes,
                      SubscriberTypes, ReaderTypes
<1>1. /\ UNCHANGED <<blocking, seq>>
      /\ \A u \in Subs : u # s => /\ cursor'[u] = cursor[u] /\ rpc'[u] = rpc[u]
                                  /\ target'[u] = target[u] /\ out'[u] = out[u]
  BY <1>0, ReaderIsMember, ReaderIsLocal, ReaderFrame DEF slotSide
<1>2. ASSUME /\ rpc'[s] \in Seeking =>
                  /\ target'[s] >= cursor'[s]
                  /\ target'[s] > cursor'[s] => seq[Slot(cursor'[s])] > 2 * cursor'[s] + 1
      PROVE  CatchUp'
  BY <1>0, <1>1, <1>2 DEF CatchUp
<1>3. ASSUME out' = out
      PROVE  GapMeansLapped' /\ BlockNoLoss'
  BY <1>0, <1>1, <1>3 DEF GapMeansLapped, BlockNoLoss
<1>4. CASE TestEvicted(s) \/ TestEnd(s)
  <2>1. rpc'[s] \notin Seeking /\ out' = out
    BY <1>0, <1>4 DEF TestEvicted, TestEnd, Seeking
  <2> QED BY <1>2, <1>3, <2>1
<1>5. CASE TestCanceled(s)
  <2>1. /\ out' = out /\ cursor' = cursor
        /\ rpc'[s] \in Seeking => target'[s] = cursor[s]
    BY <1>0, <1>5 DEF TestCanceled, Seeking
  <2>2. rpc'[s] \in Seeking => target'[s] >= cursor'[s] /\ ~(target'[s] > cursor'[s])
    BY <1>0, <2>1
  <2> QED BY <1>2, <1>3, <2>1, <2>2
<1>6. ASSUME rpc[s] \in Seeking
      PROVE  /\ target[s] >= cursor[s]
             /\ target[s] > cursor[s] => seq[Slot(cursor[s])] > 2 * cursor[s] + 1
  BY <1>0, <1>6 DEF CatchUp
<1>7. CASE CopyWord(s) \/ CopyBlob(s)
  <2>1. rpc[s] \in Seeking /\ UNCHANGED <<cursor, target, out>>
    BY <1>7 DEF CopyWord, CopyBlob, Seeking
  <2> QED BY <1>2, <1>3, <1>6, <2>1
<1>8. CASE /\ rpc[s] \in Seeking /\ UNCHANGED <<cursor, out>>
           /\ Incomplete(s, seq[Slot(target[s])] \div 2)
  <2>1. /\ target'[s] >= cursor[s]
        /\ target'[s] > cursor[s] => seq[Slot(cursor[s])] > 2 * cursor[s] + 1
    BY <1>0, <1>6, <1>8, IncompleteCatchesUp
  <2> QED BY <1>2, <1>3, <1>8, <2>1
<1>9. CASE LoadSeq(s) \/ GiveUp(s)
  <2>1. CASE Incomplete(s, seq[Slot(target[s])] \div 2)
    <3>1. rpc[s] \in Seeking /\ UNCHANGED <<cursor, out>>
      BY <1>9 DEF LoadSeq, GiveUp, Seeking
    <3> QED BY <1>8, <2>1, <3>1
  <2>2. CASE ~Incomplete(s, seq[Slot(target[s])] \div 2)
    <3>1. rpc[s] \in Seeking /\ UNCHANGED <<cursor, target, out>>
      BY <1>9, <2>2 DEF LoadSeq, GiveUp, Seeking
    <3> QED BY <1>2, <1>3, <1>6, <3>1
  <2> QED BY <2>1, <2>2
<1>10. CASE Reload(s)
  <2>1. rpc[s] \in Seeking
    BY <1>10 DEF Reload, Seeking
  <2>2. CASE seq[Slot(target[s])] # 2 * target[s] + 1
    <3>1. Incomplete(s, seq[Slot(target[s])] \div 2) /\ UNCHANGED <<cursor, out>>
      BY <1>10, <2>2 DEF Reload
    <3> QED BY <1>8, <2>1, <3>1
  <2>3. CASE seq[Slot(target[s])] = 2 * target[s] + 1
    <3>0. /\ out' = [out EXCEPT ![s] = [words |-> buf[s], blob |-> bbuf[s],
                                        index |-> target[s], first |-> cursor[s]]]
          /\ rpc' = [rpc EXCEPT ![s] = "evicted"]
      BY <1>10, <2>3 DEF Reload
    <3>1. /\ out'[s].index = target[s] /\ out'[s].first = cursor[s]
          /\ rpc'[s] \notin Seeking
      BY <1>0, <3>0 DEF Seeking
    <3>2. CatchUp'
      BY <1>2, <3>1
    <3>3. GapMeansLapped'
      <4> SUFFICES ASSUME NEW u \in Subs, out'[u].first < out'[u].index
                   PROVE  seq[Slot(out'[u].first)] > 2 * out'[u].first + 1
        BY <1>1 DEF GapMeansLapped
      <4>1. CASE u = s
        <5>1. cursor[s] < target[s]
          BY <3>1, <4>1
        <5>2. target[s] > cursor[s]
          BY <1>0, <5>1
        <5> QED BY <1>6, <2>1, <3>1, <4>1, <5>2
      <4>2. CASE u # s
        BY <1>0, <1>1, <4>2 DEF GapMeansLapped
      <4> QED BY <4>1, <4>2
    <3>4. BlockNoLoss'
      <4> SUFFICES ASSUME NEW u \in blocking PROVE out'[u].first = out'[u].index
        BY <1>1 DEF BlockNoLoss
      <4>1. CASE u = s
        <5>1. seq[Slot(cursor[s])] <= 2 * cursor[s] + 1
          BY <1>0, <4>1 DEF BlockNeverLapped
        <5>2. seq[Slot(cursor[s])] \in Nat
          BY <1>0, SlotType DEF TypeOK, RingTypes
        <5>3. ~(target[s] > cursor[s])
          BY <1>0, <1>6, <2>1, <5>1, <5>2
        <5>4. target[s] = cursor[s]
          BY <1>0, <1>6, <2>1, <5>3
        <5> QED BY <3>1, <4>1, <5>4
      <4>2. CASE u # s
        BY <1>0, <1>1, <4>2 DEF BlockNoLoss
      <4> QED BY <4>1, <4>2
    <3> QED BY <3>2, <3>3, <3>4
  <2> QED BY <2>2, <2>3
<1> QED BY <1>4, <1>5, <1>7, <1>9, <1>10 DEF Reader

\* The delivery invariant holds of a new ring.
LEMMA DeliveryInit == Init => DeliveryInv
<1> SUFFICES ASSUME Init PROVE DeliveryInv
  OBVIOUS
<1>1. BarrierInv
  BY BarrierInit
<1>2. QueueInv
  BY DEF Init, QueueInv, Answerable, JoinsOnce, Apart
<1>3. Untouched
  BY DEF Init, Untouched
<1>4. CatchUp
  BY DEF Init, CatchUp, Seeking
<1>5. GapMeansLapped /\ BlockNoLoss
  BY DEF Init, GapMeansLapped, BlockNoLoss, NoDelivery
<1> QED BY <1>1, <1>2, <1>3, <1>4, <1>5 DEF DeliveryInv, MemberInv

\* The delivery invariant is inductive.
LEMMA DeliveryStep == DeliveryInv /\ [Next]_vars => DeliveryInv'
<1> SUFFICES ASSUME DeliveryInv, [Next]_vars
             PROVE  DeliveryInv'
  OBVIOUS
<1>1. BarrierInv'
  BY BarrierStep DEF DeliveryInv
<1>2. MemberInv'
  BY MemberStep DEF DeliveryInv, BarrierInv, SeqlockInv
<1>3. CatchUp' /\ GapMeansLapped' /\ BlockNoLoss'
  <2>1. CASE UNCHANGED vars
    <3>1. UNCHANGED <<rpc, target, cursor, seq, out, blocking>>
      BY <2>1 DEF vars, slotVars, readVars
    <3> QED BY <3>1 DEF DeliveryInv, CatchUp, GapMeansLapped, BlockNoLoss
  <2> QED BY <2>1, DeliveryByOthers, DeliveryByReader DEF Next
<1> QED BY <1>1, <1>2, <1>3 DEF DeliveryInv

\* A subscriber on the barrier has never been handed a gap (Subscribe's
\* promise for ModeBlock), for any capacity, stream and set of subscribers.
THEOREM NoLoss == Spec => []BlockNoLoss
<1>1. DeliveryInv => BlockNoLoss
  BY DEF DeliveryInv
<1> QED BY DeliveryInit, DeliveryStep, <1>1, PTL DEF Spec

\* Every gap Ring.next reports begins at a record that was really lost.
THEOREM GapsAreReal == Spec => []GapMeansLapped
<1>1. DeliveryInv => GapMeansLapped
  BY DEF DeliveryInv
<1> QED BY DeliveryInit, DeliveryStep, <1>1, PTL DEF Spec

-----------------------------------------------------------------------------
(***************************************************************************)
(* The end, and leaving.                                                   *)
(***************************************************************************)

\* Where the emit goroutine is once it has published the end.
Ended == {"close", "drain", "done"}

\* The end is published once, at the last index, and nothing follows it.
EndInv ==
  /\ endPlusOne # 0 => endPlusOne = writeSeq + 1 /\ wpc \in Ended
  /\ \A s \in Subs : res[s] = "end" => endPlusOne # 0 /\ cursor[s] >= writeSeq

\* A removal that was acknowledged is off the barrier, unless the queue was
\* closed and no barrier is left to hold.
LeaveInv ==
  /\ wpc \in {"drain", "done"} => closed
  /\ \A s \in Subs : leaver[s] \in {"removed", "left"} => s \notin blocking \/ closed
  /\ \A s \in Subs : canceled[s] => BareCancel \/ leaver[s] \in {"removed", "left"}

EndingInv == DeliveryInv /\ EndInv /\ LeaveInv

\* What the writer and the callers do to the end.
LEMMA EndMoves ==
  ASSUME TypeOK, EndInv, Writer \/ \E s \in Subs : Caller(s)
  PROVE  /\ endPlusOne' # 0 => endPlusOne' = writeSeq' + 1 /\ wpc' \in Ended
         /\ endPlusOne # 0 => UNCHANGED <<endPlusOne, writeSeq>>
<1> USE DEF slotVars, writerVars, ctrlVars, callerVars, readVars
<1>0. endPlusOne # 0 => endPlusOne = writeSeq + 1 /\ wpc \in Ended
  BY DEF EndInv
<1>1. CASE StartEmitting \/ TakePending \/ ApplyRequest \/ NextRecord \/ NextEnds \/ RunFails \/ DriverEnds
  BY <1>0, <1>1 DEF StartEmitting, TakePending, ApplyRequest, NextRecord, NextEnds, RunFails,
                    DriverEnds, Ended
<1>2. CASE StoreEnd
  BY <1>0, <1>2 DEF StoreEnd, EndWord, Ended
<1>3. CASE CloseControl \/ FailRequest
  BY <1>0, <1>3 DEF CloseControl, FailRequest, Ended
<1>4. CASE BarrierPasses \/ BarrierHolds \/ WatchQuiet \/ WatchExpires \/ Evict
  BY <1>0, <1>4 DEF BarrierPasses, BarrierHolds, WatchQuiet, WatchExpires, Evict, Ended
<1>5. CASE Invalidate \/ StoreWord \/ StoreBlob \/ Publish \/ Advance
  BY <1>0, <1>5 DEF Invalidate, StoreWord, StoreBlob, Publish, Advance, Ended
<1>6. ASSUME NEW s \in Subs, Caller(s)
      PROVE  UNCHANGED <<endPlusOne, writeSeq, wpc>>
  BY <1>6 DEF Caller, Subscribe, Unsubscribe, UnsubscribeCancel, Cancel
<1> QED BY <1>0, <1>1, <1>2, <1>3, <1>4, <1>5, <1>6 DEF Writer

\* The end under the steps of the emit goroutine and of callers.
LEMMA EndByOthers ==
  ASSUME DeliveryInv, EndInv, Writer \/ \E s \in Subs : Caller(s)
  PROVE  EndInv'
<1>0. TypeOK /\ MemberInv /\ Untouched
  BY DEF DeliveryInv, BarrierInv, SeqlockInv, MemberInv
<1>1. /\ UNCHANGED res
      /\ \A u \in Subs : joiner[u] = "joined" => cursor'[u] = cursor[u]
  BY <1>0, JoinMoves DEF readVars
<1>2. \A u \in Subs : res[u] = "end" => joiner[u] = "joined"
  BY <1>0 DEF Untouched
<1> QED BY <1>0, <1>1, <1>2, EndMoves DEF EndInv

\* The end under the steps of Next, which reads it after a failed read.
LEMMA EndByReader ==
  ASSUME DeliveryInv, EndInv, NEW s \in Subs, Reader(s)
  PROVE  EndInv'
<1>0. /\ TypeOK /\ Untouched /\ CatchUp /\ writeSeq \in Nat /\ cursor \in [Subs -> Nat]
      /\ target[s] \in Nat /\ endPlusOne \in Nat
      /\ res = [u \in Subs |-> res[u]]
  BY DEF DeliveryInv, BarrierInv, MemberInv, SeqlockInv, TypeOK, RingTypes, SubscriberTypes,
         ReaderTypes
<1>1. /\ UNCHANGED <<endPlusOne, writeSeq, wpc>>
      /\ \A u \in Subs : u # s => res'[u] = res[u] /\ cursor'[u] = cursor[u]
  BY <1>0, ReaderIsMember, ReaderFrame DEF slotSide
<1>2. ASSUME res'[s] = "end" => endPlusOne # 0 /\ cursor'[s] >= writeSeq
      PROVE  EndInv'
  BY <1>1, <1>2 DEF EndInv
<1>3. CASE TestEnd(s)
  <2>1. CASE endPlusOne # 0 /\ cursor[s] >= endPlusOne - 1
    <3>1. endPlusOne - 1 = writeSeq /\ UNCHANGED cursor
      BY <1>0, <1>3, <2>1 DEF EndInv, TestEnd
    <3> QED BY <1>2, <2>1, <3>1
  <2>2. CASE ~(endPlusOne # 0 /\ cursor[s] >= endPlusOne - 1)
    <3>1. UNCHANGED <<res, cursor>>
      BY <1>3, <2>2 DEF TestEnd
    <3> QED BY <1>2, <3>1 DEF EndInv
  <2> QED BY <2>1, <2>2
<1>4. CASE Reload(s)
  <2>1. (res'[s] = "record") \/ UNCHANGED <<res, cursor>>
    BY <1>0, <1>4 DEF Reload
  <2> QED BY <1>2, <2>1 DEF EndInv
<1>5. CASE TestEvicted(s) \/ TestCanceled(s)
  <2>1. UNCHANGED cursor /\ (res'[s] \in {"evicted", "canceled"} \/ UNCHANGED res)
    BY <1>0, <1>5 DEF TestEvicted, TestCanceled
  <2> QED BY <1>2, <2>1 DEF EndInv
<1>6. CASE LoadSeq(s) \/ CopyWord(s) \/ CopyBlob(s) \/ GiveUp(s)
  <2>1. UNCHANGED <<res, cursor>>
    BY <1>6 DEF LoadSeq, CopyWord, CopyBlob, GiveUp
  <2> QED BY <1>2, <2>1 DEF EndInv
<1> QED BY <1>3, <1>4, <1>5, <1>6 DEF Reader

\* LeaveInv is kept by every step.
LEMMA LeaveStep ==
  ASSUME DeliveryInv, LeaveInv, [Next]_vars
  PROVE  LeaveInv'
<1> USE DEF slotVars, writerVars, ctrlVars, callerVars, readVars, stopVars
<1>0. /\ TypeOK /\ MemberInv /\ Untouched
      /\ leaver \in [Subs -> {"none", "queued", "removed", "left"}]
      /\ canceled \in [Subs -> BOOLEAN] /\ blocking \subseteq Subs
  BY DEF DeliveryInv, BarrierInv, SeqlockInv, MemberInv, TypeOK, RingTypes, SubscriberTypes
<1>1. ASSUME Writer \/ \E s \in Subs : Caller(s)
      PROVE  \A u \in Subs : leaver[u] # "none" => (u \in blocking' => u \in blocking)
  BY <1>0, <1>1, JoinMoves DEF Untouched
<1>2. ASSUME closed => closed', UNCHANGED <<leaver, canceled>>,
             wpc' \in {"drain", "done"} => closed',
             \A u \in Subs : leaver[u] # "none" => (u \in blocking' => u \in blocking)
      PROVE  LeaveInv'
  BY <1>2 DEF LeaveInv
<1>3. CASE StartEmitting \/ TakePending \/ NextRecord \/ NextEnds \/ RunFails \/ DriverEnds \/ StoreEnd
  BY <1>2, <1>3 DEF StartEmitting, TakePending, AfterControl, NextRecord, NextEnds, RunFails, DriverEnds, StoreEnd
<1>4. CASE CloseControl
  BY <1>2, <1>4 DEF CloseControl
<1>5. CASE BarrierPasses \/ BarrierHolds \/ WatchQuiet \/ WatchExpires \/ Evict
  BY <1>2, <1>5 DEF BarrierPasses, BarrierHolds, WatchQuiet, WatchExpires, Evict
<1>6. CASE Invalidate \/ StoreWord \/ StoreBlob \/ Publish \/ Advance
  BY <1>2, <1>6 DEF Invalidate, StoreWord, StoreBlob, Publish, Advance
<1>7. CASE ApplyRequest
  <2>1. /\ UNCHANGED <<closed, canceled>> /\ wpc' \notin {"drain", "done"}
    BY <1>7 DEF ApplyRequest, AfterControl
  <2>2. \A u \in Subs : leaver[u] # "none" => (u \in blocking' => u \in blocking)
    BY <1>1, <1>7 DEF Writer
  <2>3. CASE UNCHANGED leaver
    BY <1>2, <2>1, <2>2, <2>3
  <2>4. CASE /\ UnsubscribeNow(Head(batch)[2])
             /\ leaver' = [leaver EXCEPT ![Head(batch)[2]] = "removed"]
    <3> DEFINE s == Head(batch)[2]
    <3>1. /\ blocking' = blocking \ {s}
          /\ \A u \in Subs : leaver'[u] = IF u = s THEN "removed" ELSE leaver[u]
      BY <1>0, <2>4 DEF UnsubscribeNow
    <3> HIDE DEF s
    <3> QED BY <2>1, <3>1 DEF LeaveInv
  <2> QED BY <1>7, <2>3, <2>4 DEF ApplyRequest
<1>8. CASE FailRequest
  <2>1. /\ closed /\ UNCHANGED <<closed, canceled, blocking>>
        /\ leaver' = [leaver EXCEPT ![Head(batch)[2]] = "removed"] \/ UNCHANGED leaver
    BY <1>8 DEF FailRequest, LeaveInv
  <2>2. \A u \in Subs : leaver'[u] = leaver[u] \/ leaver'[u] = "removed"
    BY <1>0, <2>1
  <2> QED BY <2>1, <2>2 DEF LeaveInv
<1>9. ASSUME NEW s \in Subs, NEW m \in Modes, NEW st \in Starts, Subscribe(s, m, st)
      PROVE  LeaveInv'
  <2>1. UNCHANGED <<closed, leaver, canceled, wpc>>
    BY <1>9 DEF Subscribe
  <2>2. \A u \in Subs : leaver[u] # "none" => (u \in blocking' => u \in blocking)
    BY <1>1, <1>9 DEF Caller
  <2>3. wpc' \in {"drain", "done"} => closed'
    BY <2>1 DEF LeaveInv
  <2> QED BY <1>2, <2>1, <2>2, <2>3
<1>10. ASSUME NEW s \in Subs, Unsubscribe(s)
       PROVE  LeaveInv'
  <2>1. /\ UNCHANGED <<closed, canceled, wpc>> /\ leaver[s] = "none"
        /\ blocking' \subseteq blocking
        /\ \/ leaver' = [leaver EXCEPT ![s] = "removed"] /\ (closed \/ blocking' = blocking \ {s})
           \/ leaver' = [leaver EXCEPT ![s] = "queued"]
    BY <1>10 DEF Unsubscribe, UnsubscribeNow
  <2>2. \A u \in Subs : u # s => leaver'[u] = leaver[u]
    BY <1>0, <2>1
  <2>3. \/ leaver'[s] = "removed" /\ (closed \/ s \notin blocking')
        \/ leaver'[s] = "queued"
    BY <1>0, <2>1
  <2> QED BY <2>1, <2>2, <2>3 DEF LeaveInv
<1>11. ASSUME NEW s \in Subs, UnsubscribeCancel(s)
       PROVE  LeaveInv'
  <2>1. /\ UNCHANGED <<closed, wpc, blocking>> /\ leaver[s] = "removed"
        /\ leaver' = [leaver EXCEPT ![s] = "left"]
        /\ canceled' = [canceled EXCEPT ![s] = TRUE]
    BY <1>11 DEF UnsubscribeCancel
  <2>2. leaver'[s] = "left" /\ \A u \in Subs : u # s => leaver'[u] = leaver[u] /\ canceled'[u] = canceled[u]
    BY <1>0, <2>1
  <2> QED BY <2>1, <2>2 DEF LeaveInv
<1>12. ASSUME NEW s \in Subs, Cancel(s)
       PROVE  LeaveInv'
  <2>1. BareCancel /\ UNCHANGED <<closed, wpc, blocking, leaver>>
    BY <1>12 DEF Cancel
  <2> QED BY <2>1 DEF LeaveInv
<1>13. ASSUME NEW s \in Subs, Reader(s)
       PROVE  LeaveInv'
  <2>1. UNCHANGED <<leaver, blocking, canceled, closed, wpc>>
    BY <1>0, <1>13, ReaderIsMember, ReaderFrame
  <2> QED BY <2>1 DEF LeaveInv
<1>14. CASE UNCHANGED vars
  BY <1>14 DEF vars, LeaveInv
<1> QED BY <1>3, <1>4, <1>5, <1>6, <1>7, <1>8, <1>9, <1>10, <1>11, <1>12, <1>13, <1>14
        DEF Next, Writer, Caller

\* The ending invariant holds of a new ring.
LEMMA EndingInit == Init => EndingInv
<1>1. Init => EndInv /\ LeaveInv
  BY DEF Init, EndInv, LeaveInv
<1> QED BY <1>1, DeliveryInit DEF EndingInv

\* The ending invariant is inductive.
LEMMA EndingStep == EndingInv /\ [Next]_vars => EndingInv'
<1> SUFFICES ASSUME EndingInv, [Next]_vars
             PROVE  EndingInv'
  OBVIOUS
<1>0. DeliveryInv /\ EndInv /\ LeaveInv
  BY DEF EndingInv
<1>1. DeliveryInv'
  BY <1>0, DeliveryStep
<1>2. EndInv'
  <2>1. CASE UNCHANGED vars
    BY <1>0, <2>1 DEF vars, writerVars, readVars, EndInv
  <2> QED BY <1>0, <2>1, EndByOthers, EndByReader DEF Next
<1>3. LeaveInv'
  BY <1>0, LeaveStep
<1> QED BY <1>1, <1>2, <1>3 DEF EndingInv

\* Whoever Next told of a clean end has been handed, or told of, every index
\* ever written, and no more are written (SetEnd, Subscriber.Next).
THEOREM CleanEnd == Spec => []CleanEndMissesNothing
<1>1. EndingInv => CleanEndMissesNothing
  BY DEF EndingInv, EndInv, Ended, CleanEndMissesNothing
<1> QED BY EndingInit, EndingStep, <1>1, PTL DEF Spec

\* Unsubscribe never cancels a subscriber that still counts at the barrier
\* (Unsubscribe's deferred Cancel, applyControl, closeControl).
THEOREM CanceledOff == Spec => []CanceledIsOffTheBarrier
<1>1. EndingInv => CanceledIsOffTheBarrier
  BY DEF EndingInv, LeaveInv, CanceledIsOffTheBarrier, DeliveryInv, BarrierInv, SeqlockInv,
         TypeOK, RingTypes
<1> QED BY EndingInit, EndingStep, <1>1, PTL DEF Spec

-----------------------------------------------------------------------------
(***************************************************************************)
(* Eviction.                                                               *)
(***************************************************************************)

\* Who was severed was in and is off the barrier; who has been told so has no
\* call of Next under way that could return anything else.
EvictInv ==
  /\ \A s \in victim : joiner[s] = "joined"
  /\ \A s \in Subs : evicted[s] => joiner[s] = "joined" /\ s \notin blocking
  /\ \A s \in Subs : res[s] = "evicted" => evicted[s] /\ rpc[s] = "evicted"

\* Nobody who is in is turned away afterwards.
LEMMA JoinedStays ==
  ASSUME TypeOK, MemberInv, [Next]_vars, NEW u \in Subs, joiner[u] = "joined"
  PROVE  joiner'[u] = "joined"
<1> USE DEF writerVars, ctrlVars, callerVars
<1>0. /\ joiner \in [Subs -> {"none", "queued", "joined", "refused"}]
      /\ mode \in [Subs -> {Block, Drop}] /\ start \in [Subs -> StartAt]
      /\ batch \in Seq(Requests)
  BY DEF TypeOK, SubscriberTypes, WriterTypes
<1>1. ASSUME batch # <<>>, Head(batch)[1] = "subscribe"
      PROVE  Head(batch)[2] \in Subs /\ Head(batch)[2] # u
  <2>1. Head(batch) = batch[1] /\ 1 \in 1 .. Len(batch)
    BY <1>0, <1>1
  <2> QED BY <1>0, <1>1, <2>1, RequestParts DEF MemberInv, QueueInv, Answerable
<1>2. CASE ApplyRequest
  <2>1. batch # <<>>
    BY <1>2 DEF ApplyRequest, TypeOK, WriterTypes
  <2>2. CASE /\ Head(batch)[1] = "subscribe"
             /\ SubscribeNow(Head(batch)[2], mode[Head(batch)[2]], start[Head(batch)[2]])
    <3>1. Head(batch)[2] \in Subs /\ Head(batch)[2] # u
      BY <1>1, <2>1, <2>2
    <3>2. mode[Head(batch)[2]] \in {Block, Drop} /\ start[Head(batch)[2]] \in StartAt
      BY <1>0, <3>1
    <3> QED BY <2>2, <3>1, <3>2, JoinedIsHeld
  <2>3. CASE UNCHANGED joiner
    BY <2>3
  <2> QED BY <1>2, <2>2, <2>3 DEF ApplyRequest
<1>3. CASE FailRequest
  <2>1. batch # <<>>
    BY <1>3 DEF FailRequest, TypeOK, WriterTypes
  <2>2. CASE /\ Head(batch)[1] = "subscribe"
             /\ joiner' = [joiner EXCEPT ![Head(batch)[2]] = "refused"]
    BY <1>0, <1>1, <2>1, <2>2
  <2> QED BY <1>3, <2>2 DEF FailRequest
<1>4. ASSUME NEW s \in Subs, NEW m \in Modes, NEW st \in Starts, Subscribe(s, m, st)
      PROVE  joiner'[u] = "joined"
  <2>1. s # u /\ m \in {Block, Drop} /\ st \in StartAt
    BY <1>4, RequestAssumption DEF Subscribe
  <2>2. CASE SubscribeNow(s, m, st)
    BY <2>1, <2>2, JoinedIsHeld
  <2>3. CASE \E v : joiner' = [joiner EXCEPT ![s] = v]
    BY <1>0, <2>1, <2>3
  <2> QED BY <1>4, <2>2, <2>3 DEF Subscribe
<1>5. CASE StartEmitting \/ TakePending \/ NextRecord \/ NextEnds \/ RunFails \/ DriverEnds
  BY <1>5 DEF StartEmitting, TakePending, NextRecord, NextEnds, RunFails, DriverEnds
<1>6. CASE StoreEnd \/ CloseControl \/ BarrierPasses \/ BarrierHolds \/ WatchQuiet \/ WatchExpires \/ Evict
  BY <1>6 DEF StoreEnd, CloseControl, BarrierPasses, BarrierHolds, WatchQuiet, WatchExpires, Evict
<1>7. CASE Invalidate \/ StoreWord \/ StoreBlob \/ Publish \/ Advance
  BY <1>7 DEF Invalidate, StoreWord, StoreBlob, Publish, Advance
<1>8. ASSUME NEW s \in Subs, Unsubscribe(s) \/ UnsubscribeCancel(s) \/ Cancel(s)
      PROVE  UNCHANGED joiner
  BY <1>8 DEF Unsubscribe, UnsubscribeCancel, Cancel
<1>9. ASSUME NEW s \in Subs, Reader(s)
      PROVE  UNCHANGED joiner
  BY <1>9, ReaderIsMember DEF MemberInv
<1>10. CASE UNCHANGED vars
  BY <1>10 DEF vars
<1> QED BY <1>2, <1>3, <1>4, <1>5, <1>6, <1>7, <1>8, <1>9, <1>10 DEF Next, Writer, Caller

\* Only Evict marks, and what it marks it removes; only WatchExpires chooses.
LEMMA EvictMoves ==
  ASSUME TypeOK, MemberInv, Writer \/ \E s \in Subs : Caller(s)
  PROVE  /\ UNCHANGED <<res, rpc>>
         /\ \/ UNCHANGED evicted
            \/ /\ evicted' = [s \in Subs |-> evicted[s] \/ s \in victim]
               /\ blocking' = blocking \ victim
         /\ victim' \subseteq victim \cup blocking
<1> USE DEF slotVars, writerVars, ctrlVars, callerVars, readVars, stopVars
<1>1. CASE StartEmitting \/ TakePending \/ ApplyRequest \/ NextRecord \/ NextEnds \/ RunFails \/ DriverEnds
  BY <1>1 DEF StartEmitting, TakePending, ApplyRequest, NextRecord, NextEnds, RunFails, DriverEnds
<1>2. CASE StoreEnd \/ CloseControl \/ FailRequest \/ BarrierPasses \/ BarrierHolds \/ WatchQuiet
  BY <1>2 DEF StoreEnd, CloseControl, FailRequest, BarrierPasses, BarrierHolds, WatchQuiet
<1>3. CASE WatchExpires
  BY <1>3 DEF WatchExpires, Holders
<1>4. CASE Evict
  BY <1>4 DEF Evict
<1>5. CASE Invalidate \/ StoreWord \/ StoreBlob \/ Publish \/ Advance
  BY <1>5 DEF Invalidate, StoreWord, StoreBlob, Publish, Advance
<1>6. ASSUME NEW s \in Subs, Caller(s)
      PROVE  UNCHANGED <<res, rpc, evicted, victim>>
  BY <1>6 DEF Caller, Subscribe, Unsubscribe, UnsubscribeCancel, Cancel
<1> QED BY <1>1, <1>2, <1>3, <1>4, <1>5, <1>6 DEF Writer

\* The invariant is kept, and the step is one EvictionIsFinal allows.
LEMMA EvictStep ==
  ASSUME DeliveryInv, EvictInv, [Next]_vars
  PROVE  /\ EvictInv'
         /\ \A s \in Subs : /\ evicted[s] => evicted'[s] /\ s \notin blocking'
                            /\ res[s] = "evicted" => res'[s] = "evicted"
<1>0. /\ TypeOK /\ MemberInv /\ Untouched /\ blocking \subseteq Subs /\ victim \subseteq Subs
      /\ evicted \in [Subs -> BOOLEAN]
      /\ rpc = [u \in Subs |-> rpc[u]] /\ res = [u \in Subs |-> res[u]]
  BY DEF DeliveryInv, BarrierInv, SeqlockInv, MemberInv, TypeOK, RingTypes, WriterTypes,
         SubscriberTypes, ReaderTypes
<1>1. \A u \in Subs : joiner[u] = "joined" => joiner'[u] = "joined"
  BY <1>0, JoinedStays
<1>2. \A u \in blocking : joiner[u] = "joined"
  BY <1>0 DEF Untouched
<1>3. CASE Writer \/ \E s \in Subs : Caller(s)
  <2>1. \A u \in Subs : joiner[u] = "joined" => (u \in blocking' => u \in blocking)
    BY <1>0, <1>3, JoinMoves
  <2>2. /\ UNCHANGED <<res, rpc>>
        /\ victim' \subseteq victim \cup blocking
        /\ \A s \in Subs : evicted[s] => evicted'[s]
        /\ \A s \in Subs : evicted'[s] => evicted[s] \/ (s \in victim /\ s \notin blocking')
    BY <1>0, <1>3, EvictMoves
  <2>3. \A s \in victim' : joiner'[s] = "joined"
    BY <1>0, <1>1, <1>2, <2>2 DEF EvictInv
  <2>4. \A s \in Subs : evicted'[s] => joiner'[s] = "joined" /\ s \notin blocking'
    BY <1>0, <1>1, <2>1, <2>2 DEF EvictInv
  <2> QED BY <2>2, <2>3, <2>4 DEF EvictInv
<1>4. ASSUME NEW s \in Subs, Reader(s)
      PROVE  /\ EvictInv'
             /\ \A u \in Subs : /\ evicted[u] => evicted'[u] /\ u \notin blocking'
                                /\ res[u] = "evicted" => res'[u] = "evicted"
  <2>1. /\ UNCHANGED <<blocking, joiner>>
        /\ \A u \in Subs : u # s => res'[u] = res[u] /\ rpc'[u] = rpc[u]
    BY <1>0, <1>4, ReaderIsMember, ReaderIsLocal
  <2>2. UNCHANGED <<evicted, victim>>
    BY <1>4 DEF Reader, TestEvicted, TestCanceled, LoadSeq, CopyWord, CopyBlob, GiveUp,
                Reload, TestEnd, readerFrame, stopVars, writerVars
  <2>3. /\ res[s] = "evicted" => res'[s] = "evicted"
        /\ res'[s] = "evicted" => evicted[s] /\ rpc'[s] = "evicted"
    <3>1. CASE TestEvicted(s)
      BY <1>0, <3>1 DEF TestEvicted, EvictInv
    <3>2. CASE TestCanceled(s) \/ TestEnd(s)
      BY <1>0, <3>2 DEF TestCanceled, TestEnd, EvictInv
    <3>3. CASE LoadSeq(s) \/ CopyWord(s) \/ CopyBlob(s) \/ GiveUp(s)
      BY <3>3 DEF LoadSeq, CopyWord, CopyBlob, GiveUp, EvictInv
    <3>4. CASE Reload(s)
      <4>1. rpc[s] = "reload" /\ (UNCHANGED res \/ res' = [res EXCEPT ![s] = "record"])
        BY <3>4 DEF Reload
      <4> QED BY <1>0, <4>1 DEF EvictInv
    <3> QED BY <1>4, <3>1, <3>2, <3>3, <3>4 DEF Reader
  <2> QED BY <2>1, <2>2, <2>3 DEF EvictInv
<1>5. CASE UNCHANGED vars
  BY <1>5 DEF vars, writerVars, callerVars, stopVars, readVars, EvictInv
<1> QED BY <1>3, <1>4, <1>5 DEF Next

\* Once the watchdog has severed a subscriber it is off the barrier for good,
\* and Next, once it returned ErrEvicted, returns nothing else
\* (evictStalledBlockSubscriber, Subscriber.Next).
THEOREM EvictedForGood == Spec => EvictionIsFinal
<1>1. Init => DeliveryInv /\ EvictInv
  BY DeliveryInit DEF Init, EvictInv
<1>2. DeliveryInv /\ EvictInv /\ [Next]_vars => (DeliveryInv /\ EvictInv)'
  BY DeliveryStep, EvictStep
<1>3. DeliveryInv /\ EvictInv /\ [Next]_vars =>
        [\A s \in Subs : /\ evicted[s] => evicted'[s] /\ s \notin blocking'
                         /\ res[s] = "evicted" => res'[s] = "evicted"]_vars
  BY EvictStep
<1> QED BY <1>1, <1>2, <1>3, PTL DEF Spec, EvictionIsFinal

-----------------------------------------------------------------------------
(***************************************************************************)
(* The ring implements the feed, for every capacity, stream and set of     *)
(* subscribers: every step of Ring is a step of Feed, or none that Feed    *)
(* can see.                                                                *)
(***************************************************************************)

\* A target shares its slot with the cursor it was found from.
SameLane ==
  \A s \in Subs : rpc[s] \in Seeking => Slot(target[s]) = Slot(cursor[s])

\* The watchdog chooses one subscriber at a time.
OneVictim == \A a, b \in victim : a = b

FeedInv == EndingInv /\ SameLane /\ OneVictim

\* The invariants FeedInv is made of.
LEMMA FeedInvParts ==
  ASSUME FeedInv
  PROVE  /\ EndingInv /\ DeliveryInv /\ EndInv /\ BarrierInv /\ MemberInv /\ Untouched
         /\ CatchUp /\ SeqlockInv /\ InItsSlot /\ Recent /\ KeptUp /\ Registered
         /\ SeqOrder /\ TypeOK /\ SameLane /\ OneVictim /\ BlockNeverLapped
BY BarrierKeeps DEF FeedInv, EndingInv, DeliveryInv, BarrierInv, MemberInv, SeqlockInv

-----------------------------------------------------------------------------
(***************************************************************************)
(* The invariant.                                                          *)
(***************************************************************************)

\* Only Next moves a target.
LEMMA LaneByOthers ==
  ASSUME FeedInv, Writer \/ \E s \in Subs : Caller(s)
  PROVE  SameLane'
<1>0. TypeOK /\ MemberInv /\ Untouched /\ SameLane
  BY FeedInvParts
<1>1. /\ UNCHANGED <<rpc, target>>
      /\ \A u \in Subs : joiner[u] = "joined" => cursor'[u] = cursor[u]
  BY <1>0, JoinMoves DEF readVars
<1>2. \A u \in Subs : rpc[u] \in Seeking => joiner[u] = "joined"
  BY <1>0 DEF Untouched, Seeking
<1> QED BY <1>0, <1>1, <1>2 DEF SameLane

\* Catching up stays in the slot of the target.
LEMMA IncompleteKeepsLane ==
  ASSUME TypeOK, InItsSlot, NEW s \in Subs, Slot(target[s]) = Slot(cursor[s]),
         Incomplete(s, seq[Slot(target[s])] \div 2)
  PROVE  Slot(target'[s]) = Slot(cursor[s])
<1> DEFINE i == Slot(target[s])
           q == seq[i]
<1>0. target \in [Subs -> Nat] /\ target[s] \in Nat /\ i \in Slots /\ q \in Nat
  BY SlotType DEF TypeOK, RingTypes, ReaderTypes
<1>1. CASE q \div 2 <= target[s]
  BY <1>1 DEF Incomplete
<1>2. CASE ~(q \div 2 <= target[s])
  <2>1. target'[s] = q \div 2
    BY <1>0, <1>2 DEF Incomplete
  <2>2. q # 0
    <3> HIDE DEF q
    <3> QED BY <1>0, <1>2
  <2>3. Slot(q \div 2) = i
    BY <1>0, <2>2 DEF InItsSlot
  <2> QED BY <2>1, <2>3
<1> QED BY <1>1, <1>2

\* SameLane under the steps of Next.
LEMMA LaneByReader ==
  ASSUME FeedInv, NEW s \in Subs, Reader(s)
  PROVE  SameLane'
<1>0. /\ TypeOK /\ Untouched /\ SameLane /\ InItsSlot
      /\ rpc = [u \in Subs |-> rpc[u]] /\ target \in [Subs -> Nat]
  BY FeedInvParts DEF TypeOK, ReaderTypes
<1>1. \A u \in Subs : u # s => /\ cursor'[u] = cursor[u] /\ rpc'[u] = rpc[u]
                               /\ target'[u] = target[u]
  BY <1>0, ReaderIsMember, ReaderIsLocal
<1>2. ASSUME rpc'[s] \in Seeking => Slot(target'[s]) = Slot(cursor'[s])
      PROVE  SameLane'
  BY <1>0, <1>1, <1>2 DEF SameLane
<1>3. rpc[s] \in Seeking => Slot(target[s]) = Slot(cursor[s])
  BY <1>0 DEF SameLane
<1>4. CASE TestEvicted(s) \/ TestEnd(s)
  <2>1. rpc'[s] \notin Seeking
    BY <1>0, <1>4 DEF TestEvicted, TestEnd, Seeking
  <2> QED BY <1>2, <2>1
<1>5. CASE TestCanceled(s)
  <2>1. rpc'[s] \in Seeking => target'[s] = cursor'[s]
    BY <1>0, <1>5 DEF TestCanceled, Seeking
  <2> QED BY <1>2, <2>1
<1>6. CASE CopyWord(s) \/ CopyBlob(s)
  <2>1. rpc[s] \in Seeking /\ UNCHANGED <<cursor, target>>
    BY <1>6 DEF CopyWord, CopyBlob, Seeking
  <2> QED BY <1>2, <1>3, <2>1
<1>7. ASSUME rpc[s] \in Seeking, UNCHANGED cursor, Incomplete(s, seq[Slot(target[s])] \div 2)
      PROVE  SameLane'
  BY <1>0, <1>2, <1>3, <1>7, IncompleteKeepsLane
<1>8. CASE LoadSeq(s) \/ GiveUp(s)
  <2>1. rpc[s] \in Seeking /\ UNCHANGED cursor
    BY <1>8 DEF LoadSeq, GiveUp, Seeking
  <2>2. CASE Incomplete(s, seq[Slot(target[s])] \div 2)
    BY <1>7, <2>1, <2>2
  <2>3. CASE UNCHANGED target
    BY <1>2, <1>3, <2>1, <2>3
  <2> QED BY <1>8, <2>2, <2>3 DEF LoadSeq, GiveUp
<1>9. CASE Reload(s)
  <2>1. rpc[s] \in Seeking
    BY <1>9 DEF Reload, Seeking
  <2>2. CASE seq[Slot(target[s])] # 2 * target[s] + 1
    <3>1. Incomplete(s, seq[Slot(target[s])] \div 2) /\ UNCHANGED cursor
      BY <1>9, <2>2 DEF Reload
    <3> QED BY <1>7, <2>1, <3>1
  <2>3. CASE seq[Slot(target[s])] = 2 * target[s] + 1
    <3>1. rpc'[s] \notin Seeking
      BY <1>0, <1>9, <2>3 DEF Reload, Seeking
    <3> QED BY <1>2, <3>1
  <2> QED BY <2>2, <2>3
<1> QED BY <1>4, <1>5, <1>6, <1>8, <1>9 DEF Reader

\* OneVictim is kept by every step.
LEMMA OneVictimStep ==
  ASSUME OneVictim, [Next]_vars
  PROVE  OneVictim'
<1> USE DEF slotVars, writerVars, ctrlVars, OneVictim
<1>1. CASE StartEmitting \/ TakePending \/ ApplyRequest \/ NextRecord \/ NextEnds \/ RunFails \/ DriverEnds
  BY <1>1 DEF StartEmitting, TakePending, ApplyRequest, NextRecord, NextEnds, RunFails, DriverEnds
<1>2. CASE StoreEnd \/ CloseControl \/ FailRequest \/ BarrierPasses \/ BarrierHolds \/ WatchQuiet
  BY <1>2 DEF StoreEnd, CloseControl, FailRequest, BarrierPasses, BarrierHolds, WatchQuiet
<1>3. CASE WatchExpires \/ Evict
  BY <1>3 DEF WatchExpires, Evict
<1>4. CASE Invalidate \/ StoreWord \/ StoreBlob \/ Publish \/ Advance
  BY <1>4 DEF Invalidate, StoreWord, StoreBlob, Publish, Advance
<1>5. ASSUME NEW s \in Subs, Caller(s)
      PROVE  UNCHANGED victim
  BY <1>5 DEF Caller, Subscribe, Unsubscribe, UnsubscribeCancel, Cancel
<1>6. ASSUME NEW s \in Subs, Reader(s)
      PROVE  UNCHANGED victim
  BY <1>6 DEF Reader, TestEvicted, TestCanceled, LoadSeq, CopyWord, CopyBlob, GiveUp,
              Reload, TestEnd, readerFrame
<1>7. CASE UNCHANGED vars
  BY <1>7 DEF vars
<1> QED BY <1>1, <1>2, <1>3, <1>4, <1>5, <1>6, <1>7 DEF Next, Writer

\* The invariant of the refinement holds of a new ring.
LEMMA FeedInvInit == Init => FeedInv
<1>1. Init => SameLane /\ OneVictim
  BY DEF Init, SameLane, OneVictim, Seeking
<1> QED BY <1>1, EndingInit DEF FeedInv

\* The invariant of the refinement is inductive.
LEMMA FeedInvStep == FeedInv /\ [Next]_vars => FeedInv'
<1> SUFFICES ASSUME FeedInv, [Next]_vars
             PROVE  FeedInv'
  OBVIOUS
<1>1. EndingInv'
  BY EndingStep, FeedInvParts
<1>2. SameLane'
  <2>1. CASE UNCHANGED vars
    BY <2>1, FeedInvParts DEF vars, readVars, SameLane
  <2> QED BY <2>1, LaneByOthers, LaneByReader DEF Next
<1>3. OneVictim'
  BY OneVictimStep, FeedInvParts
<1> QED BY <1>1, <1>2, <1>3 DEF FeedInv

-----------------------------------------------------------------------------
(***************************************************************************)
(* The simulation.                                                         *)
(***************************************************************************)

\* A step Feed cannot see.
LEMMA Unseen ==
  ASSUME UNCHANGED <<writeSeq, endPlusOne, blocking, cursor, out>>,
         \A u \in Subs : joiner'[u] = "joined" <=> joiner[u] = "joined",
         wpc = "advance" <=> wpc' = "advance"
  PROVE  UNCHANGED FeedOf!vars
<1>1. UNCHANGED <<Published, Over, Got>>
  BY DEF Published, Over, Got
<1>2. UNCHANGED Members
  BY DEF Members
<1> QED BY <1>1, <1>2 DEF FeedOf!vars

\* subscribeNow is a Join of the feed, with a guarantee for a Block
\* subscriber, or a refusal the feed does not see.
LEMMA JoinSim ==
  ASSUME FeedInv, Indexes = Nat,
         NEW s \in Subs, NEW m \in {Block, Drop}, NEW st \in StartAt,
         SubscribeNow(s, m, st), joiner[s] # "joined",
         UNCHANGED <<writeSeq, endPlusOne, out>>, wpc # "advance", wpc' # "advance"
  PROVE  [FeedOf!Next]_(FeedOf!vars)
<1> DEFINE c == ResolveStart(st)
<1>0. /\ TypeOK /\ cursor \in [Subs -> Nat] /\ writeSeq \in Nat /\ c \in Nat
      /\ joiner \in [Subs -> {"none", "queued", "joined", "refused"}]
  BY FeedInvParts, ResolveType DEF TypeOK, RingTypes, SubscriberTypes
<1>1. /\ \A u \in Subs : u # s => joiner'[u] = joiner[u]
      /\ joiner'[s] \in {"joined", "refused"}
      /\ joiner'[s] = "refused" => UNCHANGED <<cursor, blocking>>
  BY <1>0, JoinedIsHeld
<1>2. CASE joiner'[s] = "refused"
  BY <1>1, <1>2, Unseen
<1>3. CASE joiner'[s] = "joined"
  <2>1. /\ cursor' = [cursor EXCEPT ![s] = c]
        /\ blocking' = IF m = Block THEN blocking \cup {s} ELSE blocking
    BY <1>0, <1>3 DEF SubscribeNow
  <2>2. Members' = Members \cup {s} /\ s \notin Members
    BY <1>1, <1>3 DEF Members
  <2>3. UNCHANGED <<Published, Over, Got>> /\ Published = writeSeq
    BY DEF Published, Over, Got
  <2>4. m = Block => writeSeq - c <= Capacity
    <3>1. CASE m = Block /\ ~(UNCHANGED <<cursor, blocking>>)
      <4>1. cursor'[s] + Capacity >= writeSeq
        BY <1>0, <3>1, JoinedIsHeld
      <4>2. cursor'[s] = c
        BY <1>0, <2>1
      <4> HIDE DEF c
      <4> QED BY <1>0, <4>1, <4>2, CapacityAssumption
    <3>2. CASE m = Block /\ UNCHANGED <<cursor, blocking>>
      <4>1. s \in blocking /\ s \in Subs
        BY <2>1, <3>2
      <4> QED BY <4>1, FeedInvParts DEF Untouched
    <3> QED BY <3>1, <3>2
  <2> HIDE DEF c
  <2>5. FeedOf!Join(s, c)
    BY <2>1, <2>2, <2>3, <2>4 DEF FeedOf!Join
  <2> QED BY <1>0, <2>5 DEF FeedOf!Next
<1> QED BY <1>1, <1>2, <1>3

\* Taking one subscriber off the barrier is a Release of the feed, if it was on.
LEMMA ReleaseSim ==
  ASSUME NEW s \in Subs, blocking' = blocking \ {s},
         UNCHANGED <<writeSeq, endPlusOne, cursor, out, joiner>>,
         wpc = "advance" <=> wpc' = "advance"
  PROVE  [FeedOf!Next]_(FeedOf!vars)
<1>1. CASE s \notin blocking
  <2>1. UNCHANGED blocking
    BY <1>1
  <2> QED BY <2>1, Unseen
<1>2. CASE s \in blocking
  <2>1. UNCHANGED <<Published, Over, Got, Members>>
    BY DEF Published, Over, Got, Members
  <2>2. FeedOf!Release(s)
    BY <1>2, <2>1 DEF FeedOf!Release
  <2> QED BY <2>2 DEF FeedOf!Next
<1> QED BY <1>1, <1>2

\* A step of the emit goroutine is a step of the feed or unseen by it.
LEMMA WriterSim ==
  ASSUME FeedInv, Indexes = Nat, Writer
  PROVE  [FeedOf!Next]_(FeedOf!vars)
<1> USE DEF slotVars, writerVars, ctrlVars, callerVars, stopVars, readVars
<1>0. /\ TypeOK /\ QueueInv /\ KeptUp /\ EndInv /\ OneVictim
      /\ writeSeq \in Nat /\ cursor \in [Subs -> Nat] /\ blocking \subseteq Subs
      /\ victim \subseteq Subs /\ batch \in Seq(Requests)
      /\ mode \in [Subs -> {Block, Drop}] /\ start \in [Subs -> StartAt]
      /\ joiner \in [Subs -> {"none", "queued", "joined", "refused"}]
  BY FeedInvParts DEF MemberInv, TypeOK, RingTypes, WriterTypes, SubscriberTypes
<1>1. ASSUME batch # <<>>
      PROVE  /\ Head(batch)[2] \in Subs
             /\ Head(batch)[1] = "subscribe" => joiner[Head(batch)[2]] = "queued"
  <2>1. Head(batch) = batch[1] /\ 1 \in 1 .. Len(batch)
    BY <1>0, <1>1
  <2> QED BY <1>0, <2>1, RequestParts DEF QueueInv, Answerable
<1>2. CASE StartEmitting \/ TakePending \/ NextRecord \/ NextEnds \/ RunFails \/ DriverEnds \/ CloseControl
  BY <1>2, Unseen DEF StartEmitting, TakePending, AfterControl, NextRecord, NextEnds, RunFails,
                      DriverEnds, CloseControl
<1>3. CASE BarrierPasses \/ BarrierHolds \/ WatchQuiet \/ WatchExpires
  BY <1>3, Unseen DEF BarrierPasses, BarrierHolds, WatchQuiet, WatchExpires
<1>4. CASE Invalidate \/ StoreWord \/ StoreBlob
  BY <1>4, Unseen DEF Invalidate, StoreWord, StoreBlob
<1>5. CASE FailRequest
  <2>1. /\ batch # <<>> /\ wpc # "advance" /\ wpc' # "advance"
        /\ UNCHANGED <<writeSeq, endPlusOne, blocking, cursor, out>>
    BY <1>0, <1>5 DEF FailRequest, TypeOK, WriterTypes
  <2>2. \A u \in Subs : joiner'[u] = "joined" <=> joiner[u] = "joined"
    BY <1>0, <1>1, <1>5, <2>1 DEF FailRequest
  <2> QED BY <2>1, <2>2, Unseen
<1>6. CASE ApplyRequest
  <2> DEFINE s == Head(batch)[2]
  <2>1. /\ batch # <<>> /\ wpc # "advance" /\ wpc' # "advance"
        /\ UNCHANGED <<writeSeq, endPlusOne, out>>
    BY <1>0, <1>6 DEF ApplyRequest, AfterControl, TypeOK, WriterTypes
  <2>2. s \in Subs /\ mode[s] \in {Block, Drop} /\ start[s] \in StartAt
    BY <1>0, <1>1, <2>1
  <2>3. CASE Head(batch)[1] = "subscribe" /\ SubscribeNow(s, mode[s], start[s])
    <3>1. joiner[s] # "joined"
      BY <1>1, <2>1, <2>3
    <3> HIDE DEF s
    <3> QED BY <2>1, <2>2, <2>3, <3>1, JoinSim
  <2>4. CASE UnsubscribeNow(s) /\ UNCHANGED <<joiner, cursor>>
    <3> HIDE DEF s
    <3> QED BY <2>1, <2>2, <2>4, ReleaseSim DEF UnsubscribeNow
  <2> QED BY <1>6, <2>3, <2>4 DEF ApplyRequest
<1>7. CASE StoreEnd
  <2>1. UNCHANGED <<Published, Members, Got, blocking, cursor>> /\ Over'
    BY <1>0, <1>7 DEF StoreEnd, EndWord, Published, Members, Got, Over
  <2>2. Over' = TRUE
    BY <2>1 DEF Over
  <2>3. FeedOf!End
    BY <2>1, <2>2 DEF FeedOf!End
  <2> QED BY <2>3 DEF FeedOf!Next
<1>8. CASE Evict
  <2>1. /\ blocking' = blocking \ victim /\ wpc # "advance" /\ wpc' # "advance"
        /\ UNCHANGED <<writeSeq, endPlusOne, cursor, out, joiner>>
    BY <1>8 DEF Evict
  <2>2. CASE victim = {}
    <3>1. UNCHANGED blocking
      BY <2>1, <2>2
    <3> QED BY <2>1, <3>1, Unseen
  <2>3. CASE victim # {}
    <3>1. PICK v \in victim : TRUE
      BY <2>3
    <3>2. victim = {v} /\ v \in Subs
      BY <1>0, <3>1 DEF OneVictim
    <3> QED BY <2>1, <3>2, ReleaseSim
  <2> QED BY <2>2, <2>3
<1>9. CASE Publish
  <2>1. /\ wpc = "publish" /\ wpc' = "advance"
        /\ UNCHANGED <<writeSeq, endPlusOne, blocking, cursor, out, joiner>>
    BY <1>9 DEF Publish
  <2>2. Published = writeSeq /\ Published' = writeSeq + 1 /\ UNCHANGED <<Over, Members, Got>>
    BY <2>1 DEF Published, Over, Members, Got
  <2>3. ~Over
    BY <1>0, <2>1 DEF EndInv, Over, Ended
  <2>4. \A s \in blocking : writeSeq - cursor[s] < Capacity
    <3> TAKE s \in blocking
    <3>1. cursor[s] + Capacity > writeSeq /\ cursor[s] \in Nat
      BY <1>0, <2>1 DEF KeptUp, PastBarrier
    <3> QED BY <1>0, <3>1, CapacityAssumption
  <2>5. FeedOf!Publish
    BY <2>1, <2>2, <2>3, <2>4 DEF FeedOf!Publish
  <2> QED BY <2>5 DEF FeedOf!Next
<1>10. CASE Advance
  <2>1. /\ wpc = "advance" /\ wpc' = "loop" /\ writeSeq' = writeSeq + 1
        /\ UNCHANGED <<endPlusOne, blocking, cursor, out, joiner>>
    BY <1>10 DEF Advance
  <2>2. UNCHANGED <<Published, Over, Members, Got>>
    BY <2>1 DEF Published, Over, Members, Got
  <2> QED BY <2>1, <2>2 DEF FeedOf!vars
<1> QED BY <1>2, <1>3, <1>4, <1>5, <1>6, <1>7, <1>8, <1>9, <1>10 DEF Writer

\* A step of a caller is a step of the feed or unseen by it.
LEMMA CallerSim ==
  ASSUME FeedInv, Indexes = Nat, NEW s \in Subs, Caller(s)
  PROVE  [FeedOf!Next]_(FeedOf!vars)
<1> USE DEF slotVars, writerVars, ctrlVars, callerVars, stopVars, readVars
<1>0. /\ TypeOK /\ Registered
      /\ joiner \in [Subs -> {"none", "queued", "joined", "refused"}]
  BY FeedInvParts DEF TypeOK, SubscriberTypes
<1>1. ASSUME NEW m \in Modes, NEW st \in Starts, Subscribe(s, m, st)
      PROVE  [FeedOf!Next]_(FeedOf!vars)
  <2>1. /\ joiner[s] = "none" /\ m \in {Block, Drop} /\ st \in StartAt
        /\ UNCHANGED <<writeSeq, endPlusOne, out, wpc>>
    BY <1>1, RequestAssumption DEF Subscribe
  <2>2. CASE ~started /\ SubscribeNow(s, m, st)
    <3>1. wpc = "idle"
      BY <1>0, <2>2 DEF Registered
    <3> QED BY <2>1, <2>2, <3>1, JoinSim
  <2>3. CASE /\ UNCHANGED <<cursor, blocking>>
             /\ joiner' = [joiner EXCEPT ![s] = "refused"] \/ joiner' = [joiner EXCEPT ![s] = "queued"]
    <3>1. \A u \in Subs : joiner'[u] = "joined" <=> joiner[u] = "joined"
      BY <1>0, <2>1, <2>3
    <3> QED BY <2>1, <2>3, <3>1, Unseen
  <2> QED BY <1>1, <2>2, <2>3 DEF Subscribe
<1>2. CASE Unsubscribe(s)
  <2>1. UNCHANGED <<writeSeq, endPlusOne, cursor, out, joiner, wpc>>
    BY <1>2 DEF Unsubscribe
  <2>2. UNCHANGED blocking \/ blocking' = blocking \ {s}
    BY <1>2 DEF Unsubscribe, UnsubscribeNow
  <2> QED BY <2>1, <2>2, ReleaseSim, Unseen
<1>3. CASE UnsubscribeCancel(s) \/ Cancel(s)
  BY <1>3, Unseen DEF UnsubscribeCancel, Cancel
<1> QED BY <1>1, <1>2, <1>3 DEF Caller

\* A complete read hands over a record the feed has published and still holds.
LEMMA HeldIsPublished ==
  ASSUME FeedInv, NEW t \in Nat, Holds(t)
  PROVE  t < Published /\ Published - t <= Capacity
<1>0. /\ TypeOK /\ Recent /\ SeqOrder /\ writeSeq \in Nat /\ seq \in [Slots -> Nat]
      /\ Slot(t) \in Slots
  BY FeedInvParts, SlotType DEF TypeOK, RingTypes
<1>1. seq[Slot(t)] = 2 * t + 1
  BY DEF Holds
<1>2. t + Capacity >= writeSeq
  BY <1>0, HeldIsRecent
<1>3. CASE wpc = "advance"
  <2>1. Published = writeSeq + 1 /\ seq[Slot(writeSeq)] = 2 * writeSeq + 1
    BY <1>0, <1>3 DEF Published, SeqOrder, Here
  <2>2. t + Capacity # writeSeq
    <3> SUFFICES ASSUME t + Capacity = writeSeq PROVE FALSE
      OBVIOUS
    <3>1. Slot(writeSeq) = Slot(t)
      BY OneLapOn
    <3> QED BY <1>0, <1>1, <2>1, <3>1, CapacityAssumption
  <2>3. t <= writeSeq
    <3>1. CASE Slot(t) = Slot(writeSeq)
      BY <1>0, <1>1, <2>1, <3>1
    <3>2. CASE Slot(t) # Slot(writeSeq)
      <4>1. seq[Slot(t)] = 0 \/ seq[Slot(t)] < 2 * writeSeq
        BY <1>0, <3>2 DEF SeqOrder, Here
      <4> QED BY <1>0, <1>1, <4>1
    <3> QED BY <3>1, <3>2
  <2> QED BY <1>0, <1>2, <2>1, <2>2, <2>3, CapacityAssumption
<1>4. CASE wpc # "advance"
  <2>1. Published = writeSeq
    BY <1>4 DEF Published
  <2>2. t < writeSeq
    <3>1. CASE Slot(t) = Here /\ wpc \in {"words", "blob", "publish"}
      <4>1. seq[Slot(t)] = 2 * writeSeq
        BY <1>0, <3>1 DEF SeqOrder
      <4> QED BY <1>0, <1>1, <4>1
    <3>2. CASE ~(Slot(t) = Here /\ wpc \in {"words", "blob", "publish"})
      <4>1. seq[Slot(t)] = 0 \/ seq[Slot(t)] < 2 * writeSeq
        BY <1>0, <1>4, <3>2 DEF SeqOrder
      <4> QED BY <1>0, <1>1, <4>1
    <3> QED BY <3>1, <3>2
  <2> QED BY <1>0, <1>2, <2>1, <2>2, CapacityAssumption
<1> QED BY <1>3, <1>4

\* A step of Next is a delivery of the feed or unseen by it.
LEMMA ReaderSim ==
  ASSUME FeedInv, Indexes = Nat, NEW s \in Subs, Reader(s)
  PROVE  [FeedOf!Next]_(FeedOf!vars)
<1>0. /\ TypeOK /\ Untouched /\ CatchUp /\ SameLane /\ BlockNeverLapped
      /\ cursor[s] \in Nat /\ target[s] \in Nat /\ blocking \subseteq Subs
      /\ seq[Slot(cursor[s])] \in Nat
      /\ out \in [Subs -> Deliveries]
  BY FeedInvParts, SlotType DEF TypeOK, RingTypes, SubscriberTypes, ReaderTypes
<1>1. /\ joiner[s] = "joined"
      /\ UNCHANGED <<joiner, blocking, endPlusOne, writeSeq, wpc>>
  BY <1>0, ReaderIsMember, ReaderFrame DEF slotSide
<1>2. CASE UNCHANGED <<cursor, out>>
  BY <1>1, <1>2, Unseen
<1>3. CASE TestEvicted(s) \/ TestCanceled(s) \/ LoadSeq(s) \/ CopyWord(s)
  <2>1. UNCHANGED <<cursor, out>>
    BY <1>3 DEF TestEvicted, TestCanceled, LoadSeq, CopyWord
  <2> QED BY <1>2, <2>1
<1>4. CASE CopyBlob(s) \/ GiveUp(s) \/ TestEnd(s)
  <2>1. UNCHANGED <<cursor, out>>
    BY <1>4 DEF CopyBlob, GiveUp, TestEnd
  <2> QED BY <1>2, <2>1
<1>5. CASE Reload(s)
  <2>1. CASE seq[Slot(target[s])] # 2 * target[s] + 1
    <3>1. UNCHANGED <<cursor, out>>
      BY <1>5, <2>1 DEF Reload
    <3> QED BY <1>2, <3>1
  <2>2. CASE seq[Slot(target[s])] = 2 * target[s] + 1
    <3> DEFINE t == target[s]
    <3>1. /\ cursor' = [cursor EXCEPT ![s] = t + 1]
          /\ out' = [out EXCEPT ![s] = [words |-> buf[s], blob |-> bbuf[s],
                                        index |-> t, first |-> cursor[s]]]
          /\ rpc[s] \in Seeking
      BY <1>5, <2>2 DEF Reload, Seeking
    <3>2. Got' = [Got EXCEPT ![s] = [index |-> t, first |-> cursor[s]]]
      BY <1>0, <3>1 DEF Got
    <3>3. UNCHANGED <<Published, Over, Members>> /\ s \in Members
      BY <1>1 DEF Published, Over, Members
    <3>4. t < Published /\ Published - t <= Capacity
      BY <1>0, <2>2, HeldIsPublished DEF Holds
    <3>5. t = cursor[s] \/ (s \notin blocking /\ t - cursor[s] >= Capacity)
      <4>1. CASE t > cursor[s]
        <5>1. Slot(t) = Slot(cursor[s]) /\ seq[Slot(cursor[s])] > 2 * cursor[s] + 1
          BY <1>0, <3>1, <4>1 DEF SameLane, CatchUp
        <5>2. cursor[s] < t
          BY <1>0, <4>1
        <5>3. cursor[s] + Capacity <= t
          BY <1>0, <5>1, <5>2, SameSlot
        <5>4. s \notin blocking
          BY <1>0, <5>1 DEF BlockNeverLapped
        <5> QED BY <1>0, <5>3, <5>4, CapacityAssumption
      <4>2. CASE ~(t > cursor[s])
        <5>1. t >= cursor[s]
          BY <1>0, <3>1 DEF CatchUp
        <5> QED BY <1>0, <4>2, <5>1
      <4> QED BY <4>1, <4>2
    <3> HIDE DEF t
    <3>6. FeedOf!Deliver(s, t)
      BY <1>1, <3>1, <3>2, <3>3, <3>4, <3>5 DEF FeedOf!Deliver
    <3>7. t \in Indexes
      BY <1>0 DEF t
    <3> QED BY <3>6, <3>7 DEF FeedOf!Next
  <2> QED BY <2>1, <2>2
<1> QED BY <1>3, <1>4, <1>5 DEF Reader

\* A new ring is a new feed.
LEMMA FeedSimInit == Init => FeedOf!Init
BY DEF Init, FeedOf!Init, FeedOf!Nothing, Published, Over, Members, Got, NoDelivery

\* Every step of the ring is a step of the feed or unseen by it.
LEMMA FeedSimStep ==
  ASSUME FeedInv, Indexes = Nat, [Next]_vars
  PROVE  [FeedOf!Next]_(FeedOf!vars)
<1>1. CASE UNCHANGED vars
  BY <1>1, Unseen DEF vars, slotVars, writerVars, callerVars, readVars
<1> QED BY <1>1, WriterSim, CallerSim, ReaderSim DEF Next

\* Every behaviour of the ring is one the feed allows: deliveries out of the
\* published, held window only, no skip under guarantee, no skip shorter than
\* a lap, no publication past the last unread record of a registered Block
\* subscriber (internal/fanout as a whole).
THEOREM RingImplementsFeed ==
  ASSUME Indexes = Nat
  PROVE  Spec => ImplementsFeed
<1>1. FeedInv /\ [Next]_vars => [FeedOf!Next]_(FeedOf!vars)
  BY FeedSimStep
<1> QED BY FeedInvInit, FeedInvStep, FeedSimInit, <1>1, PTL DEF Spec, ImplementsFeed, FeedOf!Spec

==============================================================================
