--------------------------- MODULE PreStartProof ----------------------------
(***************************************************************************)
(* The unlocked changes of Ring.blocking before StartEmitting are harmless *)
(* when the subscriber set is fixed before it, as the docs assume: for     *)
(* every capacity, stream and set of Block subscribers.  The argument is   *)
(* that one goroutine at a time is between its load and its store.         *)
(***************************************************************************)
EXTENDS PreStart, SequenceTheorems, TLAPS

\* The subscribers that Ring.blocking should hold.
Member(s) == join[s] \in {"registered", "joined"} /\ leave[s] # "left"

\* Where the run is: nothing is queued or written before StartEmitting.
Phase ==
  /\ started <=> epc \notin {"none", "spawned"}
  /\ running <=> epc # "none"
  /\ ~started => writeSeq = 0 /\ pending = <<>>

\* A direct change comes before StartEmitting and has no other beside it.
Alone ==
  /\ \A s \in Subs : Direct(s) => ~started
  /\ \A s, t \in Subs : Direct(s) /\ Direct(t) => s = t

\* A subscriber leaves once it is in, and reads only then.
Order ==
  \A s \in Subs : join[s] # "joined" => leave[s] = "no" /\ cursor[s] = 0

\* The request at place k of the queue is one its caller waits for.
Awaited(k) ==
  /\ pending[k][1] = "join" => join[pending[k][2]] = "queued"
  /\ pending[k][1] = "leave" => leave[pending[k][2]] = "queued"

\* Every request is in the queue once.
Queue ==
  /\ \A k \in 1 .. Len(pending) : Awaited(k)
  /\ \A k, l \in 1 .. Len(pending) : k # l => pending[k] # pending[l]

\* The slice holds the members, and a slice loaded is still the slice when it
\* is stored back.
Slice ==
  /\ \A s \in Subs : s \in blocking <=> Member(s)
  /\ \A s \in Subs : join[s] = "store" => seen[<<"join", s>>] = blocking
  /\ \A s \in Subs : leave[s] = "store" => seen[<<"leave", s>>] = blocking
  /\ epc = "apply" => seen[<<"emit">>] = blocking /\ pending # <<>>

\* The barrier's bound, and what it leaves room for.
Room ==
  /\ epc = "write" => writeSeq < Total
  /\ \A s \in blocking :
       /\ writeSeq - cursor[s] <= Capacity
       /\ epc = "write" => writeSeq - cursor[s] < Capacity

PreStartInv == TypeOK /\ Phase /\ Alone /\ Order /\ Queue /\ Slice /\ Room

-----------------------------------------------------------------------------
(***************************************************************************)
(* Requests and the queue.                                                 *)
(***************************************************************************)

Requests == {"join", "leave"} \X Subs

\* What a request is made of.
LEMMA RequestParts ==
  ASSUME NEW kind \in {"join", "leave"}, NEW s \in Subs
  PROVE  /\ <<kind, s>> \in Requests
         /\ <<kind, s>>[1] = kind /\ <<kind, s>>[2] = s
         /\ \A r \in Requests : (r[1] = kind /\ r[2] = s) => r = <<kind, s>>
BY DEF Requests

\* A request its caller waits for, and that is not in the queue yet, can be
\* queued by a step that moves nobody away from "queued".
LEMMA QueueGrows ==
  ASSUME TypeOK, Queue, NEW kind \in {"join", "leave"}, NEW s \in Subs,
         pending' = Append(pending, <<kind, s>>),
         \A k \in 1 .. Len(pending) : pending[k] # <<kind, s>>,
         \A t \in Subs : join[t] = "queued" => join'[t] = "queued",
         \A t \in Subs : leave[t] = "queued" => leave'[t] = "queued",
         kind = "join" => join'[s] = "queued",
         kind = "leave" => leave'[s] = "queued"
  PROVE  Queue' /\ pending' \in Seq(Requests)
<1> DEFINE r == <<kind, s>>
<1>1. r \in Requests /\ r[1] = kind /\ r[2] = s
  BY RequestParts
<1>2. pending \in Seq(Requests)
  BY DEF TypeOK, Requests
<1>3. /\ pending' \in Seq(Requests)
      /\ Len(pending') = Len(pending) + 1
      /\ \A k \in 1 .. Len(pending) : pending'[k] = pending[k]
      /\ pending'[Len(pending) + 1] = r
  BY <1>1, <1>2, AppendProperties
<1>4. \A k \in 1 .. Len(pending) : pending[k] \in Requests /\ pending[k][2] \in Subs
  BY <1>2, ElementOfSeq DEF Requests
<1>5. Len(pending) \in Nat
  BY <1>2
<1> HIDE DEF r
<1>6. \A k \in 1 .. Len(pending') : Awaited(k)'
  BY <1>1, <1>3, <1>4, <1>5 DEF Queue, Awaited
<1>7. \A k, l \in 1 .. Len(pending') : k # l => pending'[k] # pending'[l]
  BY <1>3, <1>5 DEF Queue, r
<1> QED BY <1>3, <1>6, <1>7 DEF Queue

\* The request at the head is one its caller waits for, and no other one of
\* the queue is the same.
LEMMA QueueHead ==
  ASSUME TypeOK, Queue, pending # <<>>
  PROVE  /\ Head(pending) \in Requests /\ Head(pending)[2] \in Subs
         /\ Head(pending)[1] = "join" => join[Head(pending)[2]] = "queued"
         /\ Head(pending)[1] = "leave" => leave[Head(pending)[2]] = "queued"
         /\ Tail(pending) \in Seq(Requests)
         /\ Len(Tail(pending)) = Len(pending) - 1 /\ Len(pending) \in Nat
         /\ \A k \in 1 .. Len(Tail(pending)) :
              /\ k + 1 \in 1 .. Len(pending) /\ Tail(pending)[k] = pending[k + 1]
              /\ pending[k + 1] # Head(pending)
              /\ pending[k + 1] \in Requests /\ pending[k + 1][2] \in Subs
<1>1. pending \in Seq(Requests) /\ Len(pending) \in Nat /\ 1 \in 1 .. Len(pending)
  BY EmptySeq DEF TypeOK, Requests
<1>2. /\ Head(pending) = pending[1]
      /\ Tail(pending) \in Seq(Requests)
      /\ Len(Tail(pending)) = Len(pending) - 1
      /\ \A k \in 1 .. Len(Tail(pending)) : Tail(pending)[k] = pending[k + 1]
  BY <1>1, HeadTailProperties
<1>3. \A k \in 1 .. Len(pending) : pending[k] \in Requests /\ pending[k][2] \in Subs
  BY <1>1, ElementOfSeq DEF Requests
<1>4. Awaited(1)
  BY <1>1 DEF Queue
<1>5. \A k \in 1 .. Len(Tail(pending)) : k + 1 \in 1 .. Len(pending) /\ k + 1 # 1
  BY <1>1, <1>2
<1> QED BY <1>1, <1>2, <1>3, <1>4, <1>5 DEF Queue, Awaited

\* A request nobody waits for is not in the queue.
LEMMA NotQueued ==
  ASSUME Queue, NEW s \in Subs, NEW k \in 1 .. Len(pending)
  PROVE  /\ join[s] # "queued" => pending[k] # <<"join", s>>
         /\ leave[s] # "queued" => pending[k] # <<"leave", s>>
<1>1. Awaited(k)
  BY DEF Queue
<1>2. pending[k] = <<"join", s>> => join[s] = "queued"
  BY <1>1 DEF Awaited
<1>3. pending[k] = <<"leave", s>> => leave[s] = "queued"
  BY <1>1 DEF Awaited
<1> QED BY <1>2, <1>3

-----------------------------------------------------------------------------
(***************************************************************************)
(* The invariant holds at first and after every step.                      *)
(***************************************************************************)

LEMMA PreStartInit == Init => PreStartInv
<1> SUFFICES ASSUME Init PROVE PreStartInv
  OBVIOUS
<1> USE PreStartAssumption DEF Init
<1>1. TypeOK
  <2>1. pending \in Seq({"join", "leave"} \X Subs)
    BY EmptySeq
  <2>2. /\ seen \in [Goroutines -> SUBSET Subs]
        /\ cursor \in [Subs -> 0 .. Total]
        /\ join \in [Subs -> Places]
        /\ leave \in [Subs -> {"no", "queued", "load", "store", "left"}]
    BY DEF Places
  <2>3. running \in BOOLEAN /\ started \in BOOLEAN
    OBVIOUS
  <2>4. writeSeq \in 0 .. Total
    OBVIOUS
  <2> QED BY <2>1, <2>2, <2>3, <2>4, Zenon DEF TypeOK
<1>2. Phase /\ Alone /\ Order
  BY DEF Phase, Alone, Order, Direct
<1>3. Queue
  BY EmptySeq DEF Queue
<1>4. Slice /\ Room
  BY DEF Slice, Room, Member
<1> QED BY <1>1, <1>2, <1>3, <1>4 DEF PreStartInv

\* attach takes Server.mu.
LEMMA KeepAttachLock ==
  ASSUME Quiescent, PreStartInv, NEW s \in Subs, AttachLock(s)
  PROVE  PreStartInv'
<1> USE PreStartAssumption DEF PreStartInv, TypeOK, Phase, Order, Places, AttachLock, Undisturbed
<1>1. TypeOK'
  BY DEF Goroutines
<1>2. Phase'
  OBVIOUS
<1>3. Alone'
  BY DEF Alone, Direct
<1>4. Order'
  OBVIOUS
<1>5. Queue'
  BY DEF Queue, Awaited
<1>6. Slice'
  BY DEF Slice, Member, Goroutines, Alone, Direct
<1>7. Room'
  BY DEF Room, Slice, Member
<1> QED BY <1>1, <1>2, <1>3, <1>4, <1>5, <1>6, <1>7

\* Subscribe queues a join, or goes on alone.
LEMMA KeepJoinTest ==
  ASSUME Quiescent, PreStartInv, NEW s \in Subs, JoinTest(s)
  PROVE  PreStartInv'
<1> USE PreStartAssumption DEF PreStartInv, TypeOK, Phase, Order, Places, JoinTest, Undisturbed
<1>0. Queue' /\ pending' \in Seq(Requests)
  <2>1. CASE started
    <3>1. \A k \in 1 .. Len(pending) : pending[k] # <<"join", s>>
      BY NotQueued
    <3>2. pending' = Append(pending, <<"join", s>>)
      BY <2>1
    <3>3. /\ \A t \in Subs : join[t] = "queued" => join'[t] = "queued"
          /\ \A t \in Subs : leave[t] = "queued" => leave'[t] = "queued"
          /\ join'[s] = "queued"
      BY <2>1
    <3> QED BY <3>1, <3>2, <3>3, QueueGrows
  <2>2. CASE ~started
    BY <2>2 DEF Queue, Awaited, Requests
  <2> QED BY <2>1, <2>2
<1>1. TypeOK'
  BY <1>0 DEF Goroutines, Requests
<1>2. Phase'
  OBVIOUS
<1>3. Alone'
  BY DEF Alone, Direct
<1>4. Order'
  OBVIOUS
<1>5. Queue'
  BY <1>0
<1>6. Slice'
  BY DEF Slice, Member, Goroutines, Alone, Direct
<1>7. Room'
  BY DEF Room, Slice, Member
<1> QED BY <1>1, <1>2, <1>3, <1>4, <1>5, <1>6, <1>7

\* subscribeNow before the run finds an empty ring.
LEMMA KeepJoinResolve ==
  ASSUME Quiescent, PreStartInv, NEW s \in Subs, JoinResolve(s)
  PROVE  PreStartInv'
<1> USE PreStartAssumption DEF PreStartInv, TypeOK, Phase, Order, Places, JoinResolve, Undisturbed
<1>1. TypeOK'
  BY DEF Goroutines
<1>2. Phase'
  OBVIOUS
<1>3. Alone'
  BY DEF Alone, Direct
<1>4. Order'
  BY DEF OldestIndex
<1>5. Queue'
  BY DEF Queue, Awaited
<1>6. Slice'
  BY DEF Slice, Member, Goroutines, Alone, Direct
<1>7. Room'
  BY DEF Room, Slice, Member
<1> QED BY <1>1, <1>2, <1>3, <1>4, <1>5, <1>6, <1>7

\* A direct join loads the slice ...
LEMMA KeepJoinLoad ==
  ASSUME Quiescent, PreStartInv, NEW s \in Subs, JoinLoad(s)
  PROVE  PreStartInv'
<1> USE PreStartAssumption DEF PreStartInv, TypeOK, Phase, Order, Places, JoinLoad, Undisturbed
<1>1. TypeOK'
  BY DEF Goroutines
<1>2. Phase'
  OBVIOUS
<1>3. Alone'
  BY DEF Alone, Direct
<1>4. Order'
  OBVIOUS
<1>5. Queue'
  BY DEF Queue, Awaited
<1>6. Slice'
  BY DEF Slice, Member, Goroutines, Alone, Direct
<1>7. Room'
  BY DEF Room, Slice, Member
<1> QED BY <1>1, <1>2, <1>3, <1>4, <1>5, <1>6, <1>7

\* ... and stores it back with nobody in between.
LEMMA KeepJoinStore ==
  ASSUME Quiescent, PreStartInv, NEW s \in Subs, JoinStore(s)
  PROVE  PreStartInv'
<1> USE PreStartAssumption DEF PreStartInv, TypeOK, Phase, Order, Places, JoinStore, Undisturbed
<1>1. TypeOK'
  BY DEF Goroutines
<1>2. Phase'
  OBVIOUS
<1>3. Alone'
  BY DEF Alone, Direct
<1>4. Order'
  OBVIOUS
<1>5. Queue'
  BY DEF Queue, Awaited
<1>6. Slice'
  BY DEF Slice, Member, Goroutines, Alone, Direct
<1>7. Room'
  BY DEF Room, Slice, Member, Alone, Direct
<1> QED BY <1>1, <1>2, <1>3, <1>4, <1>5, <1>6, <1>7

\* attach accepts.
LEMMA KeepAttachAccept ==
  ASSUME Quiescent, PreStartInv, NEW s \in Subs, AttachAccept(s)
  PROVE  PreStartInv'
<1> USE PreStartAssumption DEF PreStartInv, TypeOK, Phase, Order, Places, AttachAccept, Undisturbed
<1>1. TypeOK'
  BY DEF Goroutines
<1>2. Phase'
  OBVIOUS
<1>3. Alone'
  BY DEF Alone, Direct
<1>4. Order'
  OBVIOUS
<1>5. Queue'
  BY DEF Queue, Awaited
<1>6. Slice'
  BY DEF Slice, Member, Goroutines, Alone, Direct
<1>7. Room'
  BY DEF Room, Slice, Member
<1> QED BY <1>1, <1>2, <1>3, <1>4, <1>5, <1>6, <1>7

\* Unsubscribe queues a leave, or goes on alone.
LEMMA KeepLeaveTest ==
  ASSUME Quiescent, PreStartInv, NEW s \in Subs, LeaveTest(s)
  PROVE  PreStartInv'
<1> USE PreStartAssumption DEF PreStartInv, TypeOK, Phase, Order, Places, LeaveTest, Undisturbed
<1>0. Queue' /\ pending' \in Seq(Requests)
  <2>1. CASE started
    <3>1. \A k \in 1 .. Len(pending) : pending[k] # <<"leave", s>>
      BY NotQueued
    <3>2. pending' = Append(pending, <<"leave", s>>)
      BY <2>1
    <3>3. /\ \A t \in Subs : join[t] = "queued" => join'[t] = "queued"
          /\ \A t \in Subs : leave[t] = "queued" => leave'[t] = "queued"
          /\ leave'[s] = "queued"
      BY <2>1
    <3> QED BY <3>1, <3>2, <3>3, QueueGrows
  <2>2. CASE ~started
    BY <2>2 DEF Queue, Awaited, Requests
  <2> QED BY <2>1, <2>2
<1>1. TypeOK'
  BY <1>0 DEF Goroutines, Requests
<1>2. Phase'
  OBVIOUS
<1>3. Alone'
  BY DEF Alone, Direct
<1>4. Order'
  OBVIOUS
<1>5. Queue'
  BY <1>0
<1>6. Slice'
  BY DEF Slice, Member, Goroutines, Alone, Direct
<1>7. Room'
  BY DEF Room, Slice, Member
<1> QED BY <1>1, <1>2, <1>3, <1>4, <1>5, <1>6, <1>7

\* A direct leave loads the slice ...
LEMMA KeepLeaveLoad ==
  ASSUME Quiescent, PreStartInv, NEW s \in Subs, LeaveLoad(s)
  PROVE  PreStartInv'
<1> USE PreStartAssumption DEF PreStartInv, TypeOK, Phase, Order, Places, LeaveLoad, Undisturbed
<1>1. TypeOK'
  BY DEF Goroutines
<1>2. Phase'
  OBVIOUS
<1>3. Alone'
  BY DEF Alone, Direct
<1>4. Order'
  OBVIOUS
<1>5. Queue'
  BY DEF Queue, Awaited
<1>6. Slice'
  BY DEF Slice, Member, Goroutines, Alone, Direct
<1>7. Room'
  BY DEF Room, Slice, Member
<1> QED BY <1>1, <1>2, <1>3, <1>4, <1>5, <1>6, <1>7

\* ... and stores it back with nobody in between.
LEMMA KeepLeaveStore ==
  ASSUME Quiescent, PreStartInv, NEW s \in Subs, LeaveStore(s)
  PROVE  PreStartInv'
<1> USE PreStartAssumption DEF PreStartInv, TypeOK, Phase, Order, Places, LeaveStore, Undisturbed
<1>1. TypeOK'
  BY DEF Goroutines
<1>2. Phase'
  OBVIOUS
<1>3. Alone'
  BY DEF Alone, Direct
<1>4. Order'
  OBVIOUS
<1>5. Queue'
  BY DEF Queue, Awaited
<1>6. Slice'
  BY DEF Slice, Member, Goroutines, Alone, Direct
<1>7. Room'
  BY DEF Room, Slice, Member
<1> QED BY <1>1, <1>2, <1>3, <1>4, <1>5, <1>6, <1>7

\* A subscriber reads on.
LEMMA KeepRead ==
  ASSUME Quiescent, PreStartInv, NEW s \in Subs, Read(s)
  PROVE  PreStartInv'
<1> USE PreStartAssumption DEF PreStartInv, TypeOK, Phase, Order, Places, Read, Undisturbed
<1>1. TypeOK'
  BY DEF Goroutines
<1>2. Phase'
  OBVIOUS
<1>3. Alone'
  BY DEF Alone, Direct
<1>4. Order'
  OBVIOUS
<1>5. Queue'
  BY DEF Queue, Awaited
<1>6. Slice'
  BY DEF Slice, Member, Goroutines, Alone, Direct
<1>7. Room'
  BY DEF Room, Slice, Member
<1> QED BY <1>1, <1>2, <1>3, <1>4, <1>5, <1>6, <1>7

\* The run starts with no direct change under way.
LEMMA KeepStartEmitting ==
  ASSUME Quiescent, PreStartInv, StartEmitting
  PROVE  PreStartInv'
<1> USE PreStartAssumption DEF PreStartInv, TypeOK, Phase, Order, Places, StartEmitting, Undisturbed
<1>1. TypeOK'
  BY DEF Goroutines
<1>2. Phase'
  OBVIOUS
<1>3. Alone'
  BY DEF Alone, Direct
<1>4. Order'
  OBVIOUS
<1>5. Queue'
  BY DEF Queue, Awaited
<1>6. Slice'
  BY DEF Slice, Member, Goroutines, Alone, Direct
<1>7. Room'
  BY DEF Room, Slice, Member
<1> QED BY <1>1, <1>2, <1>3, <1>4, <1>5, <1>6, <1>7

\* applyControl looks at the queue.
LEMMA KeepApplyLoad ==
  ASSUME Quiescent, PreStartInv, ApplyLoad
  PROVE  PreStartInv'
<1> USE PreStartAssumption DEF PreStartInv, TypeOK, Phase, Order, Places, ApplyLoad, Undisturbed
<1>1. TypeOK'
  BY DEF Goroutines
<1>2. Phase'
  OBVIOUS
<1>3. Alone'
  BY DEF Alone, Direct
<1>4. Order'
  OBVIOUS
<1>5. Queue'
  BY DEF Queue, Awaited
<1>6. Slice'
  BY DEF Slice, Member, Goroutines, Alone, Direct
<1>7. Room'
  BY DEF Room, Slice, Member
<1> QED BY <1>1, <1>2, <1>3, <1>4, <1>5, <1>6, <1>7

\* applyControl stores the changed slice: the head of the queue is answered and
\* stays nowhere else in it.
LEMMA KeepApplyStore ==
  ASSUME Quiescent, PreStartInv, ApplyStore
  PROVE  PreStartInv'
<1> DEFINE h == Head(pending)
           c == h[2]
<1> USE PreStartAssumption DEF PreStartInv
<1>1. /\ epc = "apply" /\ epc' = "loop" /\ pending # <<>> /\ started
      /\ seen[<<"emit">>] = blocking
      /\ pending' = Tail(pending)
      /\ seen' = [seen EXCEPT ![<<"emit">>] = {}]
      /\ UNCHANGED <<running, started, writeSeq, cursor>>
  BY DEF ApplyStore, Slice, Phase
<1>2. /\ h \in Requests /\ c \in Subs /\ h = <<h[1], c>>
      /\ h[1] \in {"join", "leave"}
      /\ h[1] = "join" => join[c] = "queued"
      /\ h[1] = "leave" => leave[c] = "queued"
  BY <1>1, QueueHead DEF Requests
<1>3. \/ /\ h[1] = "leave" /\ blocking' = blocking \ {c}
         /\ leave' = [leave EXCEPT ![c] = "left"] /\ UNCHANGED <<mu, join>>
      \/ /\ h[1] = "join" /\ UNCHANGED <<leave, blocking>> /\ mu' = {}
         /\ join' = [join EXCEPT ![c] = "refused"]
      \/ /\ h[1] = "join" /\ UNCHANGED <<leave, mu>>
         /\ blocking' = blocking \cup {c} /\ writeSeq <= Capacity
         /\ join' = [join EXCEPT ![c] = "registered"]
  BY <1>1, <1>2 DEF ApplyStore, OldestIndex, TypeOK
<1>4. join[c] \in {"queued", "joined"} /\ ~Direct(c)
  BY <1>1, <1>2 DEF Order, Alone
<1> HIDE DEF h, c
<1>5. TypeOK'
  <2>1. pending' \in Seq({"join", "leave"} \X Subs)
    BY <1>1, QueueHead DEF Requests
  <2>2. seen' \in [Goroutines -> SUBSET Subs]
    BY <1>1 DEF TypeOK, Goroutines
  <2>3. join' \in [Subs -> Places] /\ leave' \in [Subs -> {"no", "queued", "load", "store", "left"}]
    <3>1. join \in [Subs -> Places] /\ "refused" \in Places /\ "registered" \in Places
      BY DEF TypeOK, Places
    <3>2. join' \in [Subs -> Places]
      BY <1>3, <3>1
    <3>3. leave' \in [Subs -> {"no", "queued", "load", "store", "left"}]
      BY <1>3 DEF TypeOK
    <3> QED BY <3>2, <3>3
  <2>4. blocking' \subseteq Subs /\ mu' \subseteq Subs
    BY <1>2, <1>3 DEF TypeOK
  <2> QED BY <1>1, <2>1, <2>2, <2>3, <2>4 DEF TypeOK
<1>6. Phase'
  BY <1>1 DEF Phase
<1>7. Alone'
  BY <1>1, <1>2, <1>3 DEF Alone, Direct, TypeOK
<1>8. Order'
  BY <1>1, <1>2, <1>3, <1>4 DEF Order, TypeOK
<1>9. Queue'
  <2>1. ASSUME NEW k \in 1 .. Len(pending') PROVE Awaited(k)'
    <3>1. /\ k + 1 \in 1 .. Len(pending) /\ pending'[k] = pending[k + 1]
          /\ pending[k + 1] # h /\ pending[k + 1] \in Requests
      BY <1>1, QueueHead DEF h
    <3>2. Awaited(k + 1)
      BY <3>1 DEF Queue
    <3>3. pending[k + 1][1] = h[1] => pending[k + 1][2] # c
      <4>1. \A r \in Requests : (r[1] = h[1] /\ r[2] = c) => r = h
        BY <1>2, RequestParts
      <4> QED BY <3>1, <4>1
    <3>4. pending[k + 1][2] \in Subs
      BY <3>1 DEF Requests
    <3> QED BY <1>3, <3>1, <3>2, <3>3, <3>4 DEF Awaited, TypeOK
  <2>2. ASSUME NEW k \in 1 .. Len(pending'), NEW l \in 1 .. Len(pending'), k # l
        PROVE  pending'[k] # pending'[l]
    BY <1>1, <2>2, QueueHead DEF Queue
  <2> QED BY <2>1, <2>2 DEF Queue
<1>10. Slice'
  BY <1>1, <1>2, <1>3, <1>4 DEF Slice, Member, TypeOK, Alone, Direct, Goroutines, Order
<1>11. Room'
  BY <1>1, <1>2, <1>3, <1>4 DEF Room, TypeOK, Order, Slice, Member
<1> QED BY <1>5, <1>6, <1>7, <1>8, <1>9, <1>10, <1>11

\* The barrier passes, spins or ends.
LEMMA KeepBarrier ==
  ASSUME Quiescent, PreStartInv, Barrier
  PROVE  PreStartInv'
<1> USE PreStartAssumption DEF PreStartInv, TypeOK, Phase, Order, Places, Barrier, Undisturbed
<1>1. TypeOK'
  BY DEF Goroutines
<1>2. Phase'
  OBVIOUS
<1>3. Alone'
  BY DEF Alone, Direct
<1>4. Order'
  OBVIOUS
<1>5. Queue'
  BY DEF Queue, Awaited
<1>6. Slice'
  BY DEF Slice, Member, Goroutines, Alone, Direct
<1>7. Room'
  BY DEF Room, Slice, Member
<1> QED BY <1>1, <1>2, <1>3, <1>4, <1>5, <1>6, <1>7

\* A record is written.
LEMMA KeepWriteRecord ==
  ASSUME Quiescent, PreStartInv, WriteRecord
  PROVE  PreStartInv'
<1> USE PreStartAssumption DEF PreStartInv, TypeOK, Phase, Order, Places, WriteRecord, Undisturbed
<1>1. TypeOK'
  BY DEF Goroutines, Room
<1>2. Phase'
  OBVIOUS
<1>3. Alone'
  BY DEF Alone, Direct
<1>4. Order'
  OBVIOUS
<1>5. Queue'
  BY DEF Queue, Awaited
<1>6. Slice'
  BY DEF Slice, Member, Goroutines, Alone, Direct
<1>7. Room'
  BY DEF Room, Slice, Member
<1> QED BY <1>1, <1>2, <1>3, <1>4, <1>5, <1>6, <1>7

LEMMA PreStartStep ==
  ASSUME Quiescent
  PROVE  PreStartInv /\ [Next]_vars => PreStartInv'
<1> SUFFICES ASSUME PreStartInv, [Next]_vars PROVE PreStartInv'
  OBVIOUS
<1>1. CASE UNCHANGED vars
  BY <1>1 DEF vars, PreStartInv, TypeOK, Phase, Alone, Direct, Order, Queue, Awaited,
     Slice, Member, Room
<1> QED
  BY <1>1, KeepAttachLock, KeepJoinTest, KeepJoinResolve, KeepJoinLoad, KeepJoinStore,
     KeepAttachAccept, KeepLeaveTest, KeepLeaveLoad, KeepLeaveStore, KeepRead,
     KeepStartEmitting, KeepApplyLoad, KeepApplyStore, KeepBarrier, KeepWriteRecord
  DEF Next

-----------------------------------------------------------------------------
\* Used as documented, no accepted Block subscriber is overtaken by a full ring,
\* however its registration interleaves with the emit goroutine's own changes of
\* Ring.blocking (Subscribe, applyControl, waitForBlockBarrier).
THEOREM NeverLappedWhenFixed ==
  ASSUME Quiescent
  PROVE  Spec => []AcceptedNeverLapped
<1>1. PreStartInv => AcceptedNeverLapped
  BY DEF PreStartInv, AcceptedNeverLapped, Slice, Member, Room
<1> QED BY PreStartInit, PreStartStep, <1>1, PTL DEF Spec

\* Used as documented, a subscriber that was removed never counts at the barrier
\* again: no slice loaded before the removal is stored back (unsubscribeNow).
THEOREM RemovedWhenFixed ==
  ASSUME Quiescent
  PROVE  Spec => []LeftStaysLeft
<1>1. PreStartInv => LeftStaysLeft
  BY DEF PreStartInv, LeftStaysLeft, Slice, Member
<1> QED BY PreStartInit, PreStartStep, <1>1, PTL DEF Spec

=============================================================================
