------------------------------ MODULE PreStart ------------------------------
(***************************************************************************)
(* The window around Ring.StartEmitting.  Subscribe and Unsubscribe test   *)
(* controlQueue.started under the mutex, release the mutex, and then, if   *)
(* emitting had not started, change Ring.blocking themselves.  Ring takes  *)
(* that direct branch as one step; here its loads and stores are apart, as *)
(* are those of the emit goroutine, and cmd/replayd's attach is the caller:*)
(* it serialises joins under Server.mu, and spawns the goroutine that will *)
(* call StartEmitting when it accepts the first one.  Leaves are not       *)
(* serialised.  All subscribers are Block subscribers that start at        *)
(* Beginning; records are written whole.                                   *)
(***************************************************************************)
EXTENDS Integers, Sequences

CONSTANTS
  Capacity,   \* ring capacity
  Total,      \* records in the stream
  Subs,       \* Block subscribers
  Quiescent   \* the set is fixed before StartEmitting, as the docs assume

ASSUME PreStartAssumption ==
  /\ Capacity \in Nat /\ Capacity >= 2
  /\ Total \in Nat
  /\ Quiescent \in BOOLEAN

VARIABLES
  mu,         \* Server.mu: the subscribers whose attach holds it
  running,    \* Server.started
  started,    \* controlQueue.started
  pending,    \* controlQueue.pending
  blocking,   \* Ring.blocking, the slice as a set
  seen,       \* per goroutine, the slice it loaded and has not stored back
  writeSeq,   \* Ring.writeSeq
  cursor,     \* Subscriber.cursor
  epc,        \* where the emit goroutine is
  join,       \* per subscriber, where attach is
  leave       \* per subscriber, where Unsubscribe is

vars == <<mu, running, started, pending, blocking, seen, writeSeq, cursor, epc,
          join, leave>>

\* The goroutines that change Ring.blocking.
Goroutines == {<<"emit">>} \cup ({"join", "leave"} \X Subs)

Init ==
  /\ mu = {}
  /\ running = FALSE
  /\ started = FALSE
  /\ pending = <<>>
  /\ blocking = {}
  /\ seen = [g \in Goroutines |-> {}]
  /\ writeSeq = 0
  /\ cursor = [s \in Subs |-> 0]
  /\ epc = "none"
  /\ join = [s \in Subs |-> "out"]
  /\ leave = [s \in Subs |-> "no"]

-----------------------------------------------------------------------------
\* A goroutine is past the test of started and has not finished its change.
Direct(s) == join[s] \in {"resolve", "load", "store"} \/ leave[s] \in {"load", "store"}

\* The documented use, where one goroutine fixes the set and then emits.
Undisturbed == Quiescent => \A s \in Subs : ~Direct(s)

\* attach takes Server.mu for the whole of its call.
AttachLock(s) ==
  /\ join[s] = "out"
  /\ mu = {}
  /\ mu' = {s}
  /\ join' = [join EXCEPT ![s] = "test"]
  /\ UNCHANGED <<running, started, pending, blocking, seen, writeSeq, cursor,
                 epc, leave>>

\* Subscribe under controlQueue.mu: queue the join, or go on without the lock.
JoinTest(s) ==
  /\ join[s] = "test"
  /\ Undisturbed
  /\ IF started
     THEN /\ pending' = Append(pending, <<"join", s>>)
          /\ join' = [join EXCEPT ![s] = "queued"]
     ELSE /\ join' = [join EXCEPT ![s] = "resolve"]
          /\ UNCHANGED pending
  /\ UNCHANGED <<mu, running, started, blocking, seen, writeSeq, cursor, epc,
                 leave>>

\* Mutant of OldestIndex: one index too low on a ring just lapped.
OldestOffByOne == IF writeSeq > Capacity + 1 THEN writeSeq - Capacity ELSE 0

OldestIndex == IF writeSeq > Capacity THEN writeSeq - Capacity ELSE 0

\* subscribeNow on the caller's goroutine: Beginning resolves to zero.
JoinResolve(s) ==
  /\ join[s] = "resolve"
  /\ cursor' = [cursor EXCEPT ![s] = 0]
  /\ IF 0 < OldestIndex
     THEN /\ join' = [join EXCEPT ![s] = "refused"]
          /\ mu' = {}
     ELSE /\ join' = [join EXCEPT ![s] = "load"]
          /\ UNCHANGED mu
  /\ UNCHANGED <<running, started, pending, blocking, seen, writeSeq, epc, leave>>

\* r.blocking = append(r.blocking, s): a load ...
JoinLoad(s) ==
  /\ join[s] = "load"
  /\ seen' = [seen EXCEPT ![<<"join", s>>] = blocking]
  /\ join' = [join EXCEPT ![s] = "store"]
  /\ UNCHANGED <<mu, running, started, pending, blocking, writeSeq, cursor, epc,
                 leave>>

\* ... and a store.
JoinStore(s) ==
  /\ join[s] = "store"
  /\ blocking' = seen[<<"join", s>>] \cup {s}
  /\ seen' = [seen EXCEPT ![<<"join", s>>] = {}]
  /\ join' = [join EXCEPT ![s] = "registered"]
  /\ UNCHANGED <<mu, running, started, pending, writeSeq, cursor, epc, leave>>

\* attach accepts: the first acceptance spawns run, and Server.mu is freed.
AttachAccept(s) ==
  /\ join[s] = "registered"
  /\ join' = [join EXCEPT ![s] = "joined"]
  /\ running' = TRUE
  /\ epc' = IF running THEN epc ELSE "spawned"
  /\ mu' = {}
  /\ UNCHANGED <<started, pending, blocking, seen, writeSeq, cursor, leave>>

-----------------------------------------------------------------------------
\* Mutant of LeaveTest: the slice is changed directly even while emitting.
LeaveTestDirect(s) ==
  /\ join[s] = "joined"
  /\ leave[s] = "no"
  /\ leave' = [leave EXCEPT ![s] = "load"]
  /\ UNCHANGED <<mu, running, started, pending, blocking, seen, writeSeq, cursor,
                 epc, join>>

\* Unsubscribe under controlQueue.mu, from the handler or its context watcher.
LeaveTest(s) ==
  /\ join[s] = "joined"
  /\ leave[s] = "no"
  /\ Undisturbed
  /\ IF started
     THEN /\ pending' = Append(pending, <<"leave", s>>)
          /\ leave' = [leave EXCEPT ![s] = "queued"]
     ELSE /\ leave' = [leave EXCEPT ![s] = "load"]
          /\ UNCHANGED pending
  /\ UNCHANGED <<mu, running, started, blocking, seen, writeSeq, cursor, epc,
                 join>>

\* unsubscribeNow on the caller's goroutine.
LeaveLoad(s) ==
  /\ leave[s] = "load"
  /\ seen' = [seen EXCEPT ![<<"leave", s>>] = blocking]
  /\ leave' = [leave EXCEPT ![s] = "store"]
  /\ UNCHANGED <<mu, running, started, pending, blocking, writeSeq, cursor, epc,
                 join>>

LeaveStore(s) ==
  /\ leave[s] = "store"
  /\ blocking' = seen[<<"leave", s>>] \ {s}
  /\ seen' = [seen EXCEPT ![<<"leave", s>>] = {}]
  /\ leave' = [leave EXCEPT ![s] = "left"]
  /\ UNCHANGED <<mu, running, started, pending, writeSeq, cursor, epc, join>>

-----------------------------------------------------------------------------
StartEmitting ==
  /\ epc = "spawned"
  /\ Undisturbed
  /\ started' = TRUE
  /\ epc' = "loop"
  /\ UNCHANGED <<mu, running, pending, blocking, seen, writeSeq, cursor, join,
                 leave>>

\* applyControl between records or on a spin of the barrier: load the slice
\* for the request at the head of the queue, or pass on to the barrier.
ApplyLoad ==
  /\ epc = "loop"
  /\ IF pending = <<>>
     THEN /\ epc' = "barrier"
          /\ UNCHANGED seen
     ELSE /\ epc' = "apply"
          /\ seen' = [seen EXCEPT ![<<"emit">>] = blocking]
  /\ UNCHANGED <<mu, running, started, pending, blocking, writeSeq, cursor, join,
                 leave>>

\* Store the changed slice and reply.
ApplyStore ==
  /\ epc = "apply"
  /\ pending' = Tail(pending)
  /\ epc' = "loop"
  /\ seen' = [seen EXCEPT ![<<"emit">>] = {}]
  /\ LET s == Head(pending)[2]
     IN  IF Head(pending)[1] = "leave"
         THEN /\ blocking' = seen[<<"emit">>] \ {s}
              /\ leave' = [leave EXCEPT ![s] = "left"]
              /\ UNCHANGED <<mu, join>>
         ELSE /\ UNCHANGED leave
              /\ IF 0 < OldestIndex
                 THEN /\ join' = [join EXCEPT ![s] = "refused"]
                      /\ mu' = {}
                      /\ UNCHANGED blocking
                 ELSE /\ join' = [join EXCEPT ![s] = "registered"]
                      /\ blocking' = seen[<<"emit">>] \cup {s}
                      /\ UNCHANGED mu
  /\ UNCHANGED <<running, started, writeSeq, cursor>>

\* waitForBlockBarrier passes for the record at writeSeq, or spins.
Barrier ==
  /\ epc = "barrier"
  /\ epc' = CASE writeSeq = Total -> "done"
              [] writeSeq < Total /\ (\A s \in blocking : writeSeq - cursor[s] < Capacity) -> "write"
              [] OTHER -> "loop"
  /\ UNCHANGED <<mu, running, started, pending, blocking, seen, writeSeq, cursor,
                 join, leave>>

WriteRecord ==
  /\ epc = "write"
  /\ writeSeq' = writeSeq + 1
  /\ epc' = "loop"
  /\ UNCHANGED <<mu, running, started, pending, blocking, seen, cursor, join,
                 leave>>

\* A subscriber reads the record at its cursor, if its slot still holds it.
Read(s) ==
  /\ join[s] = "joined"
  /\ cursor[s] < writeSeq
  /\ writeSeq - cursor[s] <= Capacity
  /\ cursor' = [cursor EXCEPT ![s] = @ + 1]
  /\ UNCHANGED <<mu, running, started, pending, blocking, seen, writeSeq, epc,
                 join, leave>>

Next ==
  \/ StartEmitting \/ ApplyLoad \/ ApplyStore \/ Barrier \/ WriteRecord
  \/ \E s \in Subs :
       \/ AttachLock(s) \/ JoinTest(s) \/ JoinResolve(s) \/ JoinLoad(s)
       \/ JoinStore(s) \/ AttachAccept(s)
       \/ LeaveTest(s) \/ LeaveLoad(s) \/ LeaveStore(s) \/ Read(s)

Spec == Init /\ [][Next]_vars

-----------------------------------------------------------------------------
Places == {"out", "test", "queued", "resolve", "load", "store", "registered",
           "joined", "refused"}

\* The variables keep their types.
TypeOK ==
  /\ mu \subseteq Subs
  /\ running \in BOOLEAN
  /\ started \in BOOLEAN
  /\ pending \in Seq({"join", "leave"} \X Subs)
  /\ blocking \subseteq Subs
  /\ seen \in [Goroutines -> SUBSET Subs]
  /\ writeSeq \in 0 .. Total
  /\ cursor \in [Subs -> 0 .. Total]
  /\ epc \in {"none", "spawned", "loop", "apply", "barrier", "write", "done"}
  /\ join \in [Subs -> Places]
  /\ leave \in [Subs -> {"no", "queued", "load", "store", "left"}]

\* Lapping is "impossible for a registered Block subscriber": whoever attach
\* accepted and nobody removed has not been overtaken by a full ring.
AcceptedNeverLapped ==
  \A s \in Subs :
    (join[s] = "joined" /\ leave[s] = "no") => writeSeq - cursor[s] <= Capacity

\* A subscriber that Unsubscribe has removed never counts at the barrier
\* again: no goroutine stores back a slice loaded before the removal.
LeftStaysLeft ==
  \A s \in Subs : leave[s] = "left" => s \notin blocking

=============================================================================
