------------------------------ MODULE Watchdog ------------------------------
(***************************************************************************)
(* The time side of Ring.waitForBlockBarrier: the window after which a     *)
(* stalled Block subscriber is evicted, and the slip gauge.  Ring leaves   *)
(* the moment of expiry open; here the clock ticks.  For one wait a        *)
(* registered subscriber is either behind (its cursor is at the threshold, *)
(* so it holds the writer) or past it.                                     *)
(***************************************************************************)
EXTENDS Integers, FiniteSets

CONSTANTS
  Subs,        \* the Block subscribers
  Timeout,     \* Config.WatchdogTimeout, in ticks
  MaxTime      \* bound on the clock

ASSUME WatchdogAssumption ==
  /\ Timeout \in Nat \ {0}
  /\ MaxTime \in Nat

VARIABLES
  now,          \* the clock
  pc,           \* where waitForBlockBarrier is; "writing" outside it
  waitStart,    \* its local start
  windowStart,  \* its local windowStart
  reading,      \* its local now, the last clock reading of the spin
  slip,         \* Ring.slipNs
  parked,       \* history: the ticks that passed while a wait was on
  place,        \* per subscriber: out, past, behind or evicted
  since         \* history: when a behind subscriber began to hold the writer

vars == <<now, pc, waitStart, windowStart, reading, slip, parked, place, since>>

Behind == {s \in Subs : place[s] = "behind"}

Init ==
  /\ now = 0
  /\ pc = "writing"
  /\ waitStart = 0
  /\ windowStart = 0
  /\ reading = 0
  /\ slip = 0
  /\ parked = 0
  /\ place \in [Subs -> {"out", "past"}]
  /\ since = [s \in Subs |-> 0]

Tick ==
  /\ now < MaxTime
  /\ now' = now + 1
  /\ parked' = IF pc = "writing" THEN parked ELSE parked + 1
  /\ UNCHANGED <<pc, waitStart, windowStart, reading, slip, place, since>>

\* Mutant of StartWait: the window is not restarted for a new wait.
StartWaitStale ==
  /\ pc = "writing"
  /\ \E slow \in (SUBSET {s \in Subs : place[s] = "past"}) \ {{}} :
       /\ place' = [s \in Subs |-> IF s \in slow THEN "behind" ELSE place[s]]
       /\ since' = [s \in Subs |-> IF s \in slow THEN now ELSE since[s]]
  /\ waitStart' = now
  /\ pc' = "test"
  /\ UNCHANGED <<now, windowStart, reading, slip, parked>>

\* Write reaches the barrier for the next index and finds some of the
\* registered subscribers a full ring behind: one clock reading starts both
\* the wait and the watchdog's window.
StartWait ==
  /\ pc = "writing"
  /\ \E slow \in (SUBSET {s \in Subs : place[s] = "past"}) \ {{}} :
       /\ place' = [s \in Subs |-> IF s \in slow THEN "behind" ELSE place[s]]
       /\ since' = [s \in Subs |-> IF s \in slow THEN now ELSE since[s]]
  /\ waitStart' = now
  /\ windowStart' = now
  /\ pc' = "test"
  /\ UNCHANGED <<now, reading, slip, parked>>

\* The loop's condition.
StillHeld ==
  /\ pc = "test"
  /\ Behind # {}
  /\ pc' = "control"
  /\ UNCHANGED <<now, waitStart, windowStart, reading, slip, parked, place, since>>

\* Mutant of Slipped: measured from the watchdog's window.
SlippedInWindow == now - windowStart

\* The length of the wait that ends now.
Slipped == now - waitStart

\* The wait is over and its length is added to the gauge.
Released ==
  /\ pc = "test"
  /\ Behind = {}
  /\ slip' = slip + Slipped
  /\ pc' = "writing"
  /\ UNCHANGED <<now, waitStart, windowStart, reading, parked, place, since>>

\* applyControl on the spin: a join at the oldest index held is a join at the
\* threshold; a leave takes its subscriber off the barrier.
ApplyControl ==
  /\ pc = "control"
  /\ pc' = "clock"
  /\ \/ UNCHANGED <<place, since>>
     \/ \E s \in Subs :
          /\ place[s] = "out"
          /\ place' = [place EXCEPT ![s] = "behind"]
          /\ since' = [since EXCEPT ![s] = now]
     \/ \E s \in Subs :
          /\ place[s] \in {"past", "behind"}
          /\ place' = [place EXCEPT ![s] = "out"]
          /\ UNCHANGED since
  /\ UNCHANGED <<now, waitStart, windowStart, reading, slip, parked>>

\* The clock is read and the window tested.
ReadClock ==
  /\ pc = "clock"
  /\ reading' = now
  /\ pc' = IF now - windowStart >= Timeout THEN "evict" ELSE "test"
  /\ UNCHANGED <<now, waitStart, windowStart, slip, parked, place, since>>

\* evictStalledBlockSubscriber, and the window restarts at the clock reading.
EvictStalled ==
  /\ pc = "evict"
  /\ windowStart' = reading
  /\ pc' = "test"
  /\ IF Behind = {}
     THEN UNCHANGED place
     ELSE \E s \in Behind : place' = [place EXCEPT ![s] = "evicted"]
  /\ UNCHANGED <<now, waitStart, reading, slip, parked, since>>

\* A subscriber reads on, at any moment.
Progress(s) ==
  /\ place[s] = "behind"
  /\ place' = [place EXCEPT ![s] = "past"]
  /\ UNCHANGED <<now, pc, waitStart, windowStart, reading, slip, parked, since>>

Next ==
  \/ Tick \/ StartWait \/ StillHeld \/ Released \/ ApplyControl \/ ReadClock
  \/ EvictStalled \/ \E s \in Subs : Progress(s)

Spec == Init /\ [][Next]_vars

-----------------------------------------------------------------------------
\* The variables keep their types.
TypeOK ==
  /\ now \in 0 .. MaxTime
  /\ pc \in {"writing", "test", "control", "clock", "evict"}
  /\ waitStart \in 0 .. MaxTime
  /\ windowStart \in 0 .. MaxTime
  /\ reading \in 0 .. MaxTime
  /\ slip \in Nat
  /\ parked \in Nat
  /\ place \in [Subs -> {"out", "past", "behind", "evicted"}]
  /\ since \in [Subs -> 0 .. MaxTime]

\* "How long a Block subscriber may hold the writer at the barrier with no
\* progress before it is evicted": nobody who held the writer when the wait
\* began is evicted in less than the timeout, whoever joins, leaves, reads on
\* or is evicted meanwhile.  One that joins in mid-wait shares the window the
\* others started.
FullTimeout ==
  [][\A s \in Subs :
       (place[s] # "evicted" /\ place'[s] = "evicted" /\ since[s] = waitStart) =>
         now - since[s] >= Timeout]_vars

\* The gauge is exact whenever the writer is not parked: it counts every tick
\* of every wait once, the slow path's and no other.
SlipIsTimeParked == pc = "writing" => slip = parked

=============================================================================
