--------------------------- MODULE WatchdogProof ----------------------------
(***************************************************************************)
(* The watchdog's window and the slip gauge, for every timeout, every run  *)
(* of the clock and every set of subscribers.                              *)
(***************************************************************************)
EXTENDS Watchdog, TLAPS

\* The readings of the clock are in the past, in the order they were taken,
\* and an eviction is on its way only when a whole window has passed.
Window ==
  /\ waitStart <= now /\ windowStart <= now /\ reading <= now
  /\ pc # "writing" => waitStart <= windowStart
  /\ pc = "evict" => reading - windowStart >= Timeout

\* The gauge lags what was parked by the wait that is on.
Gauge ==
  IF pc = "writing" THEN slip = parked ELSE parked = slip + (now - waitStart)

WatchdogInv == TypeOK /\ Window /\ Gauge

LEMMA WatchdogInit == Init => WatchdogInv
BY WatchdogAssumption DEF Init, WatchdogInv, TypeOK, Window, Gauge

\* Types survive every step; the gauge stays a natural number because the
\* wait it adds began in the past.
LEMMA WatchdogTypes == TypeOK /\ Window /\ [Next]_vars => TypeOK'
<1> SUFFICES ASSUME TypeOK, Window, [Next]_vars PROVE TypeOK'
  OBVIOUS
<1> USE WatchdogAssumption DEF TypeOK
<1>1. CASE Tick
  BY <1>1 DEF Tick
<1>2. CASE StartWait
  BY <1>2 DEF StartWait
<1>3. CASE StillHeld
  BY <1>3 DEF StillHeld
<1>4. CASE Released
  BY <1>4 DEF Released, Slipped, Window
<1>5. CASE ApplyControl
  BY <1>5 DEF ApplyControl
<1>6. CASE ReadClock
  BY <1>6 DEF ReadClock
<1>7. CASE EvictStalled
  BY <1>7 DEF EvictStalled, Behind
<1>8. ASSUME NEW s \in Subs, Progress(s) PROVE TypeOK'
  BY <1>8 DEF Progress
<1>9. CASE UNCHANGED vars
  BY <1>9 DEF vars
<1> QED BY <1>1, <1>2, <1>3, <1>4, <1>5, <1>6, <1>7, <1>8, <1>9 DEF Next

\* The window and the gauge survive every step.
LEMMA WatchdogStep == WatchdogInv /\ [Next]_vars => WatchdogInv'
<1> SUFFICES ASSUME WatchdogInv, [Next]_vars PROVE Window' /\ Gauge'
  BY WatchdogTypes DEF WatchdogInv
<1> USE WatchdogAssumption DEF WatchdogInv, TypeOK, Window, Gauge
<1>1. CASE Tick
  BY <1>1 DEF Tick
<1>2. CASE StartWait
  BY <1>2 DEF StartWait
<1>3. CASE StillHeld
  BY <1>3 DEF StillHeld
<1>4. CASE Released
  BY <1>4 DEF Released, Slipped
<1>5. CASE ApplyControl
  BY <1>5 DEF ApplyControl
<1>6. CASE ReadClock
  BY <1>6 DEF ReadClock
<1>7. CASE EvictStalled
  BY <1>7 DEF EvictStalled
<1>8. ASSUME NEW s \in Subs, Progress(s) PROVE Window' /\ Gauge'
  BY <1>8 DEF Progress
<1>9. CASE UNCHANGED vars
  BY <1>9 DEF vars
<1> QED BY <1>1, <1>2, <1>3, <1>4, <1>5, <1>6, <1>7, <1>8, <1>9 DEF Next

\* The slip gauge of waitForBlockBarrier is exact between waits: it counts each
\* tick of each wait once, whoever joined, left or was evicted in it.
THEOREM SlipIsExact == Spec => []SlipIsTimeParked
<1>1. WatchdogInv => SlipIsTimeParked
  BY DEF WatchdogInv, Gauge, SlipIsTimeParked
<1> QED BY WatchdogInit, WatchdogStep, <1>1, PTL DEF Spec

\* Only evictStalledBlockSubscriber evicts, with its window full, and the
\* window of a wait never starts before the wait.
LEMMA EvictsAfterWindow ==
  ASSUME WatchdogInv, [Next]_vars, NEW s \in Subs,
         place[s] # "evicted", place'[s] = "evicted", since[s] = waitStart
  PROVE  now - since[s] >= Timeout
<1> USE DEF WatchdogInv, TypeOK
<1>1. CASE Tick
  BY <1>1 DEF Tick
<1>2. CASE StartWait
  BY <1>2 DEF StartWait
<1>3. CASE StillHeld
  BY <1>3 DEF StillHeld
<1>4. CASE Released
  BY <1>4 DEF Released
<1>5. CASE ApplyControl
  BY <1>5 DEF ApplyControl
<1>6. CASE ReadClock
  BY <1>6 DEF ReadClock
<1>7. CASE EvictStalled
  BY <1>7, WatchdogAssumption DEF EvictStalled, Window
<1>8. ASSUME NEW p \in Subs, Progress(p) PROVE FALSE
  BY <1>8 DEF Progress
<1>9. CASE UNCHANGED vars
  BY <1>9 DEF vars
<1> QED BY <1>1, <1>2, <1>3, <1>4, <1>5, <1>6, <1>7, <1>8, <1>9 DEF Next

\* Nobody who held the writer from the start of a wait is evicted before the
\* whole Config.WatchdogTimeout has passed (waitForBlockBarrier).
THEOREM NoEarlyEviction == Spec => FullTimeout
<1>1. WatchdogInv /\ [Next]_vars =>
        [\A s \in Subs :
           (place[s] # "evicted" /\ place'[s] = "evicted" /\ since[s] = waitStart) =>
             now - since[s] >= Timeout]_vars
  BY EvictsAfterWindow
<1> QED BY WatchdogInit, WatchdogStep, <1>1, PTL DEF Spec, FullTimeout

=============================================================================
