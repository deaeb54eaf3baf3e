-------------------------------- MODULE Pacer --------------------------------
(***************************************************************************)
(* internal/fanout/pacer.go and speed.go over internal/clock: the emit     *)
(* loop calls Wait before each record, another goroutine may call Stop,    *)
(* and the clock is either the wall clock, whose timer sends from a        *)
(* callback goroutine, or the simulated one, which fires its timers inside *)
(* Advance, Reset and NewTimer under one mutex and has other users.        *)
(* Integers are of 64 bits in the code and of Width bits here.             *)
(***************************************************************************)
EXTENDS Integers, Sequences, FiniteSets, SequencesExt

CONSTANTS
  Width,         \* the width of an int64
  MaxSpeedTerm, MaxSpeedUp, MaxSlowdown,   \* the limits of NewSpeed
  Terms,         \* the terms a speed may be asked with
  Streams,       \* sequences of exchange timestamps, the first one is the base
  Probes,        \* what measureWindow may find on the wall clock
  Windows,       \* windows given directly to newPacerWindow
  MinWindow, MaxWindow, MaxSlice,
  Others,        \* timers of other users of a simulated clock, numbers from 1
  MaxTime        \* bound on the clock

MaxInt == 2 ^ (Width - 1) - 1

ASSUME PacerAssumption ==
  /\ Width \in Nat \ {0, 1}
  /\ MaxInt \in Nat /\ 2 ^ Width = 2 * (MaxInt + 1)
  /\ {MaxSpeedTerm, MaxSpeedUp, MaxSlowdown} \subseteq Nat
  /\ Terms \subseteq -MaxInt - 1 .. MaxInt
  /\ MaxSlice \in Nat \ {0}
  /\ MaxTime \in 0 .. MaxInt
  /\ MinWindow \in 1 .. MaxWindow /\ MaxWindow \in 1 .. MaxInt
  /\ Windows \subseteq 0 .. MaxInt /\ Probes \subseteq Int
  /\ Others \subseteq Nat \ {0}
  /\ \A s \in Streams : s \in Seq(Int) /\ s # <<>>
  \* a span of timestamps fits an int64, as it does for every date after 1970
  /\ \A s \in Streams : \A i \in DOMAIN s : s[i] \in s[1] .. MaxInt /\ s[i] - s[1] <= MaxInt

VARIABLES
  request,   \* the terms the speed was asked with, until Start
  speed,     \* Pacer.speed
  sim,       \* the clock is a SimClock
  window,    \* Pacer.window
  stream,    \* the timestamps of the records
  now,       \* the clock
  timers,    \* SimClock.timers; for the wall clock, the pacer's timer when armed
  dl,        \* per timer, its deadline
  chan,      \* per timer, whether its channel of one holds a value
  flying,    \* a callback of the wall clock's timer has started and not yet sent
  wpc,       \* where Wait is
  k,         \* the record the emit loop is at
  t0,        \* Pacer.t0
  until,     \* Pacer.releaseUntil
  delay,     \* Wait's local d
  slip,      \* Pacer.slip
  stop,      \* Pacer.stop
  late       \* history: how often releaseUntil moved after Stop

clock == <<now, timers, dl, chan, flying>>
given == <<request, speed, sim, window, stream>>
vars == <<given, clock, wpc, k, t0, until, delay, slip, stop, late>>

PacerTimer == 0
Timers == {PacerTimer} \cup Others

------------------------------------------------------------------------------
(* speed.go *)

\* gcdInt64: Euclid's algorithm.
gcd[p \in (0 .. MaxInt) \X (0 .. MaxInt)] ==
  IF p[2] = 0 THEN p[1] ELSE gcd[<<p[2], p[1] % p[2]>>]

InvalidSpeed == <<0, 0>>

InLimits(n, d) == /\ n <= MaxSpeedTerm /\ d <= MaxSpeedTerm
                  /\ n <= MaxSpeedUp * d /\ d <= MaxSlowdown * n

NewSpeed(n, d) ==
  LET g == gcd[<<n, d>>]
  IN  IF n <= 0 \/ d <= 0 \/ ~InLimits(n \div g, d \div g) THEN InvalidSpeed
      ELSE <<n \div g, d \div g>>

\* int64 arithmetic wraps.
Wrap(x) == ((x + MaxInt + 1) % (2 ^ Width)) - MaxInt - 1

\* Mutant of DeliveryTime: the sum with t0 is not clamped.
DeliveryTimeWraps(start, base, ts) ==
  LET dt == Wrap(ts - base)
      q == (dt * speed[2]) \div speed[1]
  IN  IF dt <= 0 THEN start ELSE IF q > MaxInt THEN MaxInt ELSE Wrap(start + q)

\* The product is exact (128 bits); each of its three overflows saturates.
DeliveryTime(start, base, ts) ==
  LET dt == Wrap(ts - base)
      product == dt * speed[2]
      hi == product \div (2 ^ Width)
      q == product \div speed[1]
  IN  CASE dt <= 0 -> start
        [] dt > 0 /\ hi >= speed[1] -> MaxInt
        [] dt > 0 /\ hi < speed[1] /\ q > MaxInt -> MaxInt
        [] dt > 0 /\ q <= MaxInt /\ start > MaxInt - q -> MaxInt
        [] OTHER -> start + q

addClamped(a, b) == IF b > MaxInt - a THEN MaxInt ELSE a + b

\* measureWindow: a clock that does not move has no resolution to respect.
measureWindow(worst) ==
  CASE worst <= 0 -> MaxInt
    [] worst > 0 /\ worst < MinWindow -> MinWindow
    [] worst > MaxWindow -> MaxWindow
    [] OTHER -> worst

------------------------------------------------------------------------------
(* clock: the sorted slice of the simulated clock *)

SortsBefore(d, a, b) == d[a] < d[b] \/ (d[a] = d[b] /\ a < b)

insertTimer(ts, d, t) ==
  SelectSeq(ts, LAMBDA o : SortsBefore(d, o, t)) \o <<t>>
    \o SelectSeq(ts, LAMBDA o : ~SortsBefore(d, o, t))

\* fireDueLocked at time h: the due timers are the front of the slice.
FireDue(ts, d, ch, h) ==
  LET n == Cardinality({i \in DOMAIN ts : \A j \in 1 .. i : d[ts[j]] <= h})
      due == SubSeq(ts, 1, n)
  IN  /\ timers' = SubSeq(ts, n + 1, Len(ts))
      /\ chan' = [t \in Timers |-> ch[t] \/ t \in ToSet(due)]

\* simTimer.Reset, and NewTimer for a timer not created before.
SimReset(t, d) ==
  LET rest == SelectSeq(timers, LAMBDA o : o # t)
      dls == [dl EXCEPT ![t] = now + d]
  IN  /\ dl' = dls
      /\ FireDue(insertTimer(rest, dls, t), dls, [chan EXCEPT ![t] = FALSE], now)
      /\ UNCHANGED <<now, flying>>

\* Mutant of RealReset: a timer that has fired or was stopped is not armed again.
RealResetActiveOnly(d) ==
  /\ dl' = [dl EXCEPT ![PacerTimer] = now + d]
  /\ chan' = [chan EXCEPT ![PacerTimer] = FALSE]
  /\ UNCHANGED <<now, timers, flying>>

\* realTimer.Reset: drain, then arm.
RealReset(d) ==
  /\ dl' = [dl EXCEPT ![PacerTimer] = now + d]
  /\ timers' = <<PacerTimer>>
  /\ chan' = [chan EXCEPT ![PacerTimer] = FALSE]
  /\ UNCHANGED <<now, flying>>

------------------------------------------------------------------------------
Init ==
  /\ request \in Terms \X Terms
  /\ speed = NewSpeed(request[1], request[2])
  /\ stream \in Streams
  /\ sim \in BOOLEAN
  /\ window \in IF sim THEN {measureWindow(0)} \cup Windows
                ELSE {measureWindow(w) : w \in Probes}
  /\ now = 0
  /\ timers = <<>>
  /\ dl = [t \in Timers |-> 0]
  /\ chan = [t \in Timers |-> FALSE]
  /\ flying = FALSE
  /\ wpc = IF speed = InvalidSpeed THEN "refused" ELSE "new"
  /\ k = 1
  /\ t0 = 0
  /\ until = 0
  /\ delay = 0
  /\ slip = 0
  /\ stop = FALSE
  /\ late = 0

\* Time passes.  At MaxTime it stands for every later time: what is pending is due.
Horizon(t) == IF t = MaxTime THEN 2 * MaxInt ELSE t

Tick ==
  /\ ~sim /\ wpc # "refused"
  /\ now < MaxTime
  /\ now' = now + 1
  /\ UNCHANGED <<given, timers, dl, chan, flying, wpc, k, t0, until, delay,
                 slip, stop, late>>

\* The runtime starts the callback of a due timer ...
RealFire ==
  /\ ~sim
  /\ timers = <<PacerTimer>>
  /\ dl[PacerTimer] <= Horizon(now)
  /\ timers' = <<>>
  /\ flying' = TRUE
  /\ UNCHANGED <<given, now, dl, chan, wpc, k, t0, until, delay, slip, stop, late>>

\* ... which sends unless the channel is full.
RealSend ==
  /\ flying
  /\ flying' = FALSE
  /\ chan' = [chan EXCEPT ![PacerTimer] = TRUE]
  /\ UNCHANGED <<given, now, timers, dl, wpc, k, t0, until, delay, slip, stop, late>>

\* SimClock.Advance.
SimAdvance ==
  /\ sim /\ wpc # "refused"
  /\ now < MaxTime \/ timers # <<>>
  /\ \E d \in 0 .. 2 :
       /\ now + d <= MaxTime
       /\ now < MaxTime => d > 0
       /\ now' = now + d
       /\ FireDue(timers, dl, chan, Horizon(now + d))
  /\ UNCHANGED <<given, dl, flying, wpc, k, t0, until, delay, slip, stop, late>>

\* Another user of the simulated clock creates or resets, stops, or receives
\* from a timer.
OtherTimer ==
  /\ sim /\ now < MaxTime /\ wpc # "refused"
  /\ \E t \in Others :
       \/ \E d \in 0 .. 2 : SimReset(t, d)
       \/ /\ timers' = SelectSeq(timers, LAMBDA o : o # t)
          /\ chan' = [chan EXCEPT ![t] = FALSE]
          /\ dl' = [dl EXCEPT ![t] = 0]
          /\ UNCHANGED <<now, flying>>
  /\ UNCHANGED <<given, wpc, k, t0, until, delay, slip, stop, late>>

------------------------------------------------------------------------------
(* The pacer *)

\* Pacer.Start, at the first record.
Start ==
  /\ wpc = "new"
  /\ t0' = now
  /\ until' = now
  /\ wpc' = "out"
  /\ request' = speed
  /\ UNCHANGED <<speed, sim, window, stream, clock, k, delay, slip, stop, late>>

Deadline == DeliveryTime(t0, stream[1], stream[k])

\* Wait returns true, and the emit loop goes on to the next record.
Release ==
  /\ k' = k + 1
  /\ wpc' = IF k = Len(stream) THEN "done" ELSE "out"

\* The fast path: neither the clock nor the flag is looked at.
WaitFast ==
  /\ wpc = "out"
  /\ Deadline <= until
  /\ Release
  /\ UNCHANGED <<given, clock, t0, until, delay, slip, stop, late>>

WaitSlow ==
  /\ wpc = "out"
  /\ Deadline > until
  /\ wpc' = "test"
  /\ UNCHANGED <<given, clock, k, t0, until, delay, slip, stop, late>>

\* The stop test at the head of the loop.
TestStop ==
  /\ wpc = "test"
  /\ wpc' = IF stop THEN "stopped" ELSE "read"
  /\ UNCHANGED <<given, clock, k, t0, until, delay, slip, stop, late>>

\* Mutant of ReadClock: the window is added to the deadline, not to the time.
ReadClockEarly ==
  /\ wpc = "read"
  /\ until' = addClamped(Deadline, window)
  /\ late' = IF stop THEN late + 1 ELSE late
  /\ slip' = IF now > Deadline THEN now - Deadline ELSE 0
  /\ Release
  /\ UNCHANGED <<given, clock, t0, delay, stop>>

\* One reading of the clock: release everything up to one window ahead, or
\* choose the next slice.
ReadClock ==
  /\ wpc = "read"
  /\ until' = addClamped(now, window)
  /\ late' = IF stop THEN late + 1 ELSE late
  /\ IF Deadline <= until'
     THEN /\ slip' = IF now > Deadline THEN now - Deadline ELSE 0
          /\ Release
          /\ delay' = 0
     ELSE /\ wpc' = "arm"
          /\ delay' = IF Deadline - now > MaxSlice THEN MaxSlice ELSE Deadline - now
          /\ UNCHANGED <<k, slip>>
  /\ UNCHANGED <<given, clock, t0, stop>>

\* p.timer.Reset(d)
Arm ==
  /\ wpc = "arm"
  /\ wpc' = "recv"
  /\ IF sim THEN SimReset(PacerTimer, delay) ELSE RealReset(delay)
  /\ UNCHANGED <<given, k, t0, until, delay, slip, stop, late>>

\* <-p.timer.C()
Wake ==
  /\ wpc = "recv"
  /\ chan[PacerTimer]
  /\ chan' = [chan EXCEPT ![PacerTimer] = FALSE]
  /\ wpc' = "test"
  /\ UNCHANGED <<given, now, timers, dl, flying, k, t0, until, delay, slip, stop, late>>

\* Mutant of Stop: it stops the timer as well, and drains its channel.
StopDrains ==
  /\ ~stop
  /\ wpc \notin {"refused", "done"}
  /\ stop' = TRUE
  /\ timers' = SelectSeq(timers, LAMBDA t : t # PacerTimer)
  /\ chan' = [chan EXCEPT ![PacerTimer] = FALSE]
  /\ UNCHANGED <<given, now, dl, flying, wpc, k, t0, until, delay, slip, late>>

\* Pacer.Stop, from another goroutine.
Stop ==
  /\ ~stop
  /\ wpc \notin {"refused", "done"}
  /\ stop' = TRUE
  /\ UNCHANGED <<given, clock, wpc, k, t0, until, delay, slip, late>>

Emit == Start \/ WaitFast \/ WaitSlow \/ TestStop \/ ReadClock \/ Arm \/ Wake
Time == Tick \/ SimAdvance
Next == Emit \/ Time \/ RealFire \/ RealSend \/ OtherTimer \/ Stop

\* The emit goroutine runs, the runtime runs callbacks, time passes.  Stop and
\* the other users of a clock may never come.
Spec == Init /\ [][Next]_vars /\ WF_vars(Emit) /\ WF_vars(RealFire) /\ WF_vars(RealSend)
             /\ WF_vars(Time)
------------------------------------------------------------------------------
\* Types, and that no value leaves the width of an int64.
TypeOK ==
  /\ now \in 0 .. MaxTime
  /\ ToSet(timers) \subseteq Timers
  /\ chan \in [Timers -> BOOLEAN]
  /\ {flying, stop, sim} \subseteq BOOLEAN
  /\ wpc \in {"new", "refused", "out", "test", "read", "arm", "recv", "stopped", "done"}
  /\ {t0, until, slip} \subseteq 0 .. MaxInt
  /\ delay \in 0 .. MaxSlice

\* A record's deadline is the scaled distance from the base, rounded down, and
\* sticks at the largest time instead of wrapping into the past; every way to
\* write a speed gives the same one, so a schedule does not depend on it.
ScheduleIsExact ==
  /\ \A n, d \in Terms :
       /\ \A term \in {n, d, request[1], request[2]} : term > 0
       /\ n * request[2] = request[1] * d
       => NewSpeed(n, d) = speed
  /\ wpc \in {"out", "test", "read", "arm", "recv"} =>
       LET exact == t0 + ((stream[k] - stream[1]) * speed[2]) \div speed[1]
       IN  Deadline = IF exact > MaxInt THEN MaxInt ELSE exact

\* No record is released more than one window before its deadline, whether the
\* clock was read for it or an earlier reading is trusted.
NeverEarly == [][k' # k => Deadline <= addClamped(now, window)]_vars

\* A stopped run ends.  The clock is read at most once more, by a Wait already past
\* its test, so that only records covered by the release time it caches still go
\* out; and a Wait blocked on its timer wakes within a slice, no wake being lost
\* between the callback, the drain and the receive.
StopEndsWait == [](late <= 1) /\ (stop ~> wpc \in {"stopped", "done"})

\* Without a stop, a record whose deadline the clock reaches is released.
DueIsReleased ==
  \A i \in 1 .. 3 : (k = i /\ wpc = "recv" /\ Deadline <= MaxTime) ~> (k # i \/ stop)

=============================================================================
