-------------------------------- MODULE Server --------------------------------
(***************************************************************************)
(* cmd/replayd: the gRPC server around one replay run.  It composes the    *)
(* stream handlers and their context watchers, the goroutine of the run,   *)
(* main's shutdown, and Server.mu between them; the ring, the pacer and    *)
(* the merge are as coarse here as the server sees them (their own modules *)
(* have the detail): a record is written whole, a control request is       *)
(* answered between records or at the barrier, and a wait for the pacer    *)
(* ends when the record is due or the pacer is stopped.  A change of the   *)
(* list Ring.blocking is a load and a store, as in PreStart: whoever has   *)
(* found that the run does not emit yet changes the list itself, with      *)
(* nothing that keeps another goroutine from doing the same.               *)
(*                                                                         *)
(* The gRPC library is external: a stream's context is done when the       *)
(* client leaves or the handler returns, and GracefulStop refuses new      *)
(* calls and lets Serve return when the handlers have.                     *)
(***************************************************************************)
EXTENDS Integers

CONSTANTS
  Clients,      \* one call of Subscribe each
  Setups,       \* what a run of the server may be given, see Setup
  Capacity,     \* Config.Capacity
  Total         \* records in the stream

\* req: what each client asks for, to be a Block or a Drop subscriber, one of two speeds,
\* Live or Beginning.  leavers: the clients that may disconnect.  watchdog, manifest:
\* Config.WatchdogTimeout is positive, Config.ManifestPath names a file.  mayFail: the
\* constructors, the merge, its close and the manifest's write may report errors.
Setup == [req : [Clients -> [block : BOOLEAN, slow : BOOLEAN, live : BOOLEAN]],
          leavers : SUBSET Clients, watchdog : BOOLEAN, manifest : BOOLEAN,
          mayFail : BOOLEAN]

ASSUME ServerAssumption ==
  Setups \subseteq Setup /\ Capacity \in Nat \ {0, 1} /\ Total \in Nat

VARIABLES
  setup,     \* what this run was given
  main,      \* where main's run is
  files,     \* the readers are open
  mclosed,   \* calls of Merger.Close
  mu,        \* Server.mu: the goroutine that holds it, Nobody
  started,   \* Server.started
  speed,     \* Server.speed: it is the slow one
  mix,       \* Server.mix: clients counted
  runDone,   \* Server.runDone is closed
  runErr,    \* Server.runErr
  manifest,  \* the manifest on disk, NoManifest before it is written
  ctrl,      \* controlQueue: [started, closed]
  call,      \* per caller of Subscribe or Unsubscribe, where its request is
  blocking,  \* Ring.blocking, the slice as a set
  seen,      \* per caller, the slice loaded for its request and not stored back
  raced,     \* history: two changes of blocking have overlapped
  writeSeq,  \* Ring.writeSeq
  end,       \* Ring.endPlusOne
  stopped,   \* Pacer.stop
  emit,      \* where the run's goroutine is
  err,       \* run's error: RunDigest's, or else the merger's at its close
  hpc,       \* where its handler is
  cursor,    \* Subscriber.cursor
  gap,       \* it has been told of one
  canceled, evicted, \* the two stop flags
  left,      \* the client is gone
  wpc,       \* where the context watcher is
  status     \* what the handler returned

serverVars == <<main, files, mclosed, started, speed, mix, runDone, runErr, manifest, mu>>
ringVars == <<ctrl, call, blocking, seen, raced, writeSeq, end>>
runVars == <<stopped, emit, err>>
subVars == <<cursor, gap, canceled, evicted>>
callVars == <<setup, hpc, left, wpc, status>>
vars == <<serverVars, ringVars, runVars, subVars, callVars>>

req == setup.req
Watchdog == setup.watchdog
ManifestPath == setup.manifest
MayFail == setup.mayFail

Nobody == <<"nobody">>
Handler(c) == <<"handler", c>>
Watcher(c) == <<"watcher", c>>
\* The eviction of c, which the emit goroutine applies like a request to leave.
Eviction(c) == <<"eviction", c>>
Callers == {"handler", "watcher", "eviction"} \X Clients

NoManifest == [written |-> FALSE]

Init ==
  /\ main = "new" /\ files = FALSE /\ mclosed = 0
  /\ mu = Nobody /\ started = FALSE /\ speed = FALSE /\ mix = {}
  /\ runDone = FALSE /\ runErr = FALSE /\ manifest = NoManifest
  /\ ctrl = [started |-> FALSE, closed |-> FALSE]
  /\ call = [g \in Callers |-> "none"] /\ seen = [g \in Callers |-> {}]
  /\ blocking = {} /\ raced = FALSE /\ writeSeq = 0 /\ end = 0
  /\ stopped = FALSE /\ emit = "none" /\ err = FALSE
  /\ setup \in Setups /\ hpc = [c \in Clients |-> "idle"]
  /\ cursor = [c \in Clients |-> 0]
  /\ gap = [c \in Clients |-> FALSE]
  /\ canceled = [c \in Clients |-> FALSE] /\ evicted = [c \in Clients |-> FALSE]
  /\ left = [c \in Clients |-> FALSE]
  /\ wpc = [c \in Clients |-> "none"]
  /\ status = [c \in Clients |-> "none"]

------------------------------------------------------------------------------
(* The ring, as the server uses it *)

Block == {c \in Clients : req[c].block}
oldestIndex == IF writeSeq > Capacity THEN writeSeq - Capacity ELSE 0
\* The two extreme starts; module Ring has all four.
Start(c) == IF req[c].live THEN writeSeq ELSE 0
Lapped(c) == c \in Block /\ ~req[c].live /\ Start(c) < oldestIndex

\* A request of goroutine g is to join when g is a handler in attach, else to leave.
Joining(g) == g[1] = "handler" /\ hpc[g[2]] = "joining"
Put(g, where) == call' = [call EXCEPT ![g] = where]
Answered(g) == call[g] \in {"ok", "lapped", "closed"}

\* Those of Block clients that change the list themselves.
Changing == {g \in Callers : g[2] \in Block /\ call[g] \in {"resolve", "load", "store"}}

\* Subscribe and Unsubscribe under controlQueue.mu: queue the request, or find the
\* queue closed, or release the mutex and go on to change the list oneself.
Ask(g, join) ==
  \/ /\ ctrl.started /\ ~ctrl.closed
     /\ Put(g, "queued") /\ UNCHANGED raced
  \/ /\ ctrl.closed
     /\ Put(g, IF join THEN "closed" ELSE "ok") /\ UNCHANGED raced
  \/ /\ ~ctrl.started
     /\ Put(g, IF join THEN "resolve" ELSE "load")
     /\ raced' = (raced \/ (g[2] \in Block /\ Changing # {}))

\* subscribeNow and unsubscribeNow: a Drop client is on no list, and who is not found
\* there is not removed.
Listed(g) == g[2] \in (IF Joining(g) THEN Block ELSE blocking)
Changed(g) == IF Joining(g) THEN seen[g] \cup {g[2]} ELSE seen[g] \ {g[2]}
Answer(g) == IF g[1] = "eviction" THEN "none" ELSE "ok"

\* The list loaded for g's request by its own goroutine ("store") or by the emit
\* goroutine ("applying") ...
Load(g, where) ==
  \/ /\ Listed(g) /\ Put(g, where)
     /\ seen' = [seen EXCEPT ![g] = blocking]
  \/ ~Listed(g) /\ Put(g, Answer(g)) /\ UNCHANGED seen

\* ... and stored back.
Store(g) ==
  /\ blocking' = Changed(g) /\ Put(g, Answer(g))
  /\ seen' = [seen EXCEPT ![g] = {}]

\* applyControl takes what is queued and answers it one by one.  The order of the
\* queue is left open: no two requests are about the same join.
Busy == \E g \in Callers : call[g] \in {"taken", "applying"}
TakeQueued ==
  call' = [g \in Callers |-> IF call[g] = "queued" THEN "taken" ELSE call[g]]

\* SetEnd and closeControl: what is queued is answered too, a join with ErrClosed.
SetEnd ==
  /\ end' = writeSeq + 1
  /\ ctrl' = [ctrl EXCEPT !.closed = TRUE]
  /\ call' = [g \in Callers |-> IF call[g] # "queued" THEN call[g]
                                ELSE IF Joining(g) THEN "closed" ELSE "ok"]

------------------------------------------------------------------------------
(* main's run and NewServer *)

\* NewServer, then net.Listen.  Each of its steps may fail; what it has opened by
\* then is closed before it returns (closeAll, closeCursors, Merger.Close, Close).
NewServer ==
  /\ main = "new"
  /\ \/ main' = "serve" /\ files' = TRUE
     \/ MayFail /\ main' = "returned" /\ files' = FALSE
  /\ UNCHANGED <<mclosed, started, speed, mix, runDone, runErr, manifest, mu,
                 ringVars, runVars, subVars, callVars>>

\* A signal: GracefulStop refuses new calls from here on.
Signal ==
  /\ main = "serve" /\ main' = "drain"
  /\ UNCHANGED <<files, mclosed, started, speed, mix, runDone, runErr, manifest, mu,
                 ringVars, runVars, subVars, callVars>>

Returned(c) == hpc[c] \in {"idle", "done"}

\* Serve returns when GracefulStop is done: every handler has returned.
ServeReturns ==
  /\ main = "drain" /\ \A c \in Clients : Returned(c)
  /\ main' = "close"
  /\ UNCHANGED <<files, mclosed, started, speed, mix, runDone, runErr, manifest, mu,
                 ringVars, runVars, subVars, callVars>>

\* Close that releases the files itself, run or no run.
CloseReleases ==
  /\ main = "close" /\ mu = Nobody
  /\ main' = (IF started THEN "wait" ELSE "returned") /\ stopped' = started
  /\ mclosed' = mclosed + 1 /\ files' = FALSE
  /\ UNCHANGED <<started, speed, mix, runDone, runErr, manifest, mu,
                 ringVars, emit, err, subVars, callVars>>

\* Close reads the state under mu, then closes the merger of a run that was never
\* started, or stops the pacer.  No handler is left that could start one between.
Close ==
  /\ main = "close" /\ mu = Nobody
  /\ \/ /\ started /\ main' = "wait" /\ stopped' = TRUE
        /\ UNCHANGED <<files, mclosed>>
     \/ /\ ~started /\ main' = "returned" /\ UNCHANGED stopped
        /\ mclosed' = mclosed + 1 /\ files' = FALSE
  /\ UNCHANGED <<started, speed, mix, runDone, runErr, manifest, mu,
                 ringVars, emit, err, subVars, callVars>>

CloseReturns ==
  /\ main = "wait" /\ runDone /\ main' = "returned"
  /\ UNCHANGED <<files, mclosed, started, speed, mix, runDone, runErr, manifest, mu,
                 ringVars, runVars, subVars, callVars>>

------------------------------------------------------------------------------
(* The run's goroutine: run, RunDigest, writeRunManifest *)

EmitAt(a, b) == emit = a /\ emit' = b
NoServer == UNCHANGED serverVars /\ UNCHANGED callVars

StartEmitting ==
  /\ EmitAt("spawned", "control")
  /\ ctrl' = [ctrl EXCEPT !.started = TRUE]
  /\ raced' = (raced \/ Changing # {})
  /\ NoServer /\ UNCHANGED <<call, blocking, seen, writeSeq, end, stopped, err, subVars>>

\* applyControl between records.
BetweenRecords ==
  /\ EmitAt("control", "apply") /\ TakeQueued
  /\ NoServer
  /\ UNCHANGED <<ctrl, blocking, seen, raced, writeSeq, end, stopped, err, subVars>>

\* A request taken is applied: its start resolved, the list loaded, and stored back.
ApplyLoad ==
  /\ \A g \in Callers : call[g] # "applying"
  /\ \E g \in Callers :
       /\ call[g] = "taken"
       /\ \/ /\ Joining(g) /\ Lapped(g[2]) /\ Put(g, "lapped")
             /\ UNCHANGED <<seen, cursor>>
          \/ /\ Joining(g) /\ ~Lapped(g[2]) /\ Load(g, "applying")
             /\ cursor' = [cursor EXCEPT ![g[2]] = Start(g[2])]
          \/ ~Joining(g) /\ Load(g, "applying") /\ UNCHANGED cursor
  /\ NoServer /\ UNCHANGED <<ctrl, blocking, raced, writeSeq, end, runVars, gap, canceled, evicted>>
ApplyStore ==
  /\ \E g \in Callers : call[g] = "applying" /\ Store(g)
  /\ NoServer /\ UNCHANGED <<ctrl, raced, writeSeq, end, runVars, subVars>>

\* Then Merger.Next, which concerns nobody else, and Pacer.Wait: there is a record and
\* it is due;
RecordDue ==
  /\ writeSeq < Total /\ ~Busy /\ EmitAt("apply", "barrier")
  /\ NoServer /\ UNCHANGED <<ringVars, stopped, err, subVars>>

\* there is none, or the pacer was stopped, and the stream ends;
StreamEnd ==
  /\ writeSeq = Total \/ stopped
  /\ ~Busy /\ EmitAt("apply", "ended") /\ SetEnd
  /\ NoServer /\ UNCHANGED <<blocking, seen, raced, writeSeq, stopped, err, subVars>>

\* or RunDigest fails, for the merge's error or because Write refuses a blob.
RunFails ==
  /\ MayFail /\ ~Busy /\ EmitAt("apply", "failed") /\ err' = TRUE
  /\ NoServer /\ UNCHANGED <<ringVars, stopped, subVars>>

\* The barrier off by one: the slot of the record wanted next may be taken.
HoldingOffByOne == {c \in blocking : writeSeq >= Capacity /\ cursor[c] < writeSeq - Capacity}

\* Those that make the barrier wait.
Holding == {c \in blocking : writeSeq >= Capacity /\ cursor[c] <= writeSeq - Capacity}

\* Write after the barrier.
WriteRecord ==
  /\ Holding = {} /\ ~Busy /\ EmitAt("barrier", "control")
  /\ writeSeq' = writeSeq + 1
  /\ NoServer /\ UNCHANGED <<ctrl, call, blocking, seen, raced, end, stopped, err, subVars>>

\* A barrier that answers no request while it waits.
BarrierSpinDeaf ==
  /\ emit = "barrier" /\ Holding # {} /\ ~Busy
  /\ UNCHANGED vars

\* A spin of the barrier answers requests and may find the watchdog's time over.
BarrierSpin ==
  /\ emit = "barrier" /\ Holding # {} /\ ~Busy
  /\ \E g \in Callers : call[g] = "queued"
  /\ TakeQueued
  /\ NoServer /\ UNCHANGED <<ctrl, blocking, seen, raced, writeSeq, end, runVars, subVars>>
Evict ==
  /\ Watchdog /\ emit = "barrier" /\ ~Busy
  /\ \E c \in Holding :
       /\ \A d \in Holding : cursor[c] <= cursor[d]
       /\ evicted' = [evicted EXCEPT ![c] = TRUE] /\ Put(Eviction(c), "taken")
  /\ NoServer
  /\ UNCHANGED <<ctrl, blocking, seen, raced, writeSeq, end, runVars, cursor, gap, canceled>>

\* run on a failed RunDigest as RunDigest itself leaves it: no end for the ring.
EndFailedNever ==
  /\ EmitAt("failed", "ended")
  /\ NoServer /\ UNCHANGED <<ringVars, stopped, err, subVars>>

\* run ends the ring when RunDigest has failed.
EndFailed ==
  /\ EmitAt("failed", "ended")
  /\ SetEnd
  /\ NoServer /\ UNCHANGED <<blocking, seen, raced, writeSeq, stopped, err, subVars>>

\* runDone closed before the manifest and the error are there.
RunClosesMergerAndDone ==
  /\ EmitAt("ended", "manifest")
  /\ mclosed' = mclosed + 1 /\ files' = FALSE /\ runDone' = TRUE
  /\ UNCHANGED <<main, started, speed, mix, runErr, manifest, mu,
                 ringVars, stopped, err, subVars, callVars>>

\* The merger is closed, and its error is the run's if the run had none.
RunClosesMerger ==
  /\ EmitAt("ended", "manifest")
  /\ mclosed' = mclosed + 1 /\ files' = FALSE
  /\ err' \in {err, err \/ MayFail}
  /\ UNCHANGED <<main, started, speed, mix, runDone, runErr, manifest, mu,
                 ringVars, stopped, subVars, callVars>>

\* writeRunManifest, if a path was given: the mix is read under mu, and the write
\* may fail, which makes the run's error if it had none.  Then the deferred close.
WriteManifest ==
  /\ EmitAt("manifest", "done") /\ runDone' = TRUE
  /\ \/ ~ManifestPath /\ runErr' = err /\ UNCHANGED manifest
     \/ /\ ManifestPath /\ mu = Nobody /\ runErr' = err
        /\ manifest' = [written |-> TRUE, mix |-> mix, index |-> writeSeq, failed |-> err]
     \/ /\ ManifestPath /\ mu = Nobody /\ MayFail
        /\ runErr' = TRUE /\ UNCHANGED manifest
  /\ UNCHANGED <<main, files, mclosed, started, speed, mix, mu,
                 ringVars, stopped, err, subVars, callVars>>

------------------------------------------------------------------------------
(* A stream: Subscribe, attach, countSubscriber, and the context watcher *)

Go(c, pc) == hpc' = [hpc EXCEPT ![c] = pc]
End(c, what) == status' = [status EXCEPT ![c] = what]
Lock(g) == mu = Nobody /\ mu' = g
Unlock(g) == mu = g /\ mu' = Nobody
NoRun == UNCHANGED <<runVars, setup>>

Call(c) ==
  /\ main = "serve" /\ hpc[c] = "idle" /\ Go(c, "attach")
  /\ UNCHANGED <<serverVars, ringVars, subVars, left, wpc, status>> /\ NoRun

\* attach is a critical section of mu.  Another speed than the run's is refused.
SpeedMismatch(c) ==
  /\ hpc[c] = "attach" /\ mu = Nobody /\ started /\ req[c].slow # speed
  /\ Go(c, "done") /\ End(c, "refused")
  /\ UNCHANGED <<serverVars, ringVars, subVars, left, wpc>> /\ NoRun

\* Ring.Subscribe up to its answer, with mu held.
Attach(c) ==
  /\ hpc[c] = "attach" /\ Lock(Handler(c)) /\ (started => req[c].slow = speed)
  /\ Go(c, "joining") /\ Ask(Handler(c), TRUE)
  /\ UNCHANGED <<main, files, mclosed, started, speed, mix, runDone, runErr, manifest,
                 ctrl, blocking, seen, writeSeq, end, subVars, left, wpc, status>> /\ NoRun

\* subscribeNow on the handler's goroutine: the start is resolved.
JoinResolve(c) ==
  /\ hpc[c] = "joining" /\ call[Handler(c)] = "resolve"
  /\ Put(Handler(c), IF Lapped(c) THEN "lapped" ELSE "load")
  /\ cursor' = [cursor EXCEPT ![c] = Start(c)]
  /\ UNCHANGED <<serverVars, ctrl, blocking, seen, raced, writeSeq, end, gap, canceled, evicted,
                 hpc, left, wpc, status>> /\ NoRun

\* The list changed by goroutine g itself.
DirectLoad(g) ==
  /\ call[g] = "load" /\ Load(g, "store")
  /\ UNCHANGED <<serverVars, ctrl, blocking, raced, writeSeq, end, runVars, subVars, callVars>>
DirectStore(g) ==
  /\ call[g] = "store" /\ Store(g)
  /\ UNCHANGED <<serverVars, ctrl, raced, writeSeq, end, runVars, subVars, callVars>>
DirectChange(g) == DirectLoad(g) \/ DirectStore(g)

\* attach that forgets the mutex when the ring refuses the subscriber.
JoinAnsweredKeeps(c) ==
  /\ hpc[c] = "joining" /\ Answered(Handler(c)) /\ Put(Handler(c), "none")
  /\ \/ /\ call[Handler(c)] = "ok" /\ Unlock(Handler(c)) /\ Go(c, "count")
        /\ started' = TRUE /\ speed' = (IF started THEN speed ELSE req[c].slow)
        /\ emit' = (IF started THEN emit ELSE "spawned") /\ UNCHANGED status
     \/ /\ call[Handler(c)] # "ok" /\ Go(c, "done") /\ End(c, "refused")
        /\ UNCHANGED <<mu, started, speed, emit>>
  /\ UNCHANGED <<main, files, mclosed, mix, runDone, runErr, manifest, stopped, err,
                 ctrl, blocking, seen, raced, writeSeq, end, subVars, setup, left, wpc>>

\* attach with the ring's answer: the first subscriber to be accepted fixes the speed
\* and spawns the run.
JoinAnswered(c) ==
  /\ hpc[c] = "joining" /\ Answered(Handler(c))
  /\ Put(Handler(c), "none") /\ Unlock(Handler(c))
  /\ \/ /\ call[Handler(c)] = "ok" /\ Go(c, "count")
        /\ started' = TRUE /\ speed' = (IF started THEN speed ELSE req[c].slow)
        /\ emit' = (IF started THEN emit ELSE "spawned") /\ UNCHANGED status
     \/ /\ call[Handler(c)] # "ok" /\ Go(c, "done") /\ End(c, "refused")
        /\ UNCHANGED <<started, speed, emit>>
  /\ UNCHANGED <<main, files, mclosed, mix, runDone, runErr, manifest, stopped, err,
                 ctrl, blocking, seen, raced, writeSeq, end, subVars, setup, left, wpc>>

\* countSubscriber, under mu; then the watcher is spawned.
CountSubscriber(c) ==
  /\ hpc[c] = "count" /\ mu = Nobody /\ Go(c, "stream")
  /\ mix' = mix \cup {c}
  /\ wpc' = [wpc EXCEPT ![c] = "watch"]
  /\ UNCHANGED <<main, files, mclosed, started, speed, runDone, runErr, manifest, mu,
                 ringVars, subVars, left, status>> /\ NoRun

\* Next delivers, after a gap when the client was lapped, and Send passes it on.
\* A Send to a client that has left fails and ends the handler.
Deliver(c) ==
  /\ hpc[c] = "stream" /\ ~evicted[c] /\ ~canceled[c] /\ cursor[c] < writeSeq
  /\ LET at == IF cursor[c] < oldestIndex THEN oldestIndex ELSE cursor[c] IN
     /\ gap' = [gap EXCEPT ![c] = @ \/ at # cursor[c]]
     /\ cursor' = [cursor EXCEPT ![c] = at + 1]
  /\ \/ UNCHANGED <<hpc, status>>
     \/ left[c] /\ Go(c, "leave") /\ End(c, "context")
  /\ UNCHANGED <<serverVars, ringVars, canceled, evicted, left, wpc>> /\ NoRun

\* The end tested without the cursor: a slow client loses what is still in the ring.
StreamEndsEarly(c) ==
  /\ hpc[c] = "stream" /\ Go(c, "leave")
  /\ \/ evicted[c] /\ End(c, "aborted")
     \/ ~evicted[c] /\ canceled[c] /\ End(c, IF left[c] THEN "context" ELSE "aborted")
     \/ ~evicted[c] /\ ~canceled[c] /\ end # 0 /\ End(c, "ok")
  /\ UNCHANGED <<serverVars, ringVars, subVars, left, wpc>> /\ NoRun

\* Next returns an error or the end, deliveryStatus makes a status of it, and the
\* handler's deferred call unsubscribes.
StreamEnds(c) ==
  /\ hpc[c] = "stream" /\ Go(c, "leave")
  /\ \/ evicted[c] /\ End(c, "aborted")
     \/ ~evicted[c] /\ canceled[c] /\ End(c, IF left[c] THEN "context" ELSE "aborted")
     \/ ~evicted[c] /\ ~canceled[c] /\ end # 0 /\ cursor[c] >= end - 1 /\ End(c, "ok")
  /\ UNCHANGED <<serverVars, ringVars, subVars, left, wpc>> /\ NoRun

Unsubscribe(c) ==
  /\ hpc[c] = "leave" /\ Go(c, "leaving") /\ Ask(Handler(c), FALSE)
  /\ UNCHANGED <<serverVars, ctrl, blocking, seen, writeSeq, end, subVars,
                 left, wpc, status>> /\ NoRun

\* Unsubscribe's deferred Cancel.
Cancel(g) ==
  /\ Answered(g) /\ Put(g, "none")
  /\ canceled' = [canceled EXCEPT ![g[2]] = TRUE]

HandlerReturns(c) ==
  /\ hpc[c] = "leaving" /\ Go(c, "done") /\ Cancel(Handler(c))
  /\ UNCHANGED <<serverVars, ctrl, blocking, seen, raced, writeSeq, end, cursor, gap, evicted,
                 left, wpc, status>> /\ NoRun

\* The client goes away; nobody looks before it streams.
Disconnect(c) ==
  /\ c \in setup.leavers /\ hpc[c] = "stream" /\ ~left[c]
  /\ left' = [left EXCEPT ![c] = TRUE]
  /\ UNCHANGED <<serverVars, ringVars, subVars, hpc, wpc, status>> /\ NoRun

ContextDone(c) == left[c] \/ hpc[c] = "done"

WatcherUnsubscribes(c) ==
  /\ wpc[c] = "watch" /\ ContextDone(c)
  /\ wpc' = [wpc EXCEPT ![c] = "leaving"] /\ Ask(Watcher(c), FALSE)
  /\ UNCHANGED <<serverVars, ctrl, blocking, seen, writeSeq, end, subVars,
                 hpc, left, status>> /\ NoRun

WatcherCancels(c) ==
  /\ wpc[c] = "leaving"
  /\ wpc' = [wpc EXCEPT ![c] = "done"] /\ Cancel(Watcher(c))
  /\ UNCHANGED <<serverVars, ctrl, blocking, seen, raced, writeSeq, end, cursor, gap, evicted,
                 hpc, left, status>> /\ NoRun

------------------------------------------------------------------------------
RunSteps ==
  \/ StartEmitting \/ BetweenRecords \/ ApplyLoad \/ ApplyStore \/ RecordDue \/ StreamEnd
  \/ RunFails \/ WriteRecord \/ BarrierSpin \/ EndFailed
  \/ RunClosesMerger \/ WriteManifest

MainSteps == ServeReturns \/ Close \/ CloseReturns

HandlerSteps(c) ==
  \/ SpeedMismatch(c) \/ Attach(c) \/ JoinResolve(c) \/ DirectChange(Handler(c))
  \/ JoinAnswered(c) \/ CountSubscriber(c) \/ Deliver(c) \/ StreamEnds(c)
  \/ Unsubscribe(c) \/ HandlerReturns(c)

WatcherSteps(c) ==
  WatcherUnsubscribes(c) \/ DirectChange(Watcher(c)) \/ WatcherCancels(c)

Next ==
  \/ NewServer \/ Signal \/ MainSteps \/ RunSteps \/ Evict
  \/ \E c \in Clients : Call(c) \/ Disconnect(c) \/ HandlerSteps(c) \/ WatcherSteps(c)

Spec == Init /\ [][Next]_vars

\* Every goroutine is scheduled, a client reads what it is sent or leaves, and the wall
\* clock moves, so that a watchdog finds its time over.  One formula says it for all of
\* them: no behaviour has infinitely many of these steps, so it does not stop before
\* none of them is enabled.  Calls, signals and disconnections may never come.
Fairness ==
  WF_vars(\/ RunSteps \/ MainSteps \/ Evict
          \/ \E c \in Clients : HandlerSteps(c) \/ WatcherSteps(c))

FairSpec == Spec /\ Fairness

------------------------------------------------------------------------------
(* What is checked *)

ServerTypes ==
  /\ main \in {"new", "serve", "drain", "close", "wait", "returned"}
  /\ files \in BOOLEAN /\ mclosed \in 0 .. 1
  /\ mu \in {Nobody} \cup {Handler(c) : c \in Clients}
  /\ started \in BOOLEAN /\ speed \in BOOLEAN /\ mix \subseteq Clients
  /\ runDone \in BOOLEAN /\ runErr \in BOOLEAN
  /\ manifest \in {NoManifest} \cup
       [written : {TRUE}, mix : SUBSET Clients, index : 0 .. Total, failed : BOOLEAN]

CallPlaces == {"none", "queued", "taken", "applying", "resolve", "load", "store",
               "ok", "lapped", "closed"}

RingTypes ==
  /\ ctrl \in [started : BOOLEAN, closed : BOOLEAN]
  /\ call \in [Callers -> CallPlaces]
  /\ blocking \subseteq Block /\ seen \in [Callers -> SUBSET Block] /\ raced \in BOOLEAN
  /\ writeSeq \in 0 .. Total /\ end \in {0, writeSeq + 1}

RunTypes ==
  /\ stopped \in BOOLEAN /\ err \in BOOLEAN
  /\ emit \in {"none", "spawned", "control", "apply", "barrier", "failed", "ended",
                "manifest", "done"}

HandlerPlaces == {"idle", "attach", "joining", "count", "stream", "leave", "leaving", "done"}

StreamTypes ==
  /\ setup \in Setups
  /\ hpc \in [Clients -> HandlerPlaces]
  /\ wpc \in [Clients -> {"none", "watch", "leaving", "done"}]
  /\ status \in [Clients -> {"none", "ok", "context", "aborted", "refused"}]
  /\ cursor \in [Clients -> 0 .. Total]
  /\ gap \in [Clients -> BOOLEAN] /\ canceled \in [Clients -> BOOLEAN]
  /\ evicted \in [Clients -> BOOLEAN] /\ left \in [Clients -> BOOLEAN]

\* Every variable keeps its type, the mutex is held exactly inside attach, and the
\* run is there once the server is started (Server, Ring, controlQueue).
TypeOK ==
  /\ ServerTypes /\ RingTypes /\ RunTypes /\ StreamTypes
  /\ \A c \in Clients : mu = Handler(c) <=> hpc[c] = "joining"
  /\ emit = "none" <=> ~started

\* The files are open as long as the run may read them, the merger is closed once,
\* and when main returns they are closed: whatever NewServer failed at, however
\* the run ended, and whenever the signal came (run, Close, main).
FilesOutliveTheRun ==
  /\ emit \in {"spawned", "control", "apply", "barrier", "failed"} => files
  /\ mclosed <= 1
  /\ main = "returned" => ~files

\* What the client is told at the end of its stream is so: OK only after the last
\* record; the context's status only if it left; Aborted only if the watchdog evicted
\* it (Next, deliveryStatus).  A Block client that stayed and was told OK has missed
\* nothing, unless two unlocked changes of Ring.blocking overlapped before the run
\* emitted (subscriber.go:161, lifecycle.go:118).
StatusIsTrue ==
  \A c \in Clients :
    /\ status[c] = "ok" =>
         end # 0 /\ cursor[c] >= end - 1 /\ (c \in Block /\ gap[c] => left[c] \/ raced)
    /\ status[c] = "context" => left[c]
    /\ status[c] = "aborted" => evicted[c]

\* When Close has returned after a run, it reports every failure of the run; a manifest
\* on disk tells the run's end and agrees with what Close reports; and if a manifest
\* was asked for and is not there, Close reports that (run, writeRunManifest, Close).
CloseReportsTheRun ==
  main = "returned" /\ started =>
    /\ err => runErr
    /\ manifest.written =>
         ManifestPath /\ manifest.failed = runErr /\ manifest.index + 1 = end
    /\ ManifestPath /\ ~manifest.written => runErr

\* The barrier may wait for ever for a subscriber that an overlapped change of the list
\* has stored back, unless the watchdog evicts it.
Stuck == raced /\ ~Watchdog

\* Every call of Subscribe returns, with the run, with its client, or refused; without
\* a watchdog, unless two unlocked changes of Ring.blocking overlapped.
StreamsEnd == \A c \in Clients : (hpc[c] = "attach") ~> (hpc[c] = "done" \/ Stuck)

\* After a signal the command comes to its end, with the same exception.
ShutdownCompletes == (main = "drain") ~> (main = "returned" \/ Stuck)

\* manifest.go says of SubscriberMix that it is "how many subscribers of each kind
\* attached over the run's life": everyone the ring accepted is in it.
ManifestCountsEveryone ==
  manifest.written =>
    \A c \in Clients : hpc[c] \in {"count", "stream", "leave", "leaving"} => c \in manifest.mix

==============================================================================
