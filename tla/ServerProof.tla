---------------------------- MODULE ServerProof -----------------------------
(***************************************************************************)
(* The safety of the server for every number of clients, whatever they ask *)
(* for, every capacity and stream, with and without the watchdog, and      *)
(* whatever fails: what is open while the run reads it, what a client is   *)
(* told, what Close reports.                                               *)
(***************************************************************************)
EXTENDS Server, TLAPS

USE DEF req, Watchdog, ManifestPath, MayFail

Closed == {"ended", "manifest", "done"}
Reading == {"spawned", "control", "apply", "barrier", "failed"}

\* What TypeOK says beyond the types.
Agree ==
  /\ \A c \in Clients : mu = Handler(c) <=> hpc[c] = "joining"
  /\ emit = "none" <=> ~started

\* Where main is and where the run is: main waits for the run before it returns,
\* and from Close on no handler is there that could start one.
Life ==
  /\ runDone <=> emit = "done"
  /\ main = "new" => ~started /\ \A c \in Clients : hpc[c] = "idle"
  /\ main \in {"close", "wait", "returned"} => \A c \in Clients : Returned(c)
  /\ main = "wait" => started
  /\ main = "returned" /\ started => emit = "done"

\* Who has closed the merger.
Merger ==
  /\ emit \in Reading \cup {"ended"} => files /\ mclosed = 0
  /\ emit \in {"manifest", "done"} => ~files /\ mclosed = 1
  /\ emit = "none" /\ main \in {"serve", "drain", "close"} => files /\ mclosed = 0
  /\ emit = "none" /\ main = "new" => ~files /\ mclosed = 0
  /\ emit = "none" /\ main = "returned" => ~files

\* The ring ends with the run; the manifest tells that end, and Close the run's error.
Ending ==
  /\ ctrl.started <=> emit \notin {"none", "spawned"}
  /\ ctrl.closed <=> emit \in Closed
  /\ ~ctrl.started => writeSeq = 0
  /\ emit = "barrier" => writeSeq < Total
  /\ end = IF ctrl.closed THEN writeSeq + 1 ELSE 0
  /\ manifest.written =>
       emit = "done" /\ ManifestPath /\ manifest.index = writeSeq /\ manifest.failed = runErr
  /\ emit = "done" => (err => runErr) /\ (ManifestPath /\ ~manifest.written => runErr)

\* Whose request may be where.
Places ==
  \A g \in Callers :
    /\ g[1] = "handler" /\ hpc[g[2]] \notin {"joining", "leaving"} => call[g] = "none"
    /\ g[1] = "watcher" /\ wpc[g[2]] # "leaving" => call[g] = "none"
    /\ g[1] = "eviction" => call[g] = "none" \/ evicted[g[2]]
    /\ call[g] \in {"taken", "applying"} => emit \in {"apply", "barrier"}
    /\ call[g] \in {"store", "applying"} => g[2] \in Block
    /\ \A h \in Callers : call[g] = "applying" /\ call[h] = "applying" => g = h

\* As long as no two changes of Ring.blocking have overlapped: one goroutine at most is
\* changing it itself, none once the run emits, and who is about to store it has seen
\* what is there.
Apart ==
  ~raced =>
    /\ \A g, h \in Changing : g = h
    /\ ctrl.started => Changing = {}
    /\ \A g \in Callers : call[g] \in {"store", "applying"} => seen[g] = blocking

\* The ring has accepted c, and its handler has not ended.
Accepted(c) ==
  hpc[c] \in {"count", "stream"} \/ (hpc[c] = "joining" /\ call[Handler(c)] = "ok")

\* The ring is not more than its capacity ahead of c.
InReach(c) == cursor[c] + Capacity >= writeSeq

\* So long, a Block client leaves the barrier only when it is gone or evicted, and all
\* that the barrier waits for or is about to wait for are in reach.
Barrier ==
  ~raced =>
    /\ \A c \in Block : Accepted(c) => c \in blocking \/ left[c] \/ evicted[c]
    /\ \A c \in blocking : InReach(c)
    /\ \A g \in Callers : call[g] = "applying" /\ Joining(g) => InReach(g[2])

\* What is so of a client before and after its handler decides on a status.
Streams ==
  \A c \in Clients :
    /\ status[c] # "none" => hpc[c] \in {"leave", "leaving", "done"}
    /\ canceled[c] => left[c] \/ hpc[c] = "done"
    /\ wpc[c] = "leaving" => left[c] \/ hpc[c] = "done"
    /\ gap[c] /\ c \in Block => left[c] \/ raced
    /\ hpc[c] \in {"idle", "attach", "joining", "count"} => wpc[c] = "none"

ServerInv ==
  /\ TypeOK /\ Life /\ Merger /\ Ending
  /\ Places /\ Apart /\ Barrier /\ Streams /\ StatusIsTrue
-----------------------------------------------------------------------------
\* A caller is one of the three goroutines that may ask for a client.
LEMMA Kinds ==
  /\ \A c \in Clients :
       /\ Handler(c) \in Callers /\ Watcher(c) \in Callers /\ Eviction(c) \in Callers
       /\ Handler(c)[1] = "handler" /\ Handler(c)[2] = c
       /\ Watcher(c)[1] = "watcher" /\ Watcher(c)[2] = c
       /\ Eviction(c)[1] = "eviction" /\ Eviction(c)[2] = c
       /\ Handler(c) # Nobody
       /\ \A d \in Clients : Handler(c) = Handler(d) => c = d
  /\ \A g \in Callers :
       /\ g[2] \in Clients
       /\ \/ g[1] = "handler" /\ g = Handler(g[2])
          \/ g[1] = "watcher" /\ g = Watcher(g[2])
          \/ g[1] = "eviction" /\ g = Eviction(g[2])
BY DEF Handler, Watcher, Eviction, Nobody, Callers

\* The list loaded for a request: who was not on it is answered, and who joins is in
\* reach of the ring.
LEMMA LoadKeeps ==
  ASSUME ServerInv, NEW g \in Callers, NEW where \in {"store", "applying"}, Load(g, where),
         call[g] = IF where = "store" THEN "load" ELSE "taken",
         where = "applying" => \A h \in Callers : call[h] # "applying",
         cursor' \in [Clients -> 0 .. Total],
         \A c \in Clients :
           cursor'[c] = cursor[c] \/ (where = "applying" /\ Joining(g) /\ c = g[2]),
         where = "applying" /\ Joining(g) /\ g[2] \in Block => InReach(g[2])',
         UNCHANGED <<ctrl, blocking, raced, writeSeq, end, setup, hpc, wpc, left, evicted, emit>>
  PROVE  RingTypes' /\ Places' /\ Apart' /\ Barrier'
<1> USE Kinds DEF ServerInv, TypeOK, CallPlaces, HandlerPlaces
<1>1. Block' = Block /\ \A h \in Callers : Joining(h)' <=> Joining(h)
  BY DEF Block, Joining
<1>2. /\ call' \in [Callers -> CallPlaces]
      /\ \A h \in Callers : h # g => call'[h] = call[h]
      /\ call'[g] = where \/ (~Listed(g) /\ call'[g] = Answer(g))
  BY DEF Load, Put, Answer, RingTypes
<1>3. call'[g] = where => g[2] \in Block /\ seen' = [seen EXCEPT ![g] = blocking]
  BY DEF Load, Put, Answer, Listed, RingTypes
<1>4. call'[g] # where => seen' = seen /\ call'[g] \in {"none", "ok"}
  BY <1>2 DEF Load, Put, Answer, RingTypes
<1>5. RingTypes'
  <2>1. seen' \in [Callers -> SUBSET Block]
    BY <1>3, <1>4 DEF RingTypes
  <2> QED BY <1>1, <1>2, <2>1 DEF RingTypes
<1>6. Places'
  BY <1>1, <1>2, <1>3, <1>4 DEF Places, Answer
<1>7. Changing' \subseteq Changing
  BY <1>1, <1>2, <1>4 DEF Changing
<1>8. Apart'
  <2>1. ASSUME ~raced, NEW h \in Callers, call'[h] \in {"store",
        "applying"} PROVE seen'[h] = blocking
    BY <1>2, <1>3, <1>4, <2>1 DEF Apart, RingTypes
  <2> QED BY <1>7, <2>1 DEF Apart
<1>9. Barrier'
  <2>1. ASSUME ~raced, NEW c \in Block,
        Accepted(c)' PROVE c \in blocking \/ left[c] \/ evicted[c]
    <3>1. c \in Clients
      BY DEF Block
    <3>2. CASE Handler(c) = g /\ hpc[c] = "joining"
      <4>1. Joining(g) /\ c = g[2] /\ call'[g] = "ok"
        BY <2>1, <3>1, <3>2 DEF Joining, Accepted
      <4>2. ~Listed(g)
        BY <1>2, <4>1
      <4> QED BY <4>1, <4>2 DEF Listed
    <3>3. CASE ~(Handler(c) = g /\ hpc[c] = "joining")
      BY <1>2, <2>1, <3>1, <3>3 DEF Accepted, Barrier
    <3> QED BY <3>2, <3>3
  <2>2. ASSUME ~raced, NEW c \in blocking PROVE InReach(c)'
    BY <2>2 DEF Barrier, InReach, RingTypes, Block
  <2>3. ASSUME ~raced, NEW h \in Callers, call'[h] = "applying", Joining(h) PROVE InReach(h[2])'
    <3>1. CASE h = g
      BY <1>2, <1>3, <2>3, <3>1 DEF Answer
    <3>2. CASE h # g
      <4>1. call[h] = "applying" /\ where = "store"
        BY <1>2, <2>3, <3>2
      <4>2. cursor'[h[2]] = cursor[h[2]]
        BY <4>1
      <4> QED BY <2>3, <4>1, <4>2 DEF Barrier, InReach
    <3> QED BY <3>1, <3>2
  <2> QED BY <1>1, <2>1, <2>2, <2>3 DEF Barrier
<1> QED BY <1>5, <1>6, <1>8, <1>9

\* The list stored back: without an overlap it differs by the one client.
LEMMA StoreKeeps ==
  ASSUME ServerInv, NEW g \in Callers, call[g] \in {"store", "applying"}, Store(g),
         UNCHANGED <<ctrl, raced, writeSeq, end, setup, hpc, wpc, left, evicted, cursor, emit>>
  PROVE  RingTypes' /\ Places' /\ Apart' /\ Barrier'
<1> USE Kinds DEF ServerInv, TypeOK, CallPlaces, HandlerPlaces
<1>1. Block' = Block /\ \A h \in Callers : Joining(h)' <=> Joining(h)
  BY DEF Block, Joining
<1>2. /\ call' \in [Callers -> CallPlaces]
      /\ \A h \in Callers : h # g => call'[h] = call[h]
      /\ call'[g] = Answer(g) /\ call'[g] \in {"none", "ok"}
  BY DEF Store, Put, Answer, RingTypes
<1>3. seen' \in [Callers -> SUBSET Block] /\ \A h \in Callers : h # g => seen'[h] = seen[h]
  BY DEF Store, RingTypes
<1>4. g[2] \in Block
  BY DEF Places
<1>5. blocking' = Changed(g) /\ blocking' \subseteq Block
  BY <1>4 DEF Store, Changed, RingTypes
<1>6. RingTypes'
  BY <1>1, <1>2, <1>3, <1>5 DEF RingTypes
<1>7. Places'
  BY <1>1, <1>2 DEF Places, Answer
<1>8. Changing' \subseteq Changing
  BY <1>1, <1>2 DEF Changing
<1>9. ASSUME ~raced, NEW h \in Callers, call[h] \in {"store", "applying"} PROVE h = g
  <2>1. \A k \in Callers : call[k] = "store" => k \in Changing
    BY DEF Changing, Places
  <2>2. \A k \in Callers : call[k] = "applying" => ctrl.started
    BY DEF Places, Ending
  <2>3. CASE call[g] = "store"
    BY <1>9, <2>1, <2>2, <2>3 DEF Apart
  <2>4. CASE call[g] = "applying"
    BY <1>9, <2>1, <2>2, <2>4 DEF Apart, Places
  <2> QED BY <2>3, <2>4
<1>10. Apart'
  BY <1>2, <1>8, <1>9 DEF Apart
<1>11. ~raced => seen[g] = blocking
  BY DEF Apart
<1>12. Barrier'
  <2>1. ASSUME ~raced, NEW c \in Block,
        Accepted(c)' PROVE c \in blocking' \/ left[c] \/ evicted[c]
    <3>1. c \in Clients
      BY DEF Block
    <3>2. CASE Joining(g) /\ c = g[2]
      BY <1>5, <3>2 DEF Changed
    <3>3. CASE Joining(g) /\ c # g[2]
      <4>1. Accepted(c)
        BY <1>2, <2>1, <3>1, <3>3 DEF Accepted
      <4> QED BY <1>5, <1>11, <2>1, <3>3, <4>1 DEF Barrier, Changed
    <3>4. CASE ~Joining(g) /\ c # g[2]
      <4>1. Accepted(c)
        BY <1>2, <2>1, <3>1, <3>4 DEF Accepted
      <4> QED BY <1>5, <1>11, <2>1, <3>4, <4>1 DEF Barrier, Changed
    <3>5. CASE ~Joining(g) /\ c = g[2]
      <4>1. hpc[c] \in {"joining", "count", "stream"}
        BY <2>1 DEF Accepted
      <4>2. CASE g[1] = "handler"
        BY <3>1, <3>5, <4>1, <4>2 DEF Joining, Places
      <4>3. CASE g[1] = "watcher"
        BY <3>1, <3>5, <4>1, <4>3 DEF Places, Streams
      <4>4. CASE g[1] = "eviction"
        BY <3>1, <3>5, <4>4 DEF Places
      <4> QED BY <4>2, <4>3, <4>4
    <3> QED BY <3>2, <3>3, <3>4, <3>5
  <2>2. ASSUME ~raced, NEW c \in blocking' PROVE InReach(c)
    <3>1. CASE c \in blocking
      BY <2>2, <3>1 DEF Barrier
    <3>2. CASE c \notin blocking
      <4>1. Joining(g) /\ c = g[2]
        BY <1>5, <1>11, <2>2, <3>2 DEF Changed
      <4>2. CASE call[g] = "applying"
        BY <2>2, <4>1, <4>2 DEF Barrier
      <4>3. CASE call[g] = "store"
        <5>1. g \in Changing
          BY <1>4, <4>3 DEF Changing
        <5>2. writeSeq = 0
          BY <2>2, <5>1 DEF Apart, Ending
        <5>3. cursor[c] \in Nat /\ Capacity \in Nat
          BY <4>1, ServerAssumption DEF StreamTypes
        <5> QED BY <5>2, <5>3 DEF InReach
      <4> QED BY <4>2, <4>3
    <3> QED BY <3>1, <3>2
  <2>3. ASSUME ~raced, NEW h \in Callers, call'[h] = "applying" PROVE FALSE
    BY <1>2, <1>9, <2>3
  <2> QED BY <1>1, <2>1, <2>2, <2>3 DEF Barrier, InReach
<1> QED BY <1>6, <1>7, <1>10, <1>12

\* A request is made: in the queue, answered by its end, or in the caller's own hands,
\* which is an overlap if someone else has one there too.
LEMMA AskKeeps ==
  ASSUME ServerInv, NEW g \in Callers, NEW join \in BOOLEAN, Ask(g, join), call[g] = "none",
         g[1] \in {"handler", "watcher"},
         \A c \in Clients \ {g[2]} : hpc'[c] = hpc[c] /\ wpc'[c] = wpc[c],
         g[1] = "handler" => hpc'[g[2]] = (IF join THEN "joining" ELSE "leaving") /\ wpc' = wpc,
         g[1] = "watcher" => hpc' = hpc /\ wpc'[g[2]] = "leaving" /\ ~join,
         UNCHANGED <<ctrl, blocking, seen, writeSeq, end, setup, cursor, left, evicted, emit>>
  PROVE  RingTypes' /\ Places' /\ Apart' /\ Barrier' /\ (raced => raced')
<1> USE Kinds DEF ServerInv, TypeOK, CallPlaces, HandlerPlaces
<1>1. /\ call' \in [Callers -> CallPlaces]
      /\ \A h \in Callers : h # g => call'[h] = call[h]
      /\ call'[g] \in (IF join THEN {"queued", "closed", "resolve"} ELSE {"queued", "ok",
         "load"})
  BY DEF Ask, Put, RingTypes
<1>2. raced' \in BOOLEAN /\ (raced => raced')
  BY DEF Ask, RingTypes
<1>3. Block' = Block
  BY DEF Block
<1>4. RingTypes'
  BY <1>1, <1>2, <1>3 DEF RingTypes
<1>5. Places'
  BY <1>1, <1>3 DEF Places
<1>6. Apart'
  <2>1. CASE Changing' = Changing
    BY <1>1, <1>2, <2>1 DEF Apart
  <2>2. CASE Changing' # Changing
    <3>1. call'[g] \in {"resolve", "load"} /\ g[2] \in Block
      BY <1>1, <1>3, <2>2 DEF Changing
    <3>2. ~ctrl.started /\ (~raced' => Changing = {})
      <4>1. call' # [call EXCEPT ![g] = "queued"]
        BY <3>1 DEF RingTypes
      <4>2. call' # [call EXCEPT ![g] = IF join THEN "closed" ELSE "ok"]
        BY <3>1 DEF RingTypes
      <4>3. ~ctrl.started /\ raced' = (raced \/ (g[2] \in Block /\ Changing # {}))
        BY <4>1, <4>2 DEF Ask, Put
      <4> QED BY <3>1, <4>3, Zenon
    <3>3. Changing = {} => Changing' \subseteq {g}
      BY <1>1, <1>3 DEF Changing
    <3>4. \A h \in Callers : call'[h] \in {"store", "applying"} => call[h] = call'[h]
      BY <1>1, <3>1
    <3> QED BY <1>2, <3>2, <3>3, <3>4 DEF Apart
  <2> QED BY <2>1, <2>2
<1>7. Barrier'
  <2>1. \A c \in Clients : Accepted(c)' => Accepted(c)
    BY <1>1 DEF Accepted
  <2>2. \A h \in Callers : call'[h] = "applying" => call[h] = "applying" /\ h # g
    BY <1>1
  <2>3. \A h \in Callers : h # g /\ Joining(h)' => Joining(h)
    BY DEF Joining
  <2> QED BY <1>2, <1>3, <2>1, <2>2, <2>3 DEF Barrier, InReach, Block
<1> QED BY <1>2, <1>4, <1>5, <1>6, <1>7

\* Requests are taken from the queue, by the emit goroutine.
LEMMA TakeKeeps ==
  ASSUME ServerInv, TakeQueued, emit' \in {"apply", "barrier"},
         UNCHANGED <<ctrl, blocking, seen, raced, writeSeq, end, setup, hpc, wpc, cursor, left,
                     evicted>>
  PROVE  RingTypes' /\ Places' /\ Apart' /\ Barrier'
<1> USE Kinds DEF ServerInv, TypeOK, CallPlaces, HandlerPlaces
<1>1. /\ call' \in [Callers -> CallPlaces]
      /\ \A g \in Callers : call'[g] = call[g] \/ (call[g] = "queued" /\ call'[g] = "taken")
  BY DEF TakeQueued, RingTypes
<1>2. Block' = Block /\ \A g \in Callers : Joining(g)' <=> Joining(g)
  BY DEF Block, Joining
<1>3. RingTypes'
  BY <1>1, <1>2 DEF RingTypes
<1>4. Places'
  BY <1>1, <1>2 DEF Places
<1>5. Changing' = Changing
  BY <1>1, <1>2 DEF Changing
<1>6. Apart'
  BY <1>1, <1>5 DEF Apart
<1>7. Barrier'
  <2>1. \A c \in Clients : Accepted(c)' => Accepted(c)
    BY <1>1 DEF Accepted
  <2> QED BY <1>1, <1>2, <2>1 DEF Barrier, InReach, Block
<1> QED BY <1>3, <1>4, <1>6, <1>7

\* The end of the ring answers who is queued, and accepts nobody.
LEMMA EndKeeps ==
  ASSUME ServerInv, SetEnd, ~Busy, ctrl.started, emit' \in Closed,
         UNCHANGED <<blocking, seen, raced, writeSeq, setup, hpc, wpc, cursor, left, evicted>>
  PROVE  /\ RingTypes' /\ Places' /\ Apart' /\ Barrier'
         /\ ctrl'.started /\ ctrl'.closed /\ end' = writeSeq + 1
<1> USE Kinds DEF ServerInv, TypeOK, CallPlaces, HandlerPlaces
<1>1. /\ call' \in [Callers -> CallPlaces]
      /\ \A g \in Callers :
           \/ call'[g] = call[g]
           \/ call[g] = "queued" /\ call'[g] = (IF Joining(g) THEN "closed" ELSE "ok")
  BY DEF SetEnd, RingTypes
<1>2. Block' = Block /\ \A g \in Callers : Joining(g)' <=> Joining(g)
  BY DEF Block, Joining
<1>3. ctrl' \in [started : BOOLEAN, closed : BOOLEAN] /\ ctrl'.started /\ ctrl'.closed
  BY DEF SetEnd, RingTypes
<1>4. end' = writeSeq + 1
  BY DEF SetEnd
<1>5. RingTypes'
  BY <1>1, <1>2, <1>3, <1>4 DEF RingTypes
<1>6. \A g \in Callers : call'[g] \notin {"taken", "applying"}
  BY <1>1 DEF Busy
<1>7. Places'
  BY <1>1, <1>2, <1>6 DEF Places
<1>8. Changing' = Changing
  BY <1>1, <1>2 DEF Changing
<1>9. Apart'
  BY <1>1, <1>3, <1>8 DEF Apart
<1>10. Barrier'
  <2>1. \A c \in Clients : Accepted(c)' => Accepted(c)
    BY <1>1 DEF Accepted, Joining
  <2> QED BY <1>2, <1>6, <2>1 DEF Barrier, InReach, Block
<1> QED BY <1>3, <1>4, <1>5, <1>7, <1>9, <1>10

\* An answer is taken by the goroutine that waits for it.
LEMMA TakenKeeps ==
  ASSUME ServerInv, NEW g \in Callers, g[1] \in {"handler", "watcher"}, Answered(g), Put(g,
     "none"),
         \A c \in Clients \ {g[2]} : hpc'[c] = hpc[c] /\ wpc'[c] = wpc[c],
         g[1] = "handler" => wpc' = wpc /\ hpc'[g[2]] \in {"count", "done"},
         g[1] = "watcher" => hpc' = hpc,
         hpc'[g[2]] = "count" => Accepted(g[2]),
         emit' = emit \/ {emit, emit'} \cap {"apply", "barrier"} = {},
         UNCHANGED <<ctrl, blocking, seen, raced, writeSeq, end, setup, cursor, left, evicted>>
  PROVE  RingTypes' /\ Places' /\ Apart' /\ Barrier'
<1> USE Kinds DEF ServerInv, TypeOK, CallPlaces, HandlerPlaces
<1>1. /\ call' \in [Callers -> CallPlaces]
      /\ \A h \in Callers : h # g => call'[h] = call[h]
      /\ call'[g] = "none" /\ call[g] \in {"ok", "lapped", "closed"}
  BY DEF Put, Answered, RingTypes
<1>2. Block' = Block
  BY DEF Block
<1>3. RingTypes'
  BY <1>1, <1>2 DEF RingTypes
<1>4. Places'
  <2>1. \A h \in Callers : call'[h] \in {"taken", "applying"} => emit' \in {"apply", "barrier"}
    BY <1>1 DEF Places
  <2> QED BY <1>1, <1>2, <2>1 DEF Places
<1>5. Changing' = Changing
  BY <1>1, <1>2 DEF Changing
<1>6. Apart'
  BY <1>1, <1>5 DEF Apart
<1>7. Barrier'
  <2>1. \A c \in Clients : Accepted(c)' => Accepted(c)
    BY <1>1 DEF Accepted
  <2>2. \A h \in Callers : call'[h] = "applying" => call[h] = "applying" /\ h # g
    BY <1>1
  <2>3. \A h \in Callers : h # g /\ Joining(h)' => Joining(h)
    BY DEF Joining
  <2> QED BY <1>2, <2>1, <2>2, <2>3 DEF Barrier, InReach, Block
<1> QED BY <1>3, <1>4, <1>6, <1>7

\* The server's own variables left alone.
LEMMA ServerTypesStay ==
  ASSUME ServerTypes, UNCHANGED serverVars
  PROVE  ServerTypes'
BY DEF ServerTypes, serverVars

\* A step that leaves the ring, the requests and who is joining or leaving alone.
LEMMA Frame ==
  ASSUME ServerInv, Busy => emit' \in {"apply", "barrier"},
         UNCHANGED <<ctrl, call, blocking, seen, raced, writeSeq, end, setup, evicted>>,
         \A c \in Clients :
           /\ \/ hpc'[c] = hpc[c]
              \/ /\ {hpc[c], hpc'[c]} \cap {"joining", "leaving"} = {}
                 /\ hpc'[c] \in {"count", "stream"} => hpc[c] \in {"count", "stream"}
           /\ wpc'[c] = wpc[c] \/ {wpc[c], wpc'[c]} \cap {"leaving"} = {}
           /\ left[c] => left'[c]
           /\ cursor[c] \in Nat /\ cursor'[c] \in Nat /\ cursor'[c] >= cursor[c]
  PROVE  RingTypes' /\ Places' /\ Apart' /\ Barrier'
<1> USE Kinds DEF ServerInv, TypeOK, CallPlaces, HandlerPlaces
<1>1. Block' = Block /\ Changing' = Changing
  BY DEF Block, Changing
<1>2. RingTypes'
  BY <1>1 DEF RingTypes
<1>3. Places'
  <2>1. \A g \in Callers : call[g] \in {"taken", "applying"} => emit' \in {"apply", "barrier"}
    BY DEF Busy
  <2>2. \A c \in Clients : wpc'[c] # "leaving" => wpc[c] # "leaving"
    OBVIOUS
  <2>3. \A c \in Clients :
          hpc'[c] \notin {"joining", "leaving"} => hpc[c] \notin {"joining", "leaving"}
    OBVIOUS
  <2> QED BY <1>1, <2>1, <2>2, <2>3 DEF Places
<1>4. Apart'
  BY <1>1 DEF Apart
<1>5. Barrier'
  <2>1. \A c \in Clients : Accepted(c)' => Accepted(c)
    BY DEF Accepted
  <2>2. \A c \in Clients : InReach(c) => InReach(c)'
    BY ServerAssumption DEF InReach, RingTypes
  <2>3. \A g \in Callers : Joining(g)' => Joining(g)
    BY DEF Joining
  <2> QED BY <1>1, <2>1, <2>2, <2>3 DEF Barrier, Block, RingTypes
<1> QED BY <1>2, <1>3, <1>4, <1>5

\* NewServer opens the files, or fails and leaves nothing open.
LEMMA KeepNewServer ==
  ASSUME ServerInv, NewServer
  PROVE  ServerInv'
<1> USE ServerAssumption, Kinds DEF ServerInv, TypeOK, CallPlaces, HandlerPlaces, NewServer,
      serverVars, ringVars, runVars, subVars, callVars
<1>1. RingTypes' /\ Places' /\ Apart' /\ Barrier'
  BY Frame DEF Places, Busy, RingTypes, StreamTypes
<1>2. RunTypes' /\ StreamTypes' /\ Agree' /\ Ending' /\ Streams' /\ StatusIsTrue'
  BY DEF RunTypes, StreamTypes, Block, Agree, Ending, Closed, NoManifest, Streams, StatusIsTrue
<1>3. ServerTypes'
  BY DEF ServerTypes
<1>4. Life'
  BY DEF Life, Returned
<1>5. Merger'
  BY DEF Merger, Reading, Life, Closed
<1> QED BY <1>1, <1>2, <1>3, <1>4, <1>5 DEF Agree

\* A signal begins the shutdown.
LEMMA KeepSignal ==
  ASSUME ServerInv, Signal
  PROVE  ServerInv'
<1> USE ServerAssumption, Kinds DEF ServerInv, TypeOK, CallPlaces, HandlerPlaces, Signal,
      serverVars, ringVars, runVars, subVars, callVars
<1>1. RingTypes' /\ Places' /\ Apart' /\ Barrier'
  BY Frame DEF Places, Busy, RingTypes, StreamTypes
<1>2. RunTypes' /\ StreamTypes' /\ Agree' /\ Ending' /\ Streams' /\ StatusIsTrue'
  BY DEF RunTypes, StreamTypes, Block, Agree, Ending, Closed, NoManifest, Streams, StatusIsTrue
<1>3. ServerTypes'
  BY DEF ServerTypes
<1>4. Life'
  BY DEF Life, Returned
<1>5. Merger'
  BY DEF Merger, Reading, Life, Closed
<1> QED BY <1>1, <1>2, <1>3, <1>4, <1>5 DEF Agree

\* Serve returns when every handler has.
LEMMA KeepServeReturns ==
  ASSUME ServerInv, ServeReturns
  PROVE  ServerInv'
<1> USE ServerAssumption, Kinds DEF ServerInv, TypeOK, CallPlaces, HandlerPlaces,
   ServeReturns, Returned,
      serverVars, ringVars, runVars, subVars, callVars
<1>1. RingTypes' /\ Places' /\ Apart' /\ Barrier'
  BY Frame DEF Places, Busy, RingTypes, StreamTypes
<1>2. RunTypes' /\ StreamTypes' /\ Agree' /\ Ending' /\ Streams' /\ StatusIsTrue'
  BY DEF RunTypes, StreamTypes, Block, Agree, Ending, Closed, NoManifest, Streams, StatusIsTrue
<1>3. ServerTypes'
  BY DEF ServerTypes
<1>4. Life'
  BY DEF Life, Returned
<1>5. Merger'
  BY DEF Merger, Reading, Life, Closed
<1> QED BY <1>1, <1>2, <1>3, <1>4, <1>5 DEF Agree

\* Close stops the run, or closes the merger of a run that never was.
LEMMA KeepClose ==
  ASSUME ServerInv, Close
  PROVE  ServerInv'
<1> USE ServerAssumption, Kinds DEF ServerInv, TypeOK, CallPlaces, HandlerPlaces, Close,
      serverVars, ringVars, runVars, subVars, callVars
<1>1. RingTypes' /\ Places' /\ Apart' /\ Barrier'
  BY Frame DEF Places, Busy, RingTypes, StreamTypes
<1>2. StreamTypes' /\ Agree' /\ Ending' /\ Streams' /\ StatusIsTrue'
  BY DEF StreamTypes, Block, Agree, Ending, Closed, NoManifest, Streams, StatusIsTrue
<1>3. ServerTypes'
  <2>1. mclosed' \in 0 .. 1
    BY DEF ServerTypes, Merger, Agree
  <2> QED BY <2>1 DEF ServerTypes
<1>4. RunTypes'
  BY DEF RunTypes
<1>5. Life'
  BY DEF Life, Returned
<1>6. Merger'
  BY DEF Merger, Reading, Life, Closed
<1> QED BY <1>1, <1>2, <1>3, <1>4, <1>5, <1>6 DEF Agree

\* Close returns when the run is done.
LEMMA KeepCloseReturns ==
  ASSUME ServerInv, CloseReturns
  PROVE  ServerInv'
<1> USE ServerAssumption, Kinds DEF ServerInv, TypeOK, CallPlaces, HandlerPlaces, CloseReturns,
      serverVars, ringVars, runVars, subVars, callVars
<1>1. RingTypes' /\ Places' /\ Apart' /\ Barrier'
  BY Frame DEF Places, Busy, RingTypes, StreamTypes
<1>2. RunTypes' /\ StreamTypes' /\ Agree' /\ Ending' /\ Streams' /\ StatusIsTrue'
  BY DEF RunTypes, StreamTypes, Block, Agree, Ending, Closed, NoManifest, Streams, StatusIsTrue
<1>3. ServerTypes'
  BY DEF ServerTypes
<1>4. Life'
  BY DEF Life, Returned
<1>5. Merger'
  BY DEF Merger, Reading, Life, Closed
<1> QED BY <1>1, <1>2, <1>3, <1>4, <1>5 DEF Agree

\* The run marks the control queue as started.
LEMMA KeepStartEmitting ==
  ASSUME ServerInv, StartEmitting
  PROVE  ServerInv'
<1> USE ServerAssumption, Kinds DEF ServerInv, TypeOK, CallPlaces, HandlerPlaces,
   StartEmitting, EmitAt, NoServer,
      serverVars, ringVars, runVars, subVars, callVars
<1>1. RingTypes' /\ Places' /\ Apart' /\ Barrier'
  <2>1. RingTypes'
    <3>1. raced' \in BOOLEAN
      OBVIOUS
    <3>2. ctrl' \in [started : BOOLEAN, closed : BOOLEAN]
      BY DEF RingTypes
    <3> QED BY <3>1, <3>2 DEF RingTypes, Block
  <2>2. Places'
    BY DEF Places, Block
  <2>3. Changing' = Changing
    BY DEF Changing, Block
  <2>4. Apart'
    BY <2>3 DEF Apart
  <2>5. Barrier'
    BY DEF Barrier, Accepted, InReach, Joining, Block
  <2> QED BY <2>1, <2>2, <2>4, <2>5
<1>2. ServerTypes'
  BY ServerTypesStay
<1>3. StreamTypes'
  BY DEF StreamTypes, Block
<1>4. RunTypes'
  BY DEF RunTypes
<1>5. Agree'
  BY DEF Agree
<1>6. Life'
  BY DEF Life, Returned
<1>7. Merger'
  BY DEF Merger, Reading, Life, Closed
<1>8. Ending'
  BY DEF Ending, Closed, RingTypes
<1>9. Streams'
  BY DEF Streams, Block
<1>10. StatusIsTrue'
  BY DEF StatusIsTrue, Block
<1> QED BY <1>1, <1>2, <1>3, <1>4, <1>5, <1>6, <1>7, <1>8, <1>9, <1>10 DEF Agree

\* Requests are taken between records.
LEMMA KeepBetweenRecords ==
  ASSUME ServerInv, BetweenRecords
  PROVE  ServerInv'
<1> USE ServerAssumption, Kinds DEF ServerInv, TypeOK, CallPlaces, HandlerPlaces,
   BetweenRecords, EmitAt, NoServer,
      serverVars, ringVars, runVars, subVars, callVars
<1>1. RingTypes' /\ Places' /\ Apart' /\ Barrier'
  BY TakeKeeps
<1>2. ServerTypes'
  BY ServerTypesStay
<1>3. StreamTypes' /\ Streams' /\ StatusIsTrue'
  BY DEF StreamTypes, Block, Streams, StatusIsTrue
<1>4. RunTypes'
  BY DEF RunTypes
<1>5. Agree'
  BY DEF Agree
<1>6. Life'
  BY DEF Life, Returned
<1>7. Merger'
  BY DEF Merger, Reading, Life, Closed
<1>8. Ending'
  BY DEF Ending, Closed, NoManifest
<1> QED BY <1>1, <1>2, <1>3, <1>4, <1>5, <1>6, <1>7, <1>8 DEF Agree

\* The record is due.
LEMMA KeepRecordDue ==
  ASSUME ServerInv, RecordDue
  PROVE  ServerInv'
<1> USE ServerAssumption, Kinds DEF ServerInv, TypeOK, CallPlaces, HandlerPlaces, RecordDue,
   EmitAt, NoServer,
      serverVars, ringVars, runVars, subVars, callVars
<1>1. RingTypes' /\ Places' /\ Apart' /\ Barrier'
  BY Frame DEF Places, Busy, RingTypes, StreamTypes
<1>2. ServerTypes'
  BY ServerTypesStay
<1>3. StreamTypes' /\ Streams' /\ StatusIsTrue'
  BY DEF StreamTypes, Block, Streams, StatusIsTrue
<1>4. RunTypes'
  BY DEF RunTypes
<1>5. Agree'
  BY DEF Agree
<1>6. Life'
  BY DEF Life, Returned
<1>7. Merger'
  BY DEF Merger, Reading, Life, Closed
<1>8. Ending'
  BY DEF Ending, Closed, NoManifest
<1> QED BY <1>1, <1>2, <1>3, <1>4, <1>5, <1>6, <1>7, <1>8 DEF Agree

\* The stream ends.
LEMMA KeepStreamEnd ==
  ASSUME ServerInv, StreamEnd
  PROVE  ServerInv'
<1> USE ServerAssumption, Kinds DEF ServerInv, TypeOK, CallPlaces, HandlerPlaces, StreamEnd,
   EmitAt, NoServer,
      serverVars, ringVars, runVars, subVars, callVars
<1>1. RingTypes' /\ Places' /\ Apart' /\ Barrier' /\ ctrl'.started /\ ctrl'.closed /\
      end' = writeSeq + 1
  BY EndKeeps DEF Ending, Closed, Busy, Places
<1>2. ServerTypes'
  BY ServerTypesStay
<1>3. StreamTypes'
  BY DEF StreamTypes, Block
<1>4. RunTypes'
  BY DEF RunTypes
<1>5. Agree'
  BY DEF Agree
<1>6. Life'
  BY DEF Life, Returned
<1>7. Merger'
  BY DEF Merger, Reading, Life, Closed
<1>8. Ending'
  BY <1>1 DEF Ending, Closed
<1>9. Streams'
  BY DEF Streams, Block
<1>10. StatusIsTrue'
  <2>1. \A c \in Clients : status[c] # "ok"
    BY DEF StatusIsTrue, Ending, Closed
  <2> QED BY <2>1 DEF StatusIsTrue, Block
<1> QED BY <1>1, <1>2, <1>3, <1>4, <1>5, <1>6, <1>7, <1>8, <1>9, <1>10 DEF Agree

\* The run fails.
LEMMA KeepRunFails ==
  ASSUME ServerInv, RunFails
  PROVE  ServerInv'
<1> USE ServerAssumption, Kinds DEF ServerInv, TypeOK, CallPlaces, HandlerPlaces, RunFails,
   EmitAt, NoServer,
      serverVars, ringVars, runVars, subVars, callVars
<1>1. RingTypes' /\ Places' /\ Apart' /\ Barrier'
  BY Frame DEF Places, Busy, RingTypes, StreamTypes
<1>2. ServerTypes'
  BY ServerTypesStay
<1>3. StreamTypes' /\ Streams' /\ StatusIsTrue'
  BY DEF StreamTypes, Block, Streams, StatusIsTrue
<1>4. RunTypes'
  BY DEF RunTypes
<1>5. Agree'
  BY DEF Agree
<1>6. Life'
  BY DEF Life, Returned
<1>7. Merger'
  BY DEF Merger, Reading, Life, Closed
<1>8. Ending'
  BY DEF Ending, Closed, NoManifest
<1> QED BY <1>1, <1>2, <1>3, <1>4, <1>5, <1>6, <1>7, <1>8 DEF Agree

\* The barrier takes requests while it waits.
LEMMA KeepBarrierSpin ==
  ASSUME ServerInv, BarrierSpin
  PROVE  ServerInv'
<1> USE ServerAssumption, Kinds DEF ServerInv, TypeOK, CallPlaces, HandlerPlaces, BarrierSpin,
   NoServer,
      serverVars, ringVars, runVars, subVars, callVars
<1>1. RingTypes' /\ Places' /\ Apart' /\ Barrier'
  BY TakeKeeps
<1>2. ServerTypes'
  BY ServerTypesStay
<1>3. StreamTypes' /\ Agree' /\ Life' /\ Merger' /\ Ending' /\ Streams' /\ StatusIsTrue'
  BY DEF StreamTypes, Block, Agree, Life, Returned, Merger, Reading, Closed, Ending,
     NoManifest, Streams, StatusIsTrue
<1>4. RunTypes'
  BY DEF RunTypes
<1> QED BY <1>1, <1>2, <1>3, <1>4 DEF Agree

\* A failed run ends the ring.
LEMMA KeepEndFailed ==
  ASSUME ServerInv, EndFailed
  PROVE  ServerInv'
<1> USE ServerAssumption, Kinds DEF ServerInv, TypeOK, CallPlaces, HandlerPlaces, EndFailed,
   EmitAt, NoServer,
      serverVars, ringVars, runVars, subVars, callVars
<1>1. RingTypes' /\ Places' /\ Apart' /\ Barrier' /\ ctrl'.started /\ ctrl'.closed /\
      end' = writeSeq + 1
  BY EndKeeps DEF Ending, Closed, Busy, Places
<1>2. ServerTypes'
  BY ServerTypesStay
<1>3. StreamTypes'
  BY DEF StreamTypes, Block
<1>4. RunTypes'
  BY DEF RunTypes
<1>5. Agree'
  BY DEF Agree
<1>6. Life'
  BY DEF Life, Returned
<1>7. Merger'
  BY DEF Merger, Reading, Life, Closed
<1>8. Ending'
  BY <1>1 DEF Ending, Closed
<1>9. Streams'
  BY DEF Streams, Block
<1>10. StatusIsTrue'
  <2>1. \A c \in Clients : status[c] # "ok"
    BY DEF StatusIsTrue, Ending, Closed
  <2> QED BY <2>1 DEF StatusIsTrue, Block
<1> QED BY <1>1, <1>2, <1>3, <1>4, <1>5, <1>6, <1>7, <1>8, <1>9, <1>10 DEF Agree

\* The run closes the merger.
LEMMA KeepRunClosesMerger ==
  ASSUME ServerInv, RunClosesMerger
  PROVE  ServerInv'
<1> USE ServerAssumption, Kinds DEF ServerInv, TypeOK, CallPlaces, HandlerPlaces,
   RunClosesMerger, EmitAt,
      serverVars, ringVars, runVars, subVars, callVars
<1>1. RingTypes' /\ Places' /\ Apart' /\ Barrier'
  BY Frame DEF Places, Busy, RingTypes, StreamTypes
<1>2. StreamTypes' /\ Streams' /\ StatusIsTrue'
  BY DEF StreamTypes, Block, Streams, StatusIsTrue
<1>3. ServerTypes'
  <2>1. mclosed' \in 0 .. 1
    BY DEF ServerTypes, Merger, Agree
  <2> QED BY <2>1 DEF ServerTypes
<1>4. RunTypes'
  BY DEF RunTypes
<1>5. Agree'
  BY DEF Agree
<1>6. Life'
  BY DEF Life, Returned
<1>7. Merger'
  BY DEF Merger, Reading, Life, Closed
<1>8. Ending'
  BY DEF Ending, Closed, NoManifest
<1> QED BY <1>1, <1>2, <1>3, <1>4, <1>5, <1>6, <1>7, <1>8 DEF Agree

\* The run writes its manifest, or not, and is done.
LEMMA KeepWriteManifest ==
  ASSUME ServerInv, WriteManifest
  PROVE  ServerInv'
<1> USE ServerAssumption, Kinds DEF ServerInv, TypeOK, CallPlaces, HandlerPlaces,
   WriteManifest, EmitAt,
      serverVars, ringVars, runVars, subVars, callVars
<1>1. RingTypes' /\ Places' /\ Apart' /\ Barrier'
  BY Frame DEF Places, Busy, RingTypes, StreamTypes
<1>2. StreamTypes' /\ Streams' /\ StatusIsTrue'
  BY DEF StreamTypes, Block, Streams, StatusIsTrue
<1>3. ServerTypes'
  <2>1. manifest' \in {NoManifest} \cup
         [written : {TRUE}, mix : SUBSET Clients, index : 0 .. Total, failed : BOOLEAN]
    <3>1. CASE manifest' = manifest
      BY <3>1 DEF ServerTypes
    <3>2. CASE manifest' = [written |-> TRUE, mix |-> mix, index |-> writeSeq, failed |-> err]
      BY <3>2 DEF ServerTypes, RingTypes, RunTypes
    <3> QED BY <3>1, <3>2
  <2>2. runErr' \in BOOLEAN
    BY DEF RunTypes
  <2> QED BY <2>1, <2>2 DEF ServerTypes
<1>4. RunTypes'
  BY DEF RunTypes
<1>5. Agree'
  BY DEF Agree
<1>6. Life'
  BY DEF Life, Returned
<1>7. Merger'
  BY DEF Merger, Reading, Life, Closed
<1>8. Ending'
  BY DEF Ending, Closed, NoManifest
<1> QED BY <1>1, <1>2, <1>3, <1>4, <1>5, <1>6, <1>7, <1>8 DEF Agree

\* A client calls.
LEMMA KeepCall ==
  ASSUME ServerInv, NEW c \in Clients, Call(c)
  PROVE  ServerInv'
<1> USE ServerAssumption, Kinds DEF ServerInv, TypeOK, CallPlaces, HandlerPlaces, Call, Go,
   NoRun,
      serverVars, ringVars, runVars, subVars, callVars
<1>1. RingTypes' /\ Places' /\ Apart' /\ Barrier'
  BY Frame DEF Places, Busy, RingTypes, StreamTypes
<1>2. ServerTypes'
  BY ServerTypesStay
<1>3. RunTypes'
  BY DEF RunTypes
<1>4. StreamTypes'
  BY DEF StreamTypes, Block
<1>5. Agree'
  BY DEF Agree, StreamTypes
<1>6. Life'
  BY DEF Life, Returned
<1>7. Merger'
  BY DEF Merger, Reading, Life, Closed
<1>8. Ending'
  BY DEF Ending, Closed, NoManifest
<1>9. Streams'
  BY DEF Streams, Block
<1>10. StatusIsTrue'
  BY DEF StatusIsTrue, Block
<1> QED BY <1>1, <1>2, <1>3, <1>4, <1>5, <1>6, <1>7, <1>8, <1>9, <1>10 DEF Agree

\* A client goes away.
LEMMA KeepDisconnect ==
  ASSUME ServerInv, NEW c \in Clients, Disconnect(c)
  PROVE  ServerInv'
<1> USE ServerAssumption, Kinds DEF ServerInv, TypeOK, CallPlaces, HandlerPlaces, Disconnect,
   NoRun,
      serverVars, ringVars, runVars, subVars, callVars
<1>1. RingTypes' /\ Places' /\ Apart' /\ Barrier'
  BY Frame DEF Places, Busy, RingTypes, StreamTypes
<1>2. ServerTypes'
  BY ServerTypesStay
<1>3. RunTypes' /\ Agree' /\ Life' /\ Merger' /\ Ending'
  BY DEF RunTypes, Agree, Life, Returned, Merger, Reading, Closed, Ending, NoManifest
<1>4. StreamTypes'
  BY DEF StreamTypes, Block
<1>5. Streams'
  BY DEF Streams, StreamTypes, Block
<1>6. StatusIsTrue'
  BY DEF StatusIsTrue, StreamTypes, Block
<1> QED BY <1>1, <1>2, <1>3, <1>4, <1>5, <1>6 DEF Agree

\* A request for another speed is refused.
LEMMA KeepSpeedMismatch ==
  ASSUME ServerInv, NEW c \in Clients, SpeedMismatch(c)
  PROVE  ServerInv'
<1> USE ServerAssumption, Kinds DEF ServerInv, TypeOK, CallPlaces, HandlerPlaces,
   SpeedMismatch, Go, End, NoRun,
      serverVars, ringVars, runVars, subVars, callVars
<1>1. RingTypes' /\ Places' /\ Apart' /\ Barrier'
  BY Frame DEF Places, Busy, RingTypes, StreamTypes
<1>2. ServerTypes'
  BY ServerTypesStay
<1>3. RunTypes'
  BY DEF RunTypes
<1>4. StreamTypes'
  BY DEF StreamTypes, Block
<1>5. Agree'
  BY DEF Agree, StreamTypes
<1>6. Life'
  BY DEF Life, Returned, StreamTypes
<1>7. Merger'
  BY DEF Merger, Reading, Life, Closed
<1>8. Ending'
  BY DEF Ending, Closed, NoManifest
<1>9. Streams'
  BY DEF Streams, StreamTypes, Block
<1>10. StatusIsTrue'
  BY DEF StatusIsTrue, StreamTypes, Block
<1> QED BY <1>1, <1>2, <1>3, <1>4, <1>5, <1>6, <1>7, <1>8, <1>9, <1>10 DEF Agree

\* The client is counted and its watcher started.
LEMMA KeepCountSubscriber ==
  ASSUME ServerInv, NEW c \in Clients, CountSubscriber(c)
  PROVE  ServerInv'
<1> USE ServerAssumption, Kinds DEF ServerInv, TypeOK, CallPlaces, HandlerPlaces,
   CountSubscriber, Go, NoRun,
      serverVars, ringVars, runVars, subVars, callVars
<1>1. RingTypes' /\ Places' /\ Apart' /\ Barrier'
  BY Frame DEF Places, Busy, RingTypes, Streams, StreamTypes
<1>2. RunTypes'
  BY DEF RunTypes
<1>3. ServerTypes'
  <2>1. mix' \subseteq Clients
    BY DEF ServerTypes
  <2>2. UNCHANGED <<main, files, mclosed, started, speed, runDone, runErr, manifest, mu>>
    OBVIOUS
  <2> HIDE DEF CountSubscriber
  <2> QED BY <2>1, <2>2 DEF ServerTypes
<1>4. StreamTypes'
  BY DEF StreamTypes, Block
<1>5. Agree'
  BY DEF Agree, StreamTypes
<1>6. Life'
  BY DEF Life, Returned, StreamTypes
<1>7. Merger'
  BY DEF Merger, Reading, Life, Closed
<1>8. Ending'
  BY DEF Ending, Closed, NoManifest
<1>9. Streams'
  BY DEF Streams, StreamTypes, Block
<1>10. StatusIsTrue'
  BY DEF StatusIsTrue, Block
<1> QED BY <1>1, <1>2, <1>3, <1>4, <1>5, <1>6, <1>7, <1>8, <1>9, <1>10 DEF Agree

\* Next ends the stream.
LEMMA KeepStreamEnds ==
  ASSUME ServerInv, NEW c \in Clients, StreamEnds(c)
  PROVE  ServerInv'
<1> USE ServerAssumption, Kinds DEF ServerInv, TypeOK, CallPlaces, HandlerPlaces, StreamEnds,
   Go, End, NoRun,
      serverVars, ringVars, runVars, subVars, callVars
<1>1. RingTypes' /\ Places' /\ Apart' /\ Barrier'
  BY Frame DEF Places, Busy, RingTypes, StreamTypes
<1>2. ServerTypes'
  BY ServerTypesStay
<1>3. RunTypes'
  BY DEF RunTypes
<1>4. StreamTypes'
  BY DEF StreamTypes, Block
<1>5. Agree'
  BY DEF Agree, StreamTypes
<1>6. Life'
  BY DEF Life, Returned, StreamTypes
<1>7. Merger'
  BY DEF Merger, Reading, Life, Closed
<1>8. Ending'
  BY DEF Ending, Closed, NoManifest
<1>9. Streams'
  BY DEF Streams, StreamTypes, Block
<1>10. StatusIsTrue'
  BY DEF StatusIsTrue, Streams, StreamTypes, Block
<1> QED BY <1>1, <1>2, <1>3, <1>4, <1>5, <1>6, <1>7, <1>8, <1>9, <1>10 DEF Agree

\* A request is applied.
LEMMA KeepApplyStore ==
  ASSUME ServerInv, ApplyStore
  PROVE  ServerInv'
<1> USE ServerAssumption, Kinds DEF ServerInv, TypeOK, CallPlaces, HandlerPlaces, ApplyStore,
   NoServer,
      serverVars, ringVars, runVars, subVars, callVars
<1>1. RingTypes' /\ Places' /\ Apart' /\ Barrier'
  BY StoreKeeps
<1>2. ServerTypes'
  BY ServerTypesStay
<1>3. RunTypes' /\ StreamTypes' /\ Agree' /\ Life' /\ Merger' /\ Ending' /\ Streams' /\
      StatusIsTrue'
  BY DEF RunTypes, StreamTypes, Block, Agree, Life, Returned, Merger, Reading, Closed, Ending,
     NoManifest, Streams, StatusIsTrue
<1> QED BY <1>1, <1>2, <1>3 DEF Agree

\* A caller that changes the list itself loads it.
LEMMA KeepDirectLoad ==
  ASSUME ServerInv, NEW g \in Callers, DirectLoad(g)
  PROVE  ServerInv'
<1> USE ServerAssumption, Kinds DEF ServerInv, TypeOK, CallPlaces, HandlerPlaces, DirectLoad,
      serverVars, ringVars, runVars, subVars, callVars
<1>1. RingTypes' /\ Places' /\ Apart' /\ Barrier'
  BY LoadKeeps DEF StreamTypes
<1>2. ServerTypes'
  BY ServerTypesStay
<1>3. RunTypes' /\ StreamTypes' /\ Agree' /\ Life' /\ Merger' /\ Ending' /\ Streams' /\
      StatusIsTrue'
  BY DEF RunTypes, StreamTypes, Block, Agree, Life, Returned, Merger, Reading, Closed, Ending,
     NoManifest, Streams, StatusIsTrue
<1> QED BY <1>1, <1>2, <1>3 DEF Agree

\* A caller that changes the list itself stores it.
LEMMA KeepDirectStore ==
  ASSUME ServerInv, NEW g \in Callers, DirectStore(g)
  PROVE  ServerInv'
<1> USE ServerAssumption, Kinds DEF ServerInv, TypeOK, CallPlaces, HandlerPlaces, DirectStore,
      serverVars, ringVars, runVars, subVars, callVars
<1>1. RingTypes' /\ Places' /\ Apart' /\ Barrier'
  BY StoreKeeps
<1>2. ServerTypes'
  BY ServerTypesStay
<1>3. RunTypes' /\ StreamTypes' /\ Agree' /\ Life' /\ Merger' /\ Ending' /\ Streams' /\
      StatusIsTrue'
  BY DEF RunTypes, StreamTypes, Block, Agree, Life, Returned, Merger, Reading, Closed, Ending,
     NoManifest, Streams, StatusIsTrue
<1> QED BY <1>1, <1>2, <1>3 DEF Agree

\* The emit goroutine begins to apply a request: the start is resolved, or found lapped.
LEMMA KeepApplyLoad ==
  ASSUME ServerInv, ApplyLoad
  PROVE  ServerInv'
<1> USE ServerAssumption, Kinds DEF ServerInv, TypeOK, CallPlaces, HandlerPlaces, ApplyLoad,
   NoServer,
      serverVars, ringVars, runVars, subVars, callVars
<1>1. RingTypes' /\ Places' /\ Apart' /\ Barrier'
  <2>1. PICK g \in Callers :
          /\ call[g] = "taken"
          /\ \/ Joining(g) /\ Lapped(g[2]) /\ Put(g, "lapped") /\ UNCHANGED <<seen, cursor>>
             \/ /\ Joining(g) /\ ~Lapped(g[2]) /\ Load(g, "applying")
                /\ cursor' = [cursor EXCEPT ![g[2]] = Start(g[2])]
             \/ ~Joining(g) /\ Load(g, "applying") /\ UNCHANGED cursor
    OBVIOUS
  <2>2. \A h \in Callers : call[h] # "applying"
    OBVIOUS
  <2>3. UNCHANGED <<ctrl, blocking, raced, writeSeq, end, setup, hpc, wpc, left, evicted, emit>>
    OBVIOUS
  <2> HIDE DEF ApplyLoad
  <2>4. CASE Load(g, "applying")
    <3>1. Start(g[2]) \in 0 .. Total
      BY DEF Start, RingTypes, StreamTypes
    <3>2. cursor' \in [Clients -> 0 .. Total]
      <4>1. CASE cursor' = cursor
        BY <4>1 DEF StreamTypes
      <4>2. CASE cursor' = [cursor EXCEPT ![g[2]] = Start(g[2])]
        BY <3>1, <4>2 DEF StreamTypes
      <4> QED BY <2>1, <4>1, <4>2
    <3>3. \A c \in Clients : cursor'[c] = cursor[c] \/ (Joining(g) /\ c = g[2])
      BY <2>1 DEF StreamTypes
    <3>4. ASSUME Joining(g), g[2] \in Block PROVE InReach(g[2])'
      <4>1. cursor'[g[2]] = Start(g[2]) /\ ~Lapped(g[2])
        <5>1. call'[g] # "lapped"
          BY <2>4 DEF Load, Put, Answer, RingTypes
        <5>2. ~(Lapped(g[2]) /\ Put(g, "lapped"))
          BY <5>1 DEF Put, RingTypes
        <5> QED BY <2>1, <3>4, <5>2 DEF StreamTypes
      <4>2. Start(g[2]) + Capacity >= writeSeq
        BY <3>1, <3>4, <4>1 DEF Lapped, Start, oldestIndex, RingTypes
      <4> QED BY <2>3, <4>1, <4>2 DEF InReach
    <3> QED BY <2>1, <2>2, <2>3, <2>4, <3>2, <3>3, <3>4, LoadKeeps
  <2>5. CASE Joining(g) /\ Put(g, "lapped") /\ UNCHANGED <<seen, cursor>>
    <3>1. /\ call' \in [Callers -> CallPlaces]
          /\ \A h \in Callers : h # g => call'[h] = call[h]
          /\ call'[g] = "lapped"
      BY <2>5 DEF Put, RingTypes
    <3>2. Block' = Block /\ \A h \in Callers : Joining(h)' <=> Joining(h)
      BY <2>3 DEF Block, Joining
    <3>3. RingTypes'
      BY <2>3, <2>5, <3>1, <3>2 DEF RingTypes
    <3>4. Places'
      <4>1. g[1] = "handler" /\ hpc[g[2]] = "joining"
        BY <2>5 DEF Joining
      <4> QED BY <2>3, <3>1, <3>2, <4>1 DEF Places
    <3>5. Changing' = Changing
      BY <2>1, <3>1, <3>2 DEF Changing
    <3>6. Apart'
      BY <2>3, <2>5, <3>1, <3>5 DEF Apart
    <3>7. \A c \in Clients : Accepted(c)' => Accepted(c)
      BY <2>3, <3>1 DEF Accepted
    <3>8. Barrier'
      <4>1. ASSUME NEW h \in Callers PROVE call'[h] # "applying"
        <5>1. CASE h = g
          BY <3>1, <5>1
        <5>2. CASE h # g
          BY <2>2, <3>1, <5>2
        <5> QED BY <5>1, <5>2
      <4>2. \A d \in Clients : InReach(d) <=> InReach(d)'
        BY <2>3, <2>5 DEF InReach
      <4> QED BY <2>3, <3>2, <3>7, <4>1, <4>2 DEF Barrier, Block, RingTypes
    <3> QED BY <3>3, <3>4, <3>6, <3>8
  <2> QED BY <2>1, <2>4, <2>5
<1>2. ServerTypes'
  BY ServerTypesStay
<1>3. RunTypes' /\ Agree' /\ Life' /\ Merger' /\ Ending'
  BY DEF RunTypes, Agree, Life, Returned, Merger, Reading, Closed, Ending, NoManifest
<1>4. StreamTypes'
  <2>1. \A g \in Callers : Start(g[2]) \in 0 .. Total
    BY DEF Start, RingTypes, StreamTypes
  <2>2. \E g \in Callers : cursor' = cursor \/ cursor' = [cursor EXCEPT ![g[2]] = Start(g[2])]
    OBVIOUS
  <2> HIDE DEF ApplyLoad
  <2>3. cursor' \in [Clients -> 0 .. Total]
    BY <2>1, <2>2 DEF StreamTypes
  <2>4. UNCHANGED <<setup, hpc, wpc, status, gap, canceled, evicted, left>>
    BY DEF ApplyLoad
  <2> QED BY <2>3, <2>4 DEF StreamTypes
<1>5. Streams'
  BY DEF Streams, Block
<1>6. StatusIsTrue'
  <2>1. \A c \in Clients : hpc[c] # "joining" => cursor'[c] = cursor[c]
    BY DEF Joining, StreamTypes
  <2>2. \A c \in Clients : status[c] # "none" => cursor'[c] = cursor[c]
    BY <2>1 DEF Streams
  <2> QED BY <2>2 DEF StatusIsTrue, Block
<1> QED BY <1>1, <1>2, <1>3, <1>4, <1>5, <1>6 DEF Agree

\* A record is written after the barrier.
LEMMA KeepWriteRecord ==
  ASSUME ServerInv, WriteRecord
  PROVE  ServerInv'
<1> USE ServerAssumption, Kinds DEF ServerInv, TypeOK, CallPlaces, HandlerPlaces, WriteRecord,
   EmitAt, NoServer,
      serverVars, ringVars, runVars, subVars, callVars
<1>1. RingTypes' /\ Places' /\ Apart' /\ Barrier'
  <2>1. Block' = Block /\ Changing' = Changing /\ writeSeq' = writeSeq + 1 /\ writeSeq < Total
    BY DEF Block, Changing, Ending
  <2>2. writeSeq' \in 0 .. Total /\ end' \in {0, writeSeq' + 1}
    BY <2>1 DEF RingTypes, Ending, Closed
  <2>3. RingTypes'
    BY <2>1, <2>2 DEF RingTypes
  <2>4. \A g \in Callers : call[g] \notin {"taken", "applying"}
    BY DEF Busy
  <2>5. Places'
    BY <2>1, <2>4 DEF Places
  <2>6. Apart'
    BY <2>1 DEF Apart
  <2>7. \A c \in Clients : Accepted(c)' => Accepted(c)
    BY DEF Accepted
  <2>8. ASSUME ~raced, NEW c \in blocking PROVE InReach(c)'
    <3>1. cursor[c] \in Nat /\ writeSeq \in Nat /\ Capacity \in Nat
      BY DEF RingTypes, StreamTypes, Block
    <3>2. ~(writeSeq >= Capacity /\ cursor[c] <= writeSeq - Capacity)
      BY DEF Holding
    <3> QED BY <2>1, <3>1, <3>2 DEF InReach
  <2>9. Barrier'
    BY <2>1, <2>4, <2>7, <2>8 DEF Barrier, Block
  <2> QED BY <2>3, <2>5, <2>6, <2>9
<1>2. ServerTypes'
  BY ServerTypesStay
<1>3. StreamTypes' /\ Agree'
  BY DEF StreamTypes, Block, Agree
<1>4. RunTypes'
  BY DEF RunTypes
<1>5. Life'
  BY DEF Life, Returned
<1>6. Merger'
  BY DEF Merger, Reading, Life, Closed
<1>7. Ending'
  BY DEF Ending, Closed, RingTypes
<1>8. Streams'
  BY DEF Streams, Block
<1>9. StatusIsTrue'
  BY DEF StatusIsTrue, Ending, Closed, Block
<1> QED BY <1>1, <1>2, <1>3, <1>4, <1>5, <1>6, <1>7, <1>8, <1>9 DEF Agree

\* The watchdog evicts a client that holds the barrier.
LEMMA KeepEvict ==
  ASSUME ServerInv, Evict
  PROVE  ServerInv'
<1> USE ServerAssumption, Kinds DEF ServerInv, TypeOK, CallPlaces, HandlerPlaces, Evict,
   NoServer,
      serverVars, ringVars, runVars, subVars, callVars
<1>1. RingTypes' /\ Places' /\ Apart' /\ Barrier'
  <2>1. PICK c \in Holding : evicted' = [evicted EXCEPT ![c] = TRUE] /\ Put(Eviction(c),
        "taken")
    OBVIOUS
  <2>2. c \in Clients /\ Eviction(c) \in Callers
    BY DEF Holding, RingTypes, Block
  <2>3. /\ call' \in [Callers -> CallPlaces]
        /\ \A h \in Callers : h # Eviction(c) => call'[h] = call[h]
        /\ call'[Eviction(c)] = "taken"
    <3> HIDE DEF Evict
    <3> QED BY <2>1, <2>2 DEF Put, RingTypes
  <2>4. evicted'[c] /\ \A d \in Clients : evicted[d] => evicted'[d]
    BY <2>1, <2>2 DEF StreamTypes
  <2>5. Block' = Block
    BY DEF Block
  <2>6. RingTypes'
    BY <2>3, <2>5 DEF RingTypes
  <2>7. Places'
    BY <2>2, <2>3, <2>4, <2>5 DEF Places
  <2>8. Changing' \subseteq Changing
    BY <2>3, <2>5 DEF Changing
  <2>9. Apart'
    <3>1. \A h \in Callers : call'[h] \in {"store", "applying"} => call[h] = call'[h]
      BY <2>3
    <3>2. UNCHANGED <<ctrl, blocking, seen, raced>>
      OBVIOUS
    <3> HIDE DEF Evict
    <3> QED BY <2>8, <3>1, <3>2 DEF Apart
  <2>10. \A d \in Clients : Accepted(d)' => Accepted(d)
    BY <2>2, <2>3 DEF Accepted
  <2>11. Barrier'
    BY <2>3, <2>4, <2>5, <2>10 DEF Barrier, InReach, Joining, Block
  <2> QED BY <2>6, <2>7, <2>9, <2>11
<1>2. ServerTypes'
  BY ServerTypesStay
<1>3. RunTypes' /\ Agree' /\ Life' /\ Merger' /\ Ending' /\ Streams'
  BY DEF RunTypes, Agree, Life, Returned, Merger, Reading, Closed, Ending, NoManifest,
     Streams, Block
<1>4. StreamTypes'
  <2>1. PICK c \in Holding : evicted' = [evicted EXCEPT ![c] = TRUE]
    OBVIOUS
  <2>2. UNCHANGED <<setup, hpc, wpc, status, cursor, gap, canceled, left>>
    OBVIOUS
  <2> HIDE DEF Evict
  <2>3. evicted' \in [Clients -> BOOLEAN]
    BY <2>1 DEF StreamTypes
  <2> QED BY <2>2, <2>3 DEF StreamTypes
<1>5. StatusIsTrue'
  BY DEF StatusIsTrue, StreamTypes, Holding, Block
<1> QED BY <1>1, <1>2, <1>3, <1>4, <1>5 DEF Agree

\* A client asks to join, with the mutex held.
LEMMA KeepAttach ==
  ASSUME ServerInv, NEW c \in Clients, Attach(c)
  PROVE  ServerInv'
<1> USE ServerAssumption, Kinds DEF ServerInv, TypeOK, CallPlaces, HandlerPlaces, Attach, Go,
   Lock, NoRun,
      serverVars, ringVars, runVars, subVars, callVars
<1>1. RingTypes' /\ Places' /\ Apart' /\ Barrier' /\ (raced => raced')
  <2>1. hpc' = [hpc EXCEPT ![c] = "joining"] /\ Ask(Handler(c), TRUE) /\
        call[Handler(c)] = "none"
    BY DEF Places
  <2>2. UNCHANGED <<ctrl, blocking, seen, writeSeq, end, setup, cursor, left, evicted, emit, wpc>>
    OBVIOUS
  <2> HIDE DEF Attach
  <2>3. hpc'[c] = "joining" /\ \A d \in Clients \ {c} : hpc'[d] = hpc[d]
    BY <2>1 DEF StreamTypes
  <2>4. Handler(c) \in Callers /\ Handler(c)[1] = "handler" /\ Handler(c)[2] = c
    OBVIOUS
  <2> HIDE Kinds, ServerAssumption DEF ServerInv, TypeOK, CallPlaces, HandlerPlaces
  <2> QED BY <2>1, <2>2, <2>3, <2>4, AskKeeps
<1>2. RunTypes'
  BY DEF RunTypes
<1>3. ServerTypes'
  <2>1. mu' = Handler(c) /\ UNCHANGED <<main, files, mclosed, started, speed, mix, runDone,
                                        runErr, manifest>>
    OBVIOUS
  <2> HIDE Kinds, ServerAssumption DEF Attach
  <2>2. mu' \in {Nobody} \cup {Handler(d) : d \in Clients}
    BY <2>1
  <2> QED BY <2>1, <2>2 DEF ServerTypes
<1>4. StreamTypes'
  BY DEF StreamTypes
<1>5. Agree'
  BY DEF Agree, StreamTypes
<1>6. Life'
  BY DEF Life, Returned, StreamTypes
<1>7. Merger'
  BY DEF Merger, Reading, Life, Closed
<1>8. Ending'
  BY DEF Ending, Closed, NoManifest
<1>9. Streams'
  BY <1>1 DEF Streams, StreamTypes, Block
<1>10. StatusIsTrue'
  BY <1>1 DEF StatusIsTrue, Block
<1> QED BY <1>1, <1>2, <1>3, <1>4, <1>5, <1>6, <1>7, <1>8, <1>9, <1>10 DEF Agree

\* The start of a client is resolved on its own goroutine.
LEMMA KeepJoinResolve ==
  ASSUME ServerInv, NEW c \in Clients, JoinResolve(c)
  PROVE  ServerInv'
<1> USE ServerAssumption, Kinds DEF ServerInv, TypeOK, CallPlaces, HandlerPlaces, JoinResolve,
   NoRun,
      serverVars, ringVars, runVars, subVars, callVars
<1>1. RingTypes' /\ Places' /\ Apart' /\ Barrier'
  <2>1. /\ call' \in [Callers -> CallPlaces]
        /\ \A h \in Callers : h # Handler(c) => call'[h] = call[h]
        /\ call'[Handler(c)] \in {"lapped", "load"}
    BY DEF Put, RingTypes
  <2>2. Block' = Block /\ \A h \in Callers : Joining(h)' <=> Joining(h)
    BY DEF Block, Joining
  <2>3. RingTypes'
    BY <2>1, <2>2 DEF RingTypes
  <2>4. Places'
    BY <2>1, <2>2 DEF Places
  <2>5. Changing' \subseteq Changing
    BY <2>1, <2>2 DEF Changing
  <2>6. Apart'
    BY <2>1, <2>5 DEF Apart
  <2>7. \A d \in Clients : Accepted(d)' => Accepted(d)
    BY <2>1 DEF Accepted
  <2>8. \A d \in Clients : d # c => cursor'[d] = cursor[d]
    BY DEF StreamTypes
  <2>9. ASSUME ~raced, c \in Block PROVE InReach(c)'
    <3>1. Handler(c) \in Changing
      BY <2>9 DEF Changing
    <3>2. writeSeq = 0
      BY <2>9, <3>1 DEF Apart, Ending
    <3>3. cursor'[c] \in Nat
      BY <3>2 DEF Start, StreamTypes
    <3> QED BY <3>2, <3>3 DEF InReach
  <2>10. \A h \in Callers : call'[h] = "applying" => call[h] = "applying" /\ h[2] \in Block
    BY <2>1 DEF Places
  <2>11. Barrier'
    <3>1. ASSUME ~raced, NEW d \in Block PROVE InReach(d) => InReach(d)'
      BY <2>8, <2>9, <3>1 DEF InReach, Block
    <3> QED BY <2>2, <2>7, <2>10, <3>1 DEF Barrier, Block, RingTypes
  <2> QED BY <2>3, <2>4, <2>6, <2>11
<1>2. ServerTypes'
  BY ServerTypesStay
<1>3. RunTypes' /\ Agree' /\ Life' /\ Merger' /\ Ending'
  BY DEF RunTypes, Agree, Life, Returned, Merger, Reading, Closed, Ending, NoManifest
<1>4. StreamTypes'
  <2>1. Start(c) \in 0 .. Total
    BY DEF Start, RingTypes, StreamTypes
  <2> QED BY <2>1 DEF StreamTypes
<1>5. Streams'
  BY DEF Streams, Block
<1>6. StatusIsTrue'
  <2>1. status[c] = "none"
    BY DEF Streams, StreamTypes
  <2>2. \A d \in Clients \ {c} : cursor'[d] = cursor[d]
    BY DEF StreamTypes
  <2>3. UNCHANGED <<setup, status, end, gap, left, raced, evicted>>
    OBVIOUS
  <2> HIDE DEF JoinResolve
  <2> QED BY <2>1, <2>2, <2>3 DEF StatusIsTrue, Block
<1> QED BY <1>1, <1>2, <1>3, <1>4, <1>5, <1>6 DEF Agree

\* A client is accepted, and the first to be starts the run; or it is refused.
LEMMA KeepJoinAnswered ==
  ASSUME ServerInv, NEW c \in Clients, JoinAnswered(c)
  PROVE  ServerInv'
<1> USE ServerAssumption, Kinds DEF ServerInv, TypeOK, CallPlaces, HandlerPlaces,
   JoinAnswered, Go, End, Unlock, NoRun,
      serverVars, ringVars, runVars, subVars, callVars
<1>1. RingTypes' /\ Places' /\ Apart' /\ Barrier'
  <2>1. hpc'[c] \in {"count", "done"} /\ \A d \in Clients \ {c} : hpc'[d] = hpc[d]
    BY DEF StreamTypes
  <2>2. hpc'[c] = "count" => Accepted(c)
    BY DEF Accepted, StreamTypes
  <2>3. emit' = emit \/ {emit, emit'} \cap {"apply", "barrier"} = {}
    BY DEF Agree
  <2>4. wpc' = wpc /\ UNCHANGED <<ctrl, blocking, seen, raced, writeSeq, end, setup, cursor,
                                  left, evicted>>
    OBVIOUS
  <2>5. Put(Handler(c), "none") /\ Answered(Handler(c))
    OBVIOUS
  <2> HIDE DEF JoinAnswered
  <2> QED BY <2>1, <2>2, <2>3, <2>4, <2>5, TakenKeeps
<1>2. ServerTypes'
  <2>1. req[c].slow \in BOOLEAN
    BY DEF StreamTypes, Setup
  <2>2. started' \in BOOLEAN /\ speed' \in BOOLEAN
    BY <2>1 DEF ServerTypes
  <2>3. mu' = Nobody /\ UNCHANGED <<main, files, mclosed, mix, runDone, runErr, manifest>>
    OBVIOUS
  <2> HIDE DEF JoinAnswered
  <2> QED BY <2>2, <2>3 DEF ServerTypes
<1>3. RunTypes'
  BY DEF RunTypes
<1>4. StreamTypes'
  <2>1. hpc' = [hpc EXCEPT ![c] = "count"] \/ hpc' = [hpc EXCEPT ![c] = "done"]
    OBVIOUS
  <2>2. status' = status \/ status' = [status EXCEPT ![c] = "refused"]
    OBVIOUS
  <2>3. UNCHANGED <<setup, wpc, cursor, gap, canceled, evicted, left>>
    OBVIOUS
  <2> HIDE Kinds, ServerAssumption DEF JoinAnswered
  <2>4. hpc' \in [Clients -> HandlerPlaces]
    BY <2>1 DEF StreamTypes
  <2>5. status' \in [Clients -> {"none", "ok", "context", "aborted", "refused"}]
    BY <2>2 DEF StreamTypes
  <2> QED BY <2>3, <2>4, <2>5 DEF StreamTypes
<1>5. Agree'
  <2>1. emit' = "none" <=> ~started'
    BY DEF Agree
  <2>2. hpc'[c] # "joining" /\ \A d \in Clients \ {c} : hpc'[d] = hpc[d]
    BY DEF StreamTypes
  <2>3. mu' = Nobody /\ \A d \in Clients \ {c} : hpc[d] # "joining"
    BY DEF Agree
  <2> QED BY <2>1, <2>2, <2>3 DEF Agree
<1>6. Life'
  BY DEF Life, Agree, Returned, StreamTypes
<1>7. Merger'
  BY DEF Merger, Agree, Life, Returned, Reading, Closed, ServerTypes
<1>8. Ending'
  BY DEF Ending, Agree, Closed
<1>9. Streams'
  BY DEF Streams, StreamTypes, Block
<1>10. StatusIsTrue'
  BY DEF StatusIsTrue, Streams, StreamTypes, Block
<1> QED BY <1>1, <1>2, <1>3, <1>4, <1>5, <1>6, <1>7, <1>8, <1>9, <1>10 DEF Agree

\* A record is delivered, or the Send fails.
LEMMA KeepDeliver ==
  ASSUME ServerInv, NEW c \in Clients, Deliver(c)
  PROVE  ServerInv'
<1> USE ServerAssumption, Kinds DEF ServerInv, TypeOK, CallPlaces, HandlerPlaces, Deliver, Go,
   End, NoRun,
      serverVars, ringVars, runVars, subVars, callVars
<1>1. cursor[c] \in Nat /\ writeSeq \in Nat /\ Capacity \in Nat /\ oldestIndex \in Nat
  BY DEF StreamTypes, RingTypes, oldestIndex
<1>2. cursor'[c] \in 0 .. Total /\ cursor'[c] > cursor[c]
  <2>1. cursor[c] < writeSeq /\ writeSeq <= Total /\ Total \in Nat
    BY DEF RingTypes
  <2>2. oldestIndex < writeSeq
    BY <1>1, <2>1 DEF oldestIndex
  <2>3. cursor'[c] = (IF cursor[c] < oldestIndex THEN oldestIndex ELSE cursor[c]) + 1
    BY DEF StreamTypes
  <2> HIDE DEF Deliver
  <2> QED BY <1>1, <2>1, <2>2, <2>3
<1>3. cursor' \in [Clients -> 0 .. Total]
  <2>1. cursor' = [cursor EXCEPT ![c] = cursor'[c]]
    BY DEF StreamTypes
  <2> HIDE DEF Deliver
  <2> QED BY <1>2, <2>1 DEF StreamTypes
<1>4. c \in Block /\ ~left[c] /\ ~raced => gap'[c] = gap[c]
  <2>1. SUFFICES ASSUME c \in Block, ~left[c], ~raced PROVE gap'[c] = gap[c]
    OBVIOUS
  <2>2. c \in blocking
    BY <2>1 DEF Barrier, Accepted
  <2>3. ~(cursor[c] < oldestIndex)
    BY <1>1, <2>1, <2>2 DEF Barrier, InReach, oldestIndex
  <2>4. gap' = [gap EXCEPT ![c] = gap[c] \/ cursor[c] # cursor[c]]
    BY <2>3
  <2>5. gap \in [Clients -> BOOLEAN]
    BY DEF StreamTypes
  <2> HIDE Kinds, ServerAssumption DEF Deliver, ServerInv, TypeOK
  <2>6. gap[c] \in BOOLEAN
    BY <2>5
  <2>7. (gap[c] \/ cursor[c] # cursor[c]) = gap[c]
    BY <2>6, Zenon
  <2>8. gap' = [gap EXCEPT ![c] = gap[c]]
    BY <2>4, <2>7, Zenon
  <2> QED BY <2>5, <2>8
<1>5. RingTypes' /\ Places' /\ Apart' /\ Barrier'
  <2>1. \A d \in Clients \ {c} : hpc'[d] = hpc[d] /\ cursor'[d] = cursor[d]
    BY DEF StreamTypes
  <2>2. hpc[c] = "stream" /\ hpc'[c] \in {"stream", "leave"}
    BY DEF StreamTypes
  <2>3. UNCHANGED <<ctrl, call, blocking, seen, raced, writeSeq, end, setup, evicted, left, wpc,
                    emit>>
    OBVIOUS
  <2>4. Busy => emit' \in {"apply", "barrier"}
    BY DEF Busy, Places
  <2>5. \A d \in Clients : cursor[d] \in Nat
    BY DEF StreamTypes
  <2> HIDE Kinds DEF Deliver
  <2> QED BY <1>1, <1>2, <1>3, <2>1, <2>2, <2>3, <2>4, <2>5, Frame
<1>6. ServerTypes'
  BY ServerTypesStay
<1>7. RunTypes'
  BY DEF RunTypes
<1>8. StreamTypes'
  <2>1. gap' \in [Clients -> BOOLEAN]
    BY DEF StreamTypes
  <2>2. UNCHANGED <<setup, wpc, canceled, evicted, left>>
    OBVIOUS
  <2>3. \/ UNCHANGED <<hpc, status>>
        \/ hpc' = [hpc EXCEPT ![c] = "leave"] /\ status' = [status EXCEPT ![c] = "context"]
    OBVIOUS
  <2> HIDE Kinds, ServerAssumption DEF Deliver
  <2>4. /\ hpc' \in [Clients -> HandlerPlaces]
        /\ status' \in [Clients -> {"none", "ok", "context", "aborted", "refused"}]
    BY <2>3 DEF StreamTypes
  <2> QED BY <1>3, <2>1, <2>2, <2>3, <2>4 DEF StreamTypes
<1>9. Agree'
  BY DEF Agree, StreamTypes
<1>10. Life'
  BY DEF Life, Returned, StreamTypes
<1>11. Merger'
  BY DEF Merger, Reading, Life, Closed
<1>12. Ending'
  BY DEF Ending, Closed, NoManifest
<1>13. Streams'
  <2>1. \A d \in Clients \ {c} : hpc'[d] = hpc[d] /\ gap'[d] = gap[d] /\ status'[d] = status[d]
    BY DEF StreamTypes
  <2>2. hpc[c] = "stream" /\ hpc'[c] \in {"stream", "leave"} /\
        (status'[c] = status[c] \/ hpc'[c] = "leave")
    BY DEF StreamTypes
  <2>3. UNCHANGED <<setup, wpc, canceled, left, raced>>
    OBVIOUS
  <2> HIDE Kinds DEF Deliver
  <2>4. \A d \in Clients : gap'[d] /\ d \in Block => left[d] \/ raced
    BY <1>4, <2>1 DEF Streams
  <2>5. \A d \in Clients : status'[d] # "none" => hpc'[d] \in {"leave", "leaving", "done"}
    BY <2>1, <2>2 DEF Streams
  <2> QED BY <2>1, <2>2, <2>3, <2>4, <2>5 DEF Streams, Block
<1>14. StatusIsTrue'
  <2>1. \A d \in Clients \ {c} : cursor'[d] = cursor[d] /\ gap'[d] = gap[d] /\
        status'[d] = status[d]
    BY DEF StreamTypes
  <2>2. status'[c] = "none" \/ (status'[c] = "context" /\ left[c])
    BY DEF Streams, StreamTypes
  <2>3. UNCHANGED <<setup, end, left, raced, evicted>>
    OBVIOUS
  <2> HIDE Kinds DEF Deliver
  <2> QED BY <2>1, <2>2, <2>3 DEF StatusIsTrue, Block
<1> QED BY <1>1, <1>2, <1>3, <1>4, <1>5, <1>6, <1>7, <1>8, <1>9, <1>10, <1>11, <1>12, <1>13,
   <1>14 DEF Agree

\* The handler unsubscribes.
LEMMA KeepUnsubscribe ==
  ASSUME ServerInv, NEW c \in Clients, Unsubscribe(c)
  PROVE  ServerInv'
<1> USE ServerAssumption, Kinds DEF ServerInv, TypeOK, CallPlaces, HandlerPlaces, Unsubscribe,
   Go, NoRun,
      serverVars, ringVars, runVars, subVars, callVars
<1>1. RingTypes' /\ Places' /\ Apart' /\ Barrier' /\ (raced => raced')
  <2>1. hpc' = [hpc EXCEPT ![c] = "leaving"] /\ Ask(Handler(c), FALSE) /\
        call[Handler(c)] = "none"
    BY DEF Places
  <2>2. UNCHANGED <<ctrl, blocking, seen, writeSeq, end, setup, cursor, left, evicted, emit, wpc>>
    OBVIOUS
  <2> HIDE DEF Unsubscribe
  <2>3. hpc'[c] = "leaving" /\ \A d \in Clients \ {c} : hpc'[d] = hpc[d]
    BY <2>1 DEF StreamTypes
  <2>4. Handler(c) \in Callers /\ Handler(c)[1] = "handler" /\ Handler(c)[2] = c
    OBVIOUS
  <2> HIDE Kinds, ServerAssumption DEF ServerInv, TypeOK, CallPlaces, HandlerPlaces
  <2> QED BY <2>1, <2>2, <2>3, <2>4, AskKeeps
<1>2. ServerTypes'
  BY ServerTypesStay
<1>3. RunTypes'
  BY DEF RunTypes
<1>4. StreamTypes'
  BY DEF StreamTypes, Block
<1>5. Agree'
  BY DEF Agree, StreamTypes
<1>6. Life'
  BY DEF Life, Returned, StreamTypes
<1>7. Merger'
  BY DEF Merger, Reading, Life, Closed
<1>8. Ending'
  BY DEF Ending, Closed, NoManifest
<1>9. Streams'
  BY <1>1 DEF Streams, StreamTypes, Block
<1>10. StatusIsTrue'
  BY <1>1 DEF StatusIsTrue, Block
<1> QED BY <1>1, <1>2, <1>3, <1>4, <1>5, <1>6, <1>7, <1>8, <1>9, <1>10 DEF Agree

\* The watcher unsubscribes a client that is gone.
LEMMA KeepWatcherUnsubscribes ==
  ASSUME ServerInv, NEW c \in Clients, WatcherUnsubscribes(c)
  PROVE  ServerInv'
<1> USE ServerAssumption, Kinds DEF ServerInv, TypeOK, CallPlaces, HandlerPlaces,
   WatcherUnsubscribes, NoRun,
      serverVars, ringVars, runVars, subVars, callVars
<1>1. RingTypes' /\ Places' /\ Apart' /\ Barrier' /\ (raced => raced')
  <2>1. wpc' = [wpc EXCEPT ![c] = "leaving"] /\ Ask(Watcher(c), FALSE) /\
        call[Watcher(c)] = "none"
    BY DEF Places
  <2>2. UNCHANGED <<ctrl, blocking, seen, writeSeq, end, setup, cursor, left, evicted, emit, hpc>>
    OBVIOUS
  <2> HIDE DEF WatcherUnsubscribes
  <2>3. wpc'[c] = "leaving" /\ \A d \in Clients \ {c} : wpc'[d] = wpc[d]
    BY <2>1 DEF StreamTypes
  <2>4. Watcher(c) \in Callers /\ Watcher(c)[1] = "watcher" /\ Watcher(c)[2] = c
    OBVIOUS
  <2> HIDE Kinds, ServerAssumption DEF ServerInv, TypeOK, CallPlaces, HandlerPlaces
  <2> QED BY <2>1, <2>2, <2>3, <2>4, AskKeeps
<1>2. ServerTypes'
  BY ServerTypesStay
<1>3. RunTypes'
  BY DEF RunTypes
<1>4. StreamTypes'
  BY DEF StreamTypes, Block
<1>5. Agree'
  BY DEF Agree
<1>6. Life'
  BY DEF Life, Returned
<1>7. Merger'
  BY DEF Merger, Reading, Life, Closed
<1>8. Ending'
  BY DEF Ending, Closed, NoManifest
<1>9. Streams'
  BY <1>1 DEF Streams, ContextDone, StreamTypes, Block
<1>10. StatusIsTrue'
  BY <1>1 DEF StatusIsTrue, Block
<1> QED BY <1>1, <1>2, <1>3, <1>4, <1>5, <1>6, <1>7, <1>8, <1>9, <1>10 DEF Agree

\* The handler returns.
LEMMA KeepHandlerReturns ==
  ASSUME ServerInv, NEW c \in Clients, HandlerReturns(c)
  PROVE  ServerInv'
<1> USE ServerAssumption, Kinds DEF ServerInv, TypeOK, CallPlaces, HandlerPlaces,
   HandlerReturns, Go, Cancel, NoRun,
      serverVars, ringVars, runVars, subVars, callVars
<1>1. RingTypes' /\ Places' /\ Apart' /\ Barrier'
  <2>1. hpc' = [hpc EXCEPT ![c] = "done"] /\ Answered(Handler(c)) /\ Put(Handler(c), "none")
    OBVIOUS
  <2>2. UNCHANGED <<ctrl, blocking, seen, raced, writeSeq, end, setup, cursor, left, evicted,
                    emit, wpc>>
    OBVIOUS
  <2>3. hpc'[c] = "done" /\ \A d \in Clients \ {c} : hpc'[d] = hpc[d]
    BY <2>1 DEF StreamTypes
  <2>4. Handler(c) \in Callers /\ Handler(c)[1] = "handler" /\ Handler(c)[2] = c
    OBVIOUS
  <2>5. hpc'[c] # "count"
    BY <2>3
  <2> HIDE Kinds, ServerAssumption DEF ServerInv, TypeOK, CallPlaces, HandlerPlaces,
     HandlerReturns
  <2> QED BY <2>1, <2>2, <2>3, <2>4, <2>5, TakenKeeps
<1>2. ServerTypes'
  BY ServerTypesStay
<1>3. RunTypes'
  BY DEF RunTypes
<1>4. StreamTypes'
  BY DEF StreamTypes, Block
<1>5. Agree'
  BY DEF Agree, StreamTypes
<1>6. Life'
  BY DEF Life, Returned, StreamTypes
<1>7. Merger'
  BY DEF Merger, Reading, Life, Closed
<1>8. Ending'
  BY DEF Ending, Closed, NoManifest
<1>9. Streams'
  BY DEF Streams, StreamTypes, Block
<1>10. StatusIsTrue'
  BY DEF StatusIsTrue, Block
<1> QED BY <1>1, <1>2, <1>3, <1>4, <1>5, <1>6, <1>7, <1>8, <1>9, <1>10 DEF Agree

\* The watcher cancels the subscriber.
LEMMA KeepWatcherCancels ==
  ASSUME ServerInv, NEW c \in Clients, WatcherCancels(c)
  PROVE  ServerInv'
<1> USE ServerAssumption, Kinds DEF ServerInv, TypeOK, CallPlaces, HandlerPlaces,
   WatcherCancels, Cancel, NoRun,
      serverVars, ringVars, runVars, subVars, callVars
<1>1. RingTypes' /\ Places' /\ Apart' /\ Barrier'
  <2>1. wpc' = [wpc EXCEPT ![c] = "done"] /\ Answered(Watcher(c)) /\ Put(Watcher(c), "none")
    OBVIOUS
  <2>2. UNCHANGED <<ctrl, blocking, seen, raced, writeSeq, end, setup, cursor, left, evicted,
                    emit, hpc>>
    OBVIOUS
  <2>3. wpc'[c] = "done" /\ \A d \in Clients \ {c} : wpc'[d] = wpc[d]
    BY <2>1 DEF StreamTypes
  <2>4. Watcher(c) \in Callers /\ Watcher(c)[1] = "watcher" /\ Watcher(c)[2] = c
    OBVIOUS
  <2>5. hpc'[c] # "count"
    BY <2>3 DEF Streams
  <2> HIDE Kinds, ServerAssumption DEF ServerInv, TypeOK, CallPlaces, HandlerPlaces,
     WatcherCancels
  <2> QED BY <2>1, <2>2, <2>3, <2>4, <2>5, TakenKeeps
<1>2. ServerTypes'
  BY ServerTypesStay
<1>3. RunTypes'
  BY DEF RunTypes
<1>4. StreamTypes'
  BY DEF StreamTypes, Block
<1>5. Agree'
  BY DEF Agree
<1>6. Life'
  BY DEF Life, Returned
<1>7. Merger'
  BY DEF Merger, Reading, Life, Closed
<1>8. Ending'
  BY DEF Ending, Closed, NoManifest
<1>9. Streams'
  BY DEF Streams, StreamTypes, Block
<1>10. StatusIsTrue'
  BY DEF StatusIsTrue, Block
<1> QED BY <1>1, <1>2, <1>3, <1>4, <1>5, <1>6, <1>7, <1>8, <1>9, <1>10 DEF Agree

-----------------------------------------------------------------------------
(***************************************************************************)
(* The invariant, and the properties.                                      *)
(***************************************************************************)

LEMMA ServerInitial == Init => ServerInv
<1> SUFFICES ASSUME Init PROVE ServerInv
  OBVIOUS
<1> USE ServerAssumption DEF Init, CallPlaces, HandlerPlaces
<1>1. ServerTypes
  <2>1. mclosed \in 0 .. 1 /\ mu \in {Nobody} \cup {Handler(c) : c \in Clients}
    OBVIOUS
  <2> QED BY <2>1 DEF ServerTypes
<1>2. RingTypes
  <2>1. ctrl \in [started : BOOLEAN, closed : BOOLEAN]
    OBVIOUS
  <2>2. call \in [Callers -> CallPlaces]
    OBVIOUS
  <2>3. seen \in [Callers -> SUBSET Block]
    OBVIOUS
  <2>4. writeSeq \in 0 .. Total /\ end \in {0, writeSeq + 1}
    OBVIOUS
  <2> HIDE DEF Init
  <2>5. blocking = {} /\ raced = FALSE
    BY DEF Init
  <2> QED BY <2>1, <2>2, <2>3, <2>4, <2>5 DEF RingTypes
<1> USE Kinds
<1>3. RunTypes
  BY DEF RunTypes
<1>4. StreamTypes
  BY DEF StreamTypes
<1>5. Agree /\ Life /\ Merger
  BY DEF Agree, Life, Merger, Reading
<1>6. Ending
  BY DEF Ending, Closed, NoManifest
<1>7. Places
  BY DEF Places
<1>8. Apart
  BY DEF Apart, Changing
<1>9. Barrier
  BY DEF Barrier, Accepted, Block
<1>10. Streams /\ StatusIsTrue
  BY DEF Streams, StatusIsTrue
<1> QED BY <1>1, <1>2, <1>3, <1>4, <1>5, <1>6, <1>7, <1>8, <1>9, <1>10
        DEF ServerInv, TypeOK, CallPlaces, HandlerPlaces, Agree

LEMMA ServerStep == ServerInv /\ [Next]_vars => ServerInv'
<1> SUFFICES ASSUME ServerInv, [Next]_vars PROVE ServerInv'
  OBVIOUS
<1>1. CASE NewServer \/ Signal \/ MainSteps
  BY <1>1, KeepNewServer, KeepSignal, KeepServeReturns, KeepClose, KeepCloseReturns
  DEF MainSteps
<1>2. CASE RunSteps
  BY <1>2, KeepStartEmitting, KeepBetweenRecords, KeepApplyLoad, KeepApplyStore, KeepRecordDue,
     KeepStreamEnd, KeepRunFails, KeepWriteRecord, KeepBarrierSpin, KeepEndFailed,
     KeepRunClosesMerger, KeepWriteManifest
  DEF RunSteps
<1>3. CASE Evict
  BY <1>3, KeepEvict
<1>4. ASSUME NEW c \in Clients, Call(c) \/ Disconnect(c) PROVE ServerInv'
  BY <1>4, KeepCall, KeepDisconnect
<1>5. ASSUME NEW g \in Callers, DirectChange(g) PROVE ServerInv'
  BY <1>5, KeepDirectLoad, KeepDirectStore DEF DirectChange
<1>6. ASSUME NEW c \in Clients, HandlerSteps(c) PROVE ServerInv'
  BY <1>5, <1>6, Kinds, KeepSpeedMismatch, KeepAttach, KeepJoinResolve, KeepJoinAnswered,
     KeepCountSubscriber, KeepDeliver, KeepStreamEnds, KeepUnsubscribe, KeepHandlerReturns
  DEF HandlerSteps
<1>7. ASSUME NEW c \in Clients, WatcherSteps(c) PROVE ServerInv'
  BY <1>5, <1>7, Kinds, KeepWatcherUnsubscribes, KeepWatcherCancels DEF WatcherSteps
<1>8. CASE UNCHANGED vars
  <2> USE <1>8 DEF ServerInv, TypeOK, CallPlaces, HandlerPlaces, vars, serverVars, ringVars,
     runVars, subVars, callVars
  <2>1. ServerTypes'
    BY ServerTypesStay
  <2>2. RunTypes' /\ StreamTypes'
    BY DEF RunTypes, StreamTypes
  <2>3. Agree' /\ Life' /\ Merger' /\ Ending'
    BY DEF Agree, Life, Returned, Merger, Ending
  <2>4. RingTypes' /\ Places' /\ Apart' /\ Barrier'
    BY Frame DEF Busy, Places, StreamTypes
  <2>5. Streams' /\ StatusIsTrue'
    BY DEF Streams, StatusIsTrue, Block
  <2> QED BY <2>1, <2>2, <2>3, <2>4, <2>5 DEF Agree
<1> QED BY <1>1, <1>2, <1>3, <1>4, <1>6, <1>7, <1>8 DEF Next

LEMMA ServerInvariance == Spec => []ServerInv
BY ServerInitial, ServerStep, PTL DEF Spec

\* Every variable of the server keeps its type, whatever interleaves and whatever
\* fails; the mutex is held inside attach and nowhere else, only Block clients are ever
\* on the barrier's list or on a list about to be stored back, and the end of the ring
\* is the number of records written (Server, Ring, controlQueue).
THEOREM TypeCorrect == Spec => []TypeOK
<1>1. ServerInv => TypeOK
  BY DEF ServerInv
<1> QED BY <1>1, ServerInvariance, PTL

\* The run never reads a closed file, the merger is closed once, and main returns
\* with the files closed, for every number of clients and however they and the
\* signal interleave (run, Close).
THEOREM FilesAreHeld == Spec => []FilesOutliveTheRun
<1>1. ServerInv => FilesOutliveTheRun
  <2> SUFFICES ASSUME ServerInv PROVE FilesOutliveTheRun
    OBVIOUS
  <2>1. mclosed <= 1
    BY DEF ServerInv, TypeOK, CallPlaces, HandlerPlaces, ServerTypes
  <2>2. main = "returned" => ~files
    BY DEF ServerInv, TypeOK, CallPlaces, HandlerPlaces, Life, Merger
  <2> QED BY <2>1, <2>2 DEF ServerInv, FilesOutliveTheRun, Merger, Reading
<1> QED BY <1>1, ServerInvariance, PTL

\* What a stream's status says is true: OK after everything, and with nothing missed
\* by a Block client that stayed unless two unlocked changes of Ring.blocking have
\* overlapped; the context's error for a client that left; Aborted for one the watchdog
\* evicted (deliveryStatus, Subscribe, Unsubscribe).
THEOREM StatusesAreTrue == Spec => []StatusIsTrue
<1>1. ServerInv => StatusIsTrue
  BY DEF ServerInv
<1> QED BY <1>1, ServerInvariance, PTL

\* Close returns after the run's manifest is written, and reports what it says; where
\* there is none although a path was given, and for any other failure of the run, it
\* reports an error (run, writeRunManifest, Close).
THEOREM CloseReports == Spec => []CloseReportsTheRun
<1>1. ServerInv => CloseReportsTheRun
  BY DEF ServerInv, TypeOK, CallPlaces, HandlerPlaces, CloseReportsTheRun, Life, Ending, Closed
<1> QED BY <1>1, ServerInvariance, PTL

=====
