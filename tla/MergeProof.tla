----------------------------- MODULE MergeProof -----------------------------
(***************************************************************************)
(* The merge, for every input, batch shape, number of venues and size of   *)
(* the pool.  First, its batches are recycled without being shared and its *)
(* files outlive the decoding: each batch has one place, in the free list, *)
(* in the owner's hand, among those in flight, or with the merge.  Then,   *)
(* what it returns is a prefix of the sorted merge and it stops where the  *)
(* input says: the loser tree is a tournament, the batches of a venue      *)
(* arrive in file order and cover it without a hole, and a fault stops the *)
(* run before the batch that holds it.                                     *)
(***************************************************************************)
EXTENDS Merge, SequenceTheorems, FiniteSetTheorems, WellFoundedInduction, TLAPS

\* A sequence that holds each of its elements once.
OnceEach(s) ==
  /\ s \in Seq(ToSet(s))
  /\ \A i, j \in 1 .. Len(s) : s[i] = s[j] => i = j

Work == busy \cup ToSet(queue)

\* b was handed to the pool, and its owner has not taken it back.
Issued(v, b) == b \in ToSet(inflight[v]) \/ (hand[v] = b /\ opc[v] = "await")

\* The variables are functions of the venues and of the batches.
Shaped ==
  /\ K \in Nat /\ shape.batches \in Nat \ {0}
  /\ DOMAIN opc = Venues /\ DOMAIN hand = Venues /\ DOMAIN inflight = Venues
  /\ DOMAIN free = Venues /\ DOMAIN held = Venues /\ DOMAIN batch = Venues
  /\ \A v \in Venues : DOMAIN batch[v] = BatchIds
  /\ \A v \in Venues : \A b \in BatchIds :
       "done" \in DOMAIN batch[v][b] /\ batch[v][b].done \in BOOLEAN

\* A batch of venue v is in one place.
Owned(v) ==
  /\ OnceEach(free[v]) /\ ToSet(free[v]) \subseteq BatchIds
  /\ OnceEach(inflight[v]) /\ ToSet(inflight[v]) \subseteq BatchIds
  /\ hand[v] \in {0} \cup BatchIds /\ held[v] \in {0} \cup BatchIds
  /\ opc[v] \in {"none", "issue", "take"} => hand[v] = 0
  /\ opc[v] \in {"put", "await", "send"} => hand[v] # 0
  /\ ToSet(free[v]) \cap ToSet(inflight[v]) = {}
  /\ hand[v] \notin ToSet(free[v]) \cup ToSet(inflight[v])
  /\ held[v] \notin ToSet(free[v]) \cup ToSet(inflight[v])
  /\ held[v] = hand[v] => held[v] = 0

\* A work item is for a batch that was issued and is not finished, and there is one
\* for a batch.
Queued ==
  /\ OnceEach(queue) /\ busy \cap ToSet(queue) = {}
  /\ \A it \in Work : /\ it.v \in Venues /\ it.b \in BatchIds
                      /\ Issued(it.v, it.b) /\ ~batch[it.v][it.b].done
  /\ \A i, j \in Work : i.v = j.v /\ i.b = j.b => i = j

\* A finished batch is one its owner still has to look at.
Finished ==
  \A v \in Venues : \A b \in BatchIds :
    batch[v][b].done => b \in ToSet(inflight[v]) \/ (hand[v] = b /\ opc[v] = "await")

\* Which goroutines there are.
Phase ==
  /\ mpc = "new" => \A v \in Venues : /\ opc[v] = "none" /\ held[v] = 0
                                       /\ inflight[v] = <<>> /\ free[v] = <<>>
  /\ inline => \A v \in Venues : opc[v] = "none" /\ inflight[v] = <<>>
  /\ mpc = "drain" => ask \in Nat /\ \A v \in Venues : v < ask => opc[v] = "closed"
  /\ mpc = "closed" => Work = {} /\ \A v \in Venues : opc[v] \in {"none", "closed"}
  /\ ~open => mpc = "closed"

MergeInv == Shaped /\ (\A v \in Venues : Owned(v)) /\ Queued /\ Finished /\ Phase

-----------------------------------------------------------------------------
(***************************************************************************)
(* Sequences that hold each element once.                                  *)
(***************************************************************************)

LEMMA EmptyOnce ==
  /\ OnceEach(<<>>) /\ ToSet(<<>>) = {}
  /\ \A s : OnceEach(s) /\ ToSet(s) = {} => s = <<>>
<1>1. OnceEach(<<>>) /\ ToSet(<<>>) = {}
  BY EmptySeq DEF OnceEach, ToSet
<1>2. ASSUME NEW s, OnceEach(s), ToSet(s) = {} PROVE s = <<>>
  <2>1. s \in Seq(ToSet(s))
    BY <1>2 DEF OnceEach
  <2>2. CASE Len(s) # 0
    <3>1. 1 \in 1 .. Len(s)
      BY <2>1, <2>2, LenProperties
    <3>2. s[1] \in ToSet(s)
      BY <2>1, <3>1, ElementOfSeq
    <3> QED BY <1>2, <3>2
  <2> QED BY <2>1, <2>2, EmptySeq
<1> QED BY <1>1, <1>2

LEMMA AppendOnce ==
  ASSUME NEW s, NEW x, OnceEach(s), x \notin ToSet(s)
  PROVE  OnceEach(Append(s, x)) /\ ToSet(Append(s, x)) = ToSet(s) \cup {x}
<1> DEFINE S == ToSet(s) \cup {x}
           t == Append(s, x)
<1>1. s \in Seq(ToSet(s)) /\ s \in Seq(S)
  BY SeqMonotonic DEF OnceEach
<1>2. /\ t \in Seq(S) /\ Len(t) = Len(s) + 1 /\ Len(s) \in Nat
      /\ \A i \in 1 .. Len(s) : t[i] = s[i]
      /\ t[Len(s) + 1] = x
  BY <1>1, AppendProperties, LenProperties
<1>3. DOMAIN t = 1 .. Len(s) + 1 /\ DOMAIN s = 1 .. Len(s)
  BY <1>1, <1>2, LenProperties
<1> HIDE DEF t
<1>4. ToSet(t) = S
  <2>1. ToSet(t) = {t[i] : i \in 1 .. Len(s) + 1} /\ ToSet(s) = {s[i] : i \in 1 .. Len(s)}
    BY <1>3 DEF ToSet
  <2>2. ToSet(t) \subseteq S
    BY <1>2, <2>1
  <2>3. S \subseteq ToSet(t)
    BY <1>2, <2>1
  <2> QED BY <2>2, <2>3
<1>5. \A i \in 1 .. Len(s) : s[i] \in ToSet(s)
  BY <1>1, ElementOfSeq
<1>6. \A i, j \in 1 .. Len(t) : t[i] = t[j] => i = j
  <2> SUFFICES ASSUME NEW i \in 1 .. Len(t), NEW j \in 1 .. Len(t), t[i] = t[j] PROVE i = j
    OBVIOUS
  <2>1. i \in 1 .. Len(s) \/ i = Len(s) + 1
    BY <1>2
  <2>2. j \in 1 .. Len(s) \/ j = Len(s) + 1
    BY <1>2
  <2> QED BY <1>2, <1>5, <2>1, <2>2 DEF OnceEach
<1>7. OnceEach(t) /\ ToSet(t) = S
  BY <1>2, <1>4, <1>6 DEF OnceEach
<1> QED BY <1>7 DEF t

LEMMA TailOnce ==
  ASSUME NEW s, OnceEach(s), s # <<>>
  PROVE  /\ OnceEach(Tail(s)) /\ Head(s) \in ToSet(s)
         /\ ToSet(Tail(s)) = ToSet(s) \ {Head(s)}
<1> DEFINE t == Tail(s)
<1>1. s \in Seq(ToSet(s))
  BY DEF OnceEach
<1>2. /\ Head(s) = s[1] /\ t \in Seq(ToSet(s)) /\ Len(t) = Len(s) - 1
      /\ Len(s) \in Nat /\ Len(s) >= 1
      /\ \A i \in 1 .. Len(t) : t[i] = s[i + 1]
  BY <1>1, HeadTailProperties, LenProperties, EmptySeq
<1>3. DOMAIN t = 1 .. (Len(s) - 1) /\ DOMAIN s = 1 .. Len(s)
  BY <1>1, <1>2, LenProperties
<1> HIDE DEF t
<1>4. \A i, j \in 1 .. Len(t) : t[i] = t[j] => i = j
  <2> SUFFICES ASSUME NEW i \in 1 .. Len(t), NEW j \in 1 .. Len(t), t[i] = t[j] PROVE i = j
    OBVIOUS
  <2>1. i + 1 \in 1 .. Len(s) /\ j + 1 \in 1 .. Len(s) /\ s[i + 1] = s[j + 1]
    BY <1>2
  <2>2. i + 1 = j + 1
    BY <2>1 DEF OnceEach
  <2> QED BY <1>2, <2>2
<1>5. ToSet(t) = ToSet(s) \ {s[1]}
  <2>1. ToSet(t) = {t[i] : i \in 1 .. (Len(s) - 1)} /\ ToSet(s) = {s[i] : i \in 1 .. Len(s)}
    BY <1>3 DEF ToSet
  <2>2. ASSUME NEW i \in 1 .. (Len(s) - 1) PROVE t[i] \in ToSet(s) /\ t[i] # s[1]
    <3>1. i + 1 \in 1 .. Len(s) /\ 1 \in 1 .. Len(s) /\ i + 1 # 1 /\ t[i] = s[i + 1]
      BY <1>2
    <3> QED BY <2>1, <3>1 DEF OnceEach
  <2>3. ASSUME NEW i \in 1 .. Len(s), s[i] # s[1] PROVE s[i] \in ToSet(t)
    <3>1. i - 1 \in 1 .. (Len(s) - 1) /\ (i - 1) + 1 = i
      BY <1>2, <2>3
    <3>2. t[i - 1] = s[i]
      BY <1>2, <3>1
    <3> QED BY <2>1, <3>1, <3>2
  <2> QED BY <2>1, <2>2, <2>3
<1>6. t \in Seq(ToSet(t))
  <2>1. \A i \in 1 .. Len(t) : t[i] \in ToSet(t)
    BY <1>2, <1>3 DEF ToSet
  <2>2. t = [i \in 1 .. Len(t) |-> t[i]] /\ Len(t) \in Nat
    BY <1>2, LenProperties
  <2> QED BY <2>1, <2>2, IsASeq
<1>7. s[1] \in ToSet(s)
  BY <1>1, <1>2, ElementOfSeq
<1>8. OnceEach(t) /\ ToSet(t) = ToSet(s) \ {Head(s)}
  BY <1>2, <1>4, <1>5, <1>6 DEF OnceEach
<1> QED BY <1>2, <1>7, <1>8 DEF t

LEMMA CountOnce ==
  ASSUME NEW s, OnceEach(s)
  PROVE  Cardinality(ToSet(s)) = Len(s)
<1>1. s \in [1 .. Len(s) -> ToSet(s)] /\ Len(s) \in Nat /\ DOMAIN s = 1 .. Len(s)
  BY LenProperties DEF OnceEach
<1>2. s \in Bijection(1 .. Len(s), ToSet(s))
  BY <1>1 DEF OnceEach, ToSet, Bijection, Injection, Surjection, IsInjective
<1>3. ExistsBijection(1 .. Len(s), ToSet(s))
  BY <1>2 DEF ExistsBijection
<1>4. IsFiniteSet(1 .. Len(s)) /\ Cardinality(1 .. Len(s)) = Len(s)
  <2>1. /\ IsFiniteSet(1 .. Len(s))
        /\ Cardinality(1 .. Len(s)) = IF 1 > Len(s) THEN 0 ELSE Len(s) - 1 + 1
    <3>1. 1 \in Int /\ Len(s) \in Int
      BY <1>1
    <3> QED BY <3>1, FS_Interval, Zenon
  <2> QED BY <1>1, <2>1
<1> QED BY <1>3, <1>4, FS_Bijection

\* The list a feed starts with.
LEMMA CountingOnce ==
  ASSUME NEW n \in Nat
  PROVE  LET s == [i \in 1 .. n |-> i] IN OnceEach(s) /\ ToSet(s) = 1 .. n
<1> DEFINE s == [i \in 1 .. n |-> i]
<1>1. ToSet(s) = 1 .. n
  BY DEF ToSet
<1>2. s \in Seq(1 .. n)
  OBVIOUS
<1>3. Len(s) = n
  OBVIOUS
<1> QED BY <1>1, <1>2, <1>3 DEF OnceEach

-----------------------------------------------------------------------------
(***************************************************************************)
(* What a step leaves alone.                                               *)
(***************************************************************************)

LEMMA SameInput ==
  ASSUME UNCHANGED input
  PROVE  /\ K' = K /\ Venues' = Venues /\ BatchIds' = BatchIds
         /\ inline' = inline /\ shape' = shape
BY DEF input, K, Venues, BatchIds, inline

\* A venue whose variables a step does not touch.
LEMMA OwnedKept ==
  ASSUME NEW u, Owned(u), BatchIds' = BatchIds,
         opc'[u] = opc[u], hand'[u] = hand[u], inflight'[u] = inflight[u],
         free'[u] = free[u], held'[u] = held[u]
  PROVE  Owned(u)'
BY DEF Owned

\* A step that moves no batch.
LEMMA QuietStep ==
  ASSUME MergeInv, UNCHANGED <<input, opc, hand, inflight, free, held, batch, queue, busy>>
  PROVE  /\ Shaped' /\ (\A v \in Venues' : Owned(v)') /\ Queued' /\ Finished'
         /\ Work' = Work
         /\ inline' => \A v \in Venues : opc'[v] = "none" /\ inflight'[v] = <<>>
<1>1. K' = K /\ Venues' = Venues /\ BatchIds' = BatchIds /\ inline' = inline /\ shape' = shape
  BY SameInput
<1> USE DEF MergeInv
<1>2. Shaped'
  BY <1>1 DEF Shaped
<1>3. \A v \in Venues' : Owned(v)'
  BY <1>1, OwnedKept
<1>4. Work' = Work
  BY DEF Work
<1>5. Queued' /\ Finished'
  BY <1>1, <1>4 DEF Queued, Finished, Issued
<1> QED BY <1>1, <1>2, <1>3, <1>4, <1>5 DEF Phase

\* A step of the caller that moves no batch and does not end the run.
LEMMA QuietCaller ==
  ASSUME MergeInv, UNCHANGED <<input, opc, hand, inflight, free, held, batch, queue, busy, open>>,
         mpc # "closed", mpc' \notin {"new", "drain", "closed"}
  PROVE  MergeInv'
<1>1. K' = K /\ Venues' = Venues /\ BatchIds' = BatchIds /\ inline' = inline /\ shape' = shape
  BY SameInput
<1>2. Phase'
  BY <1>1, QuietStep DEF Phase, MergeInv
<1> QED BY QuietStep, <1>2 DEF MergeInv

-----------------------------------------------------------------------------
(***************************************************************************)
(* The owners.                                                             *)
(***************************************************************************)

LEMMA KeepIssue ==
  ASSUME MergeInv, NEW v \in Venues, Issue(v)
  PROVE  MergeInv'
<1> USE DEF MergeInv
<1>0. K' = K /\ Venues' = Venues /\ BatchIds' = BatchIds /\ inline' = inline /\ shape' = shape
  BY SameInput DEF Issue
<1>1. UNCHANGED <<input, free, batch, queue, busy, mpc, ask, held, abort, open>> /\ Work' = Work
  BY DEF Issue, pool, Work
<1>2. \A u \in Venues \ {v} : opc'[u] = opc[u] /\ hand'[u] = hand[u] /\ inflight'[u] = inflight[u]
  BY DEF Issue, Shaped
<1>3. Owned(v) /\ opc[v] = "issue" /\ hand[v] = 0
  BY DEF Issue, Owned
<1>4. \/ opc'[v] \in {"take", "closed"} /\ hand'[v] = hand[v] /\ inflight'[v] = inflight[v]
      \/ /\ opc'[v] = "await" /\ inflight[v] # <<>>
         /\ hand'[v] = Head(inflight[v]) /\ inflight'[v] = Tail(inflight[v])
  BY DEF Issue, Shaped
<1>5. \/ ToSet(inflight'[v]) = ToSet(inflight[v]) /\ hand'[v] = 0 /\ opc'[v] \in {"take", "closed"}
      \/ /\ hand'[v] \in ToSet(inflight[v]) /\ opc'[v] = "await"
         /\ ToSet(inflight'[v]) = ToSet(inflight[v]) \ {hand'[v]}
  BY <1>3, <1>4, TailOnce DEF Owned
<1>6. OnceEach(inflight'[v])
  BY <1>3, <1>4, TailOnce DEF Owned
<1>7. Shaped'
  BY <1>0, <1>1 DEF Shaped, Issue
<1>8. \A u \in Venues' : Owned(u)'
  <2>1. Owned(v)'
    BY <1>0, <1>1, <1>3, <1>5, <1>6 DEF Owned, BatchIds, Shaped
  <2> QED BY <1>0, <1>1, <1>2, <2>1, OwnedKept
<1>9. \A u \in Venues : \A b : Issued(u, b) => Issued(u, b)'
  BY <1>2, <1>3, <1>5 DEF Issued
<1>10. Queued'
  BY <1>0, <1>1, <1>9 DEF Queued
<1>11. Finished'
  BY <1>0, <1>1, <1>2, <1>3, <1>5 DEF Finished
<1>12. Phase'
  BY <1>0, <1>1, <1>2, <1>3, <1>4 DEF Phase, Shaped
<1> QED BY <1>7, <1>8, <1>10, <1>11, <1>12

LEMMA KeepTakeFree ==
  ASSUME MergeInv, NEW v \in Venues, TakeFree(v)
  PROVE  MergeInv'
<1> USE DEF MergeInv
<1>0. K' = K /\ Venues' = Venues /\ BatchIds' = BatchIds /\ inline' = inline /\ shape' = shape
  BY SameInput DEF TakeFree
<1>1. UNCHANGED <<input, inflight, batch, queue, busy, mpc, ask, held, abort, open>> /\ Work' = Work
  BY DEF TakeFree, pool, Work
<1>2. \A u \in Venues \ {v} : opc'[u] = opc[u] /\ hand'[u] = hand[u] /\ free'[u] = free[u]
  BY DEF TakeFree, Shaped
<1>3. Owned(v) /\ opc[v] = "take" /\ hand[v] = 0 /\ opc'[v] = "put"
  BY DEF TakeFree, Owned, Shaped
<1>4. free[v] # <<>> /\ hand'[v] = Head(free[v]) /\ free'[v] = Tail(free[v])
  BY DEF TakeFree, Shaped
<1>5. /\ hand'[v] \in ToSet(free[v]) /\ OnceEach(free'[v])
      /\ ToSet(free'[v]) = ToSet(free[v]) \ {hand'[v]}
  BY <1>3, <1>4, TailOnce DEF Owned
<1>6. Shaped'
  BY <1>0, <1>1 DEF Shaped, TakeFree
<1>7. \A u \in Venues' : Owned(u)'
  <2>1. Owned(v)'
    BY <1>0, <1>1, <1>3, <1>5 DEF Owned, BatchIds, Shaped
  <2> QED BY <1>0, <1>1, <1>2, <2>1, OwnedKept
<1>8. \A u \in Venues : \A b : Issued(u, b) => Issued(u, b)'
  BY <1>1, <1>2, <1>3 DEF Issued
<1>9. Queued'
  BY <1>0, <1>1, <1>8 DEF Queued
<1>10. Finished'
  BY <1>0, <1>1, <1>2, <1>3 DEF Finished
<1>11. Phase'
  BY <1>0, <1>1, <1>2, <1>3 DEF Phase, Shaped
<1> QED BY <1>6, <1>7, <1>9, <1>10, <1>11

\* The item put in the queue is the only one for its batch.
LEMMA KeepPutWork ==
  ASSUME MergeInv, NEW v \in Venues, PutWork(v)
  PROVE  MergeInv'
<1> USE DEF MergeInv
<1>0. K' = K /\ Venues' = Venues /\ BatchIds' = BatchIds /\ inline' = inline /\ shape' = shape
  BY SameInput DEF PutWork
<1>1. UNCHANGED <<input, free, batch, busy, mpc, ask, held, abort, open>>
  BY DEF PutWork
<1>2. \A u \in Venues \ {v} : opc'[u] = opc[u] /\ hand'[u] = hand[u] /\ inflight'[u] = inflight[u]
  BY DEF PutWork, Shaped
<1>3. /\ Owned(v) /\ opc[v] = "put" /\ hand[v] \in BatchIds /\ opc'[v] = "issue" /\ hand'[v] = 0
      /\ inflight'[v] = Append(inflight[v], hand[v])
  BY DEF PutWork, Owned, Shaped
<1>4. OnceEach(inflight'[v]) /\ ToSet(inflight'[v]) = ToSet(inflight[v]) \cup {hand[v]}
  BY <1>3, AppendOnce DEF Owned
<1>5. PICK to : queue' = Append(queue, [v |-> v, b |-> hand[v], from |-> opos[v], to |-> to])
  BY DEF PutWork
<1>6. PICK h, it : h = hand[v] /\ it.v = v /\ it.b = h /\ queue' = Append(queue, it)
  BY <1>5
<1>7. ~Issued(v, h)
  BY <1>3, <1>6 DEF Issued, Owned
<1>8. \A i \in Work : i.v = v => i.b # h
  BY <1>7 DEF Queued
<1>9. it \notin Work
  BY <1>6, <1>8
<1>10. OnceEach(queue') /\ ToSet(queue') = ToSet(queue) \cup {it} /\ Work' = Work \cup {it}
  BY <1>1, <1>6, <1>9, AppendOnce DEF Queued, Work
<1>11. ~batch[v][h].done
  BY <1>3, <1>6 DEF Finished, Owned
<1>12. Shaped'
  BY <1>0, <1>1 DEF Shaped, PutWork
<1>13. \A u \in Venues' : Owned(u)'
  <2>1. Owned(v)'
    BY <1>0, <1>1, <1>3, <1>4 DEF Owned, BatchIds, Shaped
  <2> QED BY <1>0, <1>1, <1>2, <2>1, OwnedKept
<1>14. Issued(v, h)' /\ \A u \in Venues : \A b : Issued(u, b) => Issued(u, b)'
  BY <1>2, <1>3, <1>4, <1>6 DEF Issued
<1>15. Queued'
  <2>1. busy' \cap ToSet(queue') = {}
    BY <1>1, <1>9, <1>10 DEF Queued, Work
  <2>2. \A i \in Work' : /\ i.v \in Venues /\ i.b \in BatchIds
                         /\ Issued(i.v, i.b)' /\ ~batch[i.v][i.b].done
    BY <1>3, <1>6, <1>10, <1>11, <1>14 DEF Queued
  <2>3. \A i, j \in Work' : i.v = j.v /\ i.b = j.b => i = j
    BY <1>6, <1>8, <1>10 DEF Queued
  <2> QED BY <1>0, <1>1, <1>10, <2>1, <2>2, <2>3 DEF Queued
<1>16. Finished'
  BY <1>0, <1>1, <1>2, <1>3, <1>4 DEF Finished
<1>17. Phase'
  BY <1>0, <1>1, <1>2, <1>3 DEF Phase, Shaped
<1> QED BY <1>12, <1>13, <1>15, <1>16, <1>17

LEMMA KeepAwaitDone ==
  ASSUME MergeInv, NEW v \in Venues, AwaitDone(v)
  PROVE  MergeInv'
<1> USE DEF MergeInv
<1>0. K' = K /\ Venues' = Venues /\ BatchIds' = BatchIds /\ inline' = inline /\ shape' = shape
  BY SameInput DEF AwaitDone
<1>1. /\ UNCHANGED <<input, hand, inflight, free, queue, busy, mpc, ask, held, abort, open>>
      /\ Work' = Work
  BY DEF AwaitDone, pool, Work
<1>2. /\ \A u \in Venues \ {v} : opc'[u] = opc[u]
      /\ opc'[v] \in {"send", "closed"} /\ opc[v] = "await" /\ batch[v][hand[v]].done
  BY DEF AwaitDone, Shaped
<1>3. Owned(v) /\ hand[v] \in BatchIds
  BY <1>2 DEF Owned
<1>4. /\ DOMAIN batch' = Venues
      /\ \A u \in Venues : DOMAIN batch'[u] = BatchIds
      /\ \A u \in Venues, b \in BatchIds : (u = v => b # hand[v]) => batch'[u][b] = batch[u][b]
      /\ "done" \in DOMAIN batch'[v][hand[v]] /\ batch'[v][hand[v]].done = FALSE
  <2>1. CASE abort
    BY <2>1, <1>3 DEF AwaitDone, Shaped
  <2>2. CASE ~abort
    BY <2>2, <1>3 DEF AwaitDone, Shaped
  <2> QED BY <2>1, <2>2
<1>5. \A it \in Work : it.v = v => it.b # hand[v]
  BY <1>2 DEF Queued
<1>6. Shaped'
  <2>1. DOMAIN opc' = Venues
    BY DEF AwaitDone, Shaped
  <2>2. \A u \in Venues : \A b \in BatchIds :
          "done" \in DOMAIN batch'[u][b] /\ batch'[u][b].done \in BOOLEAN
    BY <1>4 DEF Shaped
  <2> QED BY <1>0, <1>1, <1>4, <2>1, <2>2 DEF Shaped
<1>7. \A u \in Venues' : Owned(u)'
  <2>1. Owned(v)'
    BY <1>0, <1>1, <1>2, <1>3 DEF Owned
  <2> QED BY <1>0, <1>1, <1>2, <2>1, OwnedKept
<1>8. \A u \in Venues : \A b : (u = v => b # hand[v]) => (Issued(u, b) => Issued(u, b)')
  BY <1>1, <1>2 DEF Issued
<1>9. Queued'
  BY <1>0, <1>1, <1>4, <1>5, <1>8 DEF Queued
<1>10. Finished'
  BY <1>0, <1>1, <1>2, <1>4 DEF Finished
<1>11. Phase'
  BY <1>0, <1>1, <1>2 DEF Phase, Shaped
<1> QED BY <1>6, <1>7, <1>9, <1>10, <1>11

-----------------------------------------------------------------------------
(***************************************************************************)
(* The pool.                                                               *)
(***************************************************************************)

LEMMA KeepTakeWork ==
  ASSUME MergeInv, TakeWork
  PROVE  MergeInv'
<1> USE DEF MergeInv
<1>0. K' = K /\ Venues' = Venues /\ BatchIds' = BatchIds /\ inline' = inline /\ shape' = shape
  BY SameInput DEF TakeWork
<1>1. UNCHANGED <<input, opc, hand, inflight, free, batch, mpc, ask, held, abort, open>>
  BY DEF TakeWork, owners
<1>2. /\ queue # <<>> /\ busy' = busy \cup {Head(queue)} /\ queue' = Tail(queue)
  BY DEF TakeWork
<1>3. /\ OnceEach(queue') /\ Head(queue) \in ToSet(queue)
      /\ ToSet(queue') = ToSet(queue) \ {Head(queue)}
  BY <1>2, TailOnce DEF Queued
<1>4. Work' = Work
  BY <1>2, <1>3 DEF Work
<1>5. Shaped'
  BY <1>0, <1>1 DEF Shaped
<1>6. \A u \in Venues' : Owned(u)'
  BY <1>0, <1>1, OwnedKept
<1>7. Queued'
  <2>1. busy' \cap ToSet(queue') = {}
    BY <1>2, <1>3 DEF Queued
  <2> QED BY <1>0, <1>1, <1>3, <1>4, <2>1 DEF Queued, Issued
<1>8. Finished'
  BY <1>0, <1>1 DEF Finished
<1>9. Phase'
  BY <1>0, <1>1, <1>4 DEF Phase
<1> QED BY <1>5, <1>6, <1>7, <1>8, <1>9

LEMMA KeepFinishWork ==
  ASSUME MergeInv, FinishWork
  PROVE  MergeInv'
<1> USE DEF MergeInv
<1>0. K' = K /\ Venues' = Venues /\ BatchIds' = BatchIds /\ inline' = inline /\ shape' = shape
  BY SameInput DEF FinishWork
<1>1. UNCHANGED <<input, opc, hand, inflight, free, queue, mpc, ask, held, abort, open>>
  BY DEF FinishWork, owners
<1>2. PICK it \in busy :
        /\ batch' = [batch EXCEPT ![it.v][it.b] =
                       [fill(it.v, it.from, it.to, FALSE) EXCEPT !.done = TRUE]]
        /\ busy' = busy \ {it}
  BY DEF FinishWork
<1>3. "done" \in DOMAIN fill(it.v, it.from, it.to, FALSE)
  BY DEF fill
<1>4. it \in Work /\ it.v \in Venues /\ it.b \in BatchIds /\ Issued(it.v, it.b)
  BY DEF Queued, Work
<1>5. /\ DOMAIN batch' = Venues /\ \A u \in Venues : DOMAIN batch'[u] = BatchIds
      /\ \A u \in Venues, b \in BatchIds : (u = it.v => b # it.b) => batch'[u][b] = batch[u][b]
      /\ batch'[it.v][it.b] = [fill(it.v, it.from, it.to, FALSE) EXCEPT !.done = TRUE]
  BY <1>2, <1>4 DEF Shaped
<1>6. "done" \in DOMAIN batch'[it.v][it.b] /\ batch'[it.v][it.b].done = TRUE
  BY <1>3, <1>5
<1>7. Work' = Work \ {it}
  BY <1>1, <1>2 DEF Work, Queued
<1>8. \A j \in Work' : j.v = it.v => j.b # it.b
  BY <1>4, <1>7 DEF Queued
<1>9. Shaped'
  <2>1. \A u \in Venues : \A b \in BatchIds :
          "done" \in DOMAIN batch'[u][b] /\ batch'[u][b].done \in BOOLEAN
    <3> TAKE u \in Venues
    <3> TAKE b \in BatchIds
    <3>1. CASE u = it.v /\ b = it.b
      BY <1>6, <3>1
    <3>2. CASE ~(u = it.v /\ b = it.b)
      BY <1>5, <3>2 DEF Shaped
    <3> QED BY <3>1, <3>2
  <2> QED BY <1>0, <1>1, <1>5, <2>1 DEF Shaped
<1>10. \A u \in Venues' : Owned(u)'
  BY <1>0, <1>1, OwnedKept
<1>11. Queued'
  <2>1. \A j \in Work' : /\ j.v \in Venues /\ j.b \in BatchIds
                         /\ Issued(j.v, j.b) /\ ~batch'[j.v][j.b].done
    BY <1>5, <1>7, <1>8 DEF Queued
  <2>2. \A u, b : Issued(u, b)' = Issued(u, b)
    BY <1>1 DEF Issued
  <2>3. OnceEach(queue') /\ busy' \cap ToSet(queue') = {}
    BY <1>1, <1>2 DEF Queued
  <2>4. \A i, j \in Work' : i.v = j.v /\ i.b = j.b => i = j
    BY <1>7 DEF Queued
  <2> QED BY <1>0, <2>1, <2>2, <2>3, <2>4 DEF Queued
<1>12. Finished'
  BY <1>0, <1>1, <1>4, <1>5 DEF Finished, Issued
<1>13. Phase'
  BY <1>0, <1>1, <1>4, <1>7 DEF Phase
<1> QED BY <1>9, <1>10, <1>11, <1>12, <1>13

-----------------------------------------------------------------------------
(***************************************************************************)
(* The caller.                                                             *)
(***************************************************************************)

LEMMA KeepNew ==
  ASSUME MergeInv, New
  PROVE  MergeInv'
<1> USE DEF MergeInv
<1>0. K' = K /\ Venues' = Venues /\ BatchIds' = BatchIds /\ inline' = inline /\ shape' = shape
  BY SameInput DEF New
<1>1. UNCHANGED <<input, hand, inflight, batch, queue, busy, abort, open>> /\ Work' = Work
  BY DEF New, pool, Work
<1>2. /\ mpc = "new" /\ open
      /\ \A v \in Venues : /\ opc[v] = "none" /\ held[v] = 0 /\ hand[v] = 0
                           /\ inflight[v] = <<>> /\ free[v] = <<>>
  BY DEF New, Phase, Owned
<1>3. CASE mpc' = "refused" /\ UNCHANGED <<opc, free, ask, held>>
  BY <1>1, <1>2, <1>3, QuietCaller
<1>4. ToSet(<<>>) = {} /\ OnceEach(<<>>)
  BY EmptyOnce
<1>5. Work = {}
  BY <1>2, <1>4 DEF Queued, Issued
<1>6. \A v \in Venues : \A b \in BatchIds : ~batch[v][b].done
  BY <1>2, <1>4 DEF Finished
<1>7. ASSUME mpc' = "seed", DOMAIN opc' = Venues, DOMAIN free' = Venues, DOMAIN held' = Venues,
             \A v \in Venues : Owned(v)',
             inline => UNCHANGED opc
      PROVE  MergeInv'
  <2>1. Shaped'
    BY <1>0, <1>1, <1>7 DEF Shaped
  <2>2. Queued'
    BY <1>1, <1>5 DEF Queued, Work
  <2>3. Finished'
    BY <1>0, <1>1, <1>6 DEF Finished
  <2>4. Phase'
    BY <1>0, <1>1, <1>2, <1>7 DEF Phase
  <2> QED BY <1>0, <1>7, <2>1, <2>2, <2>3, <2>4
<1>8. CASE /\ mpc' = "seed" /\ inline
           /\ held' = [v \in Venues |-> 1] /\ UNCHANGED <<opc, free>>
  <2>1. \A v \in Venues : Owned(v)'
    BY <1>0, <1>1, <1>2, <1>4, <1>8 DEF Owned, BatchIds, Shaped
  <2> QED BY <1>2, <1>7, <1>8, <2>1 DEF Shaped
<1>9. CASE /\ mpc' = "seed" /\ ~inline /\ opc' = [v \in Venues |-> "issue"]
           /\ free' = [v \in Venues |-> [b \in BatchIds |-> b]] /\ UNCHANGED held
  <2>1. \A v \in Venues : OnceEach(free'[v]) /\ ToSet(free'[v]) = BatchIds
    BY <1>9, CountingOnce DEF BatchIds, Shaped
  <2>2. \A v \in Venues : Owned(v)'
    <3>1. 0 \notin BatchIds
      BY DEF BatchIds
    <3>2. \A v \in Venues : /\ opc'[v] = "issue" /\ held'[v] = 0 /\ hand'[v] = 0
                            /\ ToSet(inflight'[v]) = {} /\ OnceEach(inflight'[v])
      BY <1>1, <1>2, <1>4, <1>9
    <3> QED BY <1>0, <2>1, <3>1, <3>2 DEF Owned
  <2> QED BY <1>2, <1>7, <1>9, <2>2 DEF Shaped
<1> QED BY <1>3, <1>8, <1>9 DEF New

\* What Deliver and Fail do to the caller's place.
LEMMA CallerMoves ==
  ASSUME NEW sd \in BOOLEAN, NEW v, NEW p, NEW e
  PROVE  /\ Deliver(sd, v, p) => mpc' \in {"seed", "idle"}
         /\ Fail(sd, e) => mpc' \in {"failed", "idle"}
BY DEF Deliver, Fail

LEMMA KeepRefill ==
  ASSUME MergeInv, NEW sd \in BOOLEAN, NEW v, Refill(sd, v), mpc \in {"seed", "idle"},
         UNCHANGED <<input, opc, hand, inflight, queue, busy, open>>
  PROVE  MergeInv'
<1> USE DEF MergeInv
<1>0. K' = K /\ Venues' = Venues /\ BatchIds' = BatchIds /\ inline' = inline /\ shape' = shape
  BY SameInput
<1>1. mpc' \in {"seed", "idle", "failed", "seedRecv", "nextRecv"} /\ Work' = Work
  BY CallerMoves DEF Refill, Work
<1>2. CASE inline
  <2>1. UNCHANGED <<free, held>>
    BY <1>2 DEF Refill
  <2>2. PICK b : /\ batch' = [batch EXCEPT ![v][held[v]] = b]
                 /\ "done" \in DOMAIN b /\ b.done = FALSE
    <3>1. "done" \in DOMAIN fillFromCursor(v) /\ fillFromCursor(v).done = FALSE
      BY DEF fillFromCursor, fill
    <3> QED BY <1>2, <3>1 DEF Refill
  <2>3. /\ \A u \in Venues : opc[u] = "none" /\ inflight[u] = <<>>
        /\ ToSet(<<>>) = {}
    BY <1>2, EmptyOnce DEF Phase
  <2>4. Work = {}
    BY <2>3 DEF Queued, Issued
  <2>5. /\ DOMAIN batch' = Venues /\ \A u \in Venues : DOMAIN batch'[u] = BatchIds
        /\ \A u \in Venues, c \in BatchIds : batch'[u][c] \in {b, batch[u][c]}
    BY <2>2 DEF Shaped
  <2>6. \A u \in Venues : \A c \in BatchIds :
          /\ "done" \in DOMAIN batch'[u][c] /\ batch'[u][c].done \in BOOLEAN
          /\ batch'[u][c].done => batch[u][c].done
    <3> TAKE u \in Venues
    <3> TAKE c \in BatchIds
    <3>1. CASE batch'[u][c] = b
      BY <2>2, <3>1
    <3>2. CASE batch'[u][c] = batch[u][c]
      BY <3>2 DEF Shaped
    <3> QED BY <2>5, <3>1, <3>2
  <2>7. Shaped'
    BY <1>0, <2>1, <2>5, <2>6 DEF Shaped
  <2>8. \A u \in Venues' : Owned(u)'
    BY <1>0, <2>1, OwnedKept
  <2>9. Queued'
    BY <1>1, <2>4 DEF Queued, Work
  <2>10. Finished'
    BY <1>0, <2>6 DEF Finished
  <2>11. Phase'
    BY <1>0, <1>1, <2>1 DEF Phase
  <2> QED BY <2>7, <2>8, <2>9, <2>10, <2>11
<1>3. CASE ~inline
  <2>1. /\ UNCHANGED batch /\ held' = [held EXCEPT ![v] = 0]
        /\ free' = IF held[v] = 0 THEN free ELSE [free EXCEPT ![v] = Append(@, held[v])]
    BY <1>3 DEF Refill
  <2>2. Shaped'
    BY <1>0, <2>1 DEF Shaped
  <2>3. \A u \in Venues : Owned(u)'
    <3>1. ASSUME NEW u \in Venues, u # v \/ held[u] = 0 PROVE Owned(u)'
      BY <1>0, <2>1, <3>1, OwnedKept DEF Shaped
    <3>2. ASSUME v \in Venues, held[v] # 0 PROVE Owned(v)'
      <4>1. held'[v] = 0 /\ free'[v] = Append(free[v], held[v]) /\ Owned(v)
        BY <2>1, <3>2 DEF Shaped
      <4>2. OnceEach(free'[v]) /\ ToSet(free'[v]) = ToSet(free[v]) \cup {held[v]}
        BY <4>1, AppendOnce DEF Owned
      <4> QED BY <1>0, <3>2, <4>1, <4>2 DEF Owned, BatchIds, Shaped
    <3> QED BY <3>1, <3>2
  <2>4. Queued' /\ Finished'
    BY <1>0, <1>1, <2>1 DEF Queued, Finished, Issued
  <2>5. Phase'
    BY <1>0, <1>1, <1>3 DEF Phase
  <2> QED BY <1>0, <2>2, <2>3, <2>4, <2>5
<1> QED BY <1>2, <1>3

LEMMA KeepSeed == ASSUME MergeInv, Seed PROVE MergeInv'
<1>1. Refill(TRUE, ask) /\ mpc = "seed"
  BY DEF Seed
<1>2. UNCHANGED <<input, opc, hand, inflight, queue, busy, open>>
  BY DEF Seed, pool
<1> QED BY <1>1, <1>2, KeepRefill

LEMMA KeepNextRefill == ASSUME MergeInv, NextRefill PROVE MergeInv'
<1>1. Refill(FALSE, Winner) /\ mpc = "idle"
  BY DEF NextRefill
<1>2. UNCHANGED <<input, opc, hand, inflight, queue, busy, open>>
  BY DEF NextRefill, pool
<1> QED BY <1>1, <1>2, KeepRefill

\* The steps that move no batch.
LEMMA KeepQuiet ==
  ASSUME MergeInv, Seeded \/ NextInBatch \/ NextEnd \/ ReceiveClosed
  PROVE  MergeInv'
<1>1. UNCHANGED <<input, opc, hand, inflight, free, held, batch, queue, busy, open>>
  BY DEF Seeded, NextInBatch, NextEnd, ReceiveClosed, owners, pool
<1>2. mpc # "closed" /\ mpc' \notin {"new", "drain", "closed"}
  <2>1. (mpc = "seedRecv") \in BOOLEAN
    OBVIOUS
  <2>2. Deliver(FALSE, Winner, pos[Winner]) => mpc' \in {"seed", "idle"}
    BY CallerMoves
  <2>3. Deliver(mpc = "seedRecv", ask, 0) => mpc' \in {"seed", "idle"}
    BY <2>1, CallerMoves
  <2> QED BY <2>2, <2>3 DEF Seeded, NextInBatch, NextEnd, ReceiveClosed
<1> QED BY <1>1, <1>2, QuietCaller

\* A batch goes from its owner's hand to the merge.
LEMMA KeepReceive == ASSUME MergeInv, Receive PROVE MergeInv'
<1> USE DEF MergeInv
<1>0. K' = K /\ Venues' = Venues /\ BatchIds' = BatchIds /\ inline' = inline /\ shape' = shape
  BY SameInput DEF Receive
<1>1. UNCHANGED <<input, inflight, free, batch, queue, busy, abort, open>> /\ Work' = Work
  BY DEF Receive, pool, Work
<1>2. /\ mpc \in {"seedRecv", "nextRecv"} /\ opc[ask] = "send"
      /\ held' = [held EXCEPT ![ask] = hand[ask]]
      /\ hand' = [hand EXCEPT ![ask] = 0]
      /\ opc' = [opc EXCEPT ![ask] = "issue"]
  BY DEF Receive
<1>3. mpc' \in {"seed", "idle", "failed"}
  <2>1. (mpc = "seedRecv") \in BOOLEAN
    OBVIOUS
  <2> QED BY <2>1, CallerMoves DEF Receive
<1>4. Shaped'
  BY <1>0, <1>1, <1>2 DEF Shaped
<1>5. \A u \in Venues : Owned(u)'
  <2>1. ASSUME NEW u \in Venues, u # ask PROVE Owned(u)'
    BY <1>0, <1>1, <1>2, <2>1, OwnedKept DEF Shaped
  <2>2. ASSUME NEW u \in Venues, u = ask PROVE Owned(u)'
    <3>1. held'[u] = hand[u] /\ hand'[u] = 0 /\ opc'[u] = "issue" /\ Owned(u)
      BY <1>2, <2>2 DEF Shaped
    <3> QED BY <1>0, <1>1, <3>1 DEF Owned, BatchIds, Shaped
  <2> QED BY <2>1, <2>2
<1>6. \A u \in Venues : \A b : Issued(u, b) => Issued(u, b)'
  BY <1>1, <1>2 DEF Issued, Shaped
<1>7. Queued'
  BY <1>0, <1>1, <1>6 DEF Queued
<1>8. Finished'
  BY <1>0, <1>1, <1>2 DEF Finished, Shaped
<1>9. Phase'
  BY <1>0, <1>1, <1>2, <1>3 DEF Phase, Shaped
<1> QED BY <1>0, <1>4, <1>5, <1>7, <1>8, <1>9

LEMMA KeepClose == ASSUME MergeInv, Close PROVE MergeInv'
<1> USE DEF MergeInv
<1>0. K' = K /\ Venues' = Venues /\ BatchIds' = BatchIds /\ inline' = inline /\ shape' = shape
  BY SameInput DEF Close
<1>1. UNCHANGED <<input, opc, hand, inflight, free, held, batch, queue, busy>>
  BY DEF Close, owners, pool
<1>2. Shaped' /\ (\A v \in Venues' : Owned(v)') /\ Queued' /\ Finished' /\ Work' = Work
  BY <1>1, QuietStep
<1>3. CASE inline
  <2>1. Work = {}
    BY <1>3, EmptyOnce DEF Queued, Issued, Phase
  <2>2. Phase'
    BY <1>0, <1>1, <1>2, <1>3, <2>1 DEF Phase, Close
  <2> QED BY <1>2, <2>2
<1>4. CASE ~inline
  <2>1. mpc' = "drain" /\ ask' = 1 /\ open' = open /\ mpc # "closed"
    BY <1>4 DEF Close
  <2>2. \A v \in Venues : ~(v < 1)
    BY DEF Venues, Shaped
  <2>3. Phase'
    BY <1>0, <1>4, <2>1, <2>2 DEF Phase
  <2> QED BY <1>2, <2>3
<1> QED BY <1>3, <1>4

LEMMA KeepDrain == ASSUME MergeInv, Drain PROVE MergeInv'
<1> USE DEF MergeInv
<1>0. K' = K /\ Venues' = Venues /\ BatchIds' = BatchIds /\ inline' = inline /\ shape' = shape
  BY SameInput DEF Drain
<1>1. /\ UNCHANGED <<input, inflight, batch, queue, busy, mpc, held, abort, open>> /\ Work' = Work
      /\ mpc = "drain" /\ ask \in Venues
  BY DEF Drain, pool, Work
<1>2. CASE opc[ask] = "closed" /\ ask' = ask + 1 /\ UNCHANGED <<free, hand, opc>>
  <2>1. Shaped' /\ (\A v \in Venues' : Owned(v)') /\ Queued' /\ Finished'
    BY <1>1, <1>2, QuietStep
  <2>2. \A v \in Venues : v < ask + 1 => v < ask \/ v = ask
    BY <1>1 DEF Venues, Shaped
  <2>3. Phase'
    BY <1>0, <1>1, <1>2, <2>2 DEF Phase
  <2> QED BY <2>1, <2>3
<1>3. CASE /\ opc[ask] = "send" /\ ask' = ask
           /\ free' = [free EXCEPT ![ask] = Append(@, hand[ask])]
           /\ hand' = [hand EXCEPT ![ask] = 0]
           /\ opc' = [opc EXCEPT ![ask] = "issue"]
  <2>1. Shaped'
    BY <1>0, <1>1, <1>3 DEF Shaped
  <2>2. PICK a \in Venues : a = ask
    BY <1>1
  <2>3. /\ free'[a] = Append(free[a], hand[a]) /\ hand'[a] = 0 /\ opc'[a] = "issue"
        /\ opc[a] = "send" /\ Owned(a)
        /\ \A u \in Venues \ {a} : free'[u] = free[u] /\ hand'[u] = hand[u] /\ opc'[u] = opc[u]
    BY <1>3, <2>2 DEF Shaped
  <2>4. OnceEach(free'[a]) /\ ToSet(free'[a]) = ToSet(free[a]) \cup {hand[a]}
    BY <2>3, AppendOnce DEF Owned
  <2>5. Owned(a)'
    BY <1>0, <1>1, <2>3, <2>4 DEF Owned, BatchIds, Shaped
  <2>6. \A u \in Venues : Owned(u)'
    BY <1>0, <1>1, <2>3, <2>5, OwnedKept
  <2>7. Queued'
    BY <1>0, <1>1, <2>3 DEF Queued, Issued
  <2>8. Finished'
    BY <1>0, <1>1, <2>3 DEF Finished
  <2>9. Phase'
    BY <1>0, <1>1, <1>3, <2>3 DEF Phase
  <2> QED BY <1>0, <2>1, <2>6, <2>7, <2>8, <2>9
<1> QED BY <1>2, <1>3 DEF Drain

LEMMA KeepStopPool == ASSUME MergeInv, StopPool PROVE MergeInv'
<1> USE DEF MergeInv
<1>0. K' = K /\ Venues' = Venues /\ BatchIds' = BatchIds /\ inline' = inline /\ shape' = shape
  BY SameInput DEF StopPool
<1>1. /\ UNCHANGED <<input, opc, hand, inflight, free, held, batch, queue, busy>>
      /\ mpc = "drain" /\ ask > K /\ mpc' = "closed" /\ queue = <<>> /\ busy = {}
  BY DEF StopPool, owners, pool
<1>2. Shaped' /\ (\A v \in Venues' : Owned(v)') /\ Queued' /\ Finished' /\ Work' = Work
  BY <1>1, QuietStep
<1>3. Work = {}
  BY <1>1, EmptyOnce DEF Work
<1>4. \A v \in Venues : opc[v] = "closed"
  BY <1>1 DEF Phase, Venues, Shaped
<1>5. Phase'
  BY <1>0, <1>1, <1>2, <1>3, <1>4 DEF Phase
<1> QED BY <1>2, <1>5

-----------------------------------------------------------------------------
(***************************************************************************)
(* The invariant, and the two properties.                                  *)
(***************************************************************************)

LEMMA MergeInitial == Init => MergeInv
<1> SUFFICES ASSUME Init PROVE MergeInv
  OBVIOUS
<1>1. K \in Nat
  BY MergeAssumption DEF Init, Load, K
<1>2. shape.batches \in Nat \ {0}
  BY MergeAssumption DEF Init
<1>3. Shaped
  BY <1>1, <1>2 DEF Init, Shaped
<1>4. OnceEach(<<>>) /\ ToSet(<<>>) = {}
  BY EmptyOnce
<1>5. \A v \in Venues : Owned(v)
  BY <1>2, <1>4 DEF Init, Owned, BatchIds
<1>6. Work = {}
  BY <1>4 DEF Init, Work
<1>7. Queued /\ Finished
  BY <1>4, <1>6 DEF Init, Queued, Finished
<1>8. Phase
  BY <1>6 DEF Init, Phase
<1> QED BY <1>3, <1>5, <1>7, <1>8 DEF MergeInv

LEMMA MergeStep == MergeInv /\ [Next]_vars => MergeInv'
<1> SUFFICES ASSUME MergeInv, [Next]_vars PROVE MergeInv'
  OBVIOUS
<1>1. ASSUME NEW v \in Venues, Owner(v) PROVE MergeInv'
  BY <1>1, KeepIssue, KeepTakeFree, KeepPutWork, KeepAwaitDone DEF Owner
<1>2. CASE Worker
  BY <1>2, KeepTakeWork, KeepFinishWork DEF Worker
<1>3. CASE Merging
  BY <1>3, KeepNew, KeepSeed, KeepNextRefill, KeepQuiet, KeepReceive DEF Merging
<1>4. CASE Closing
  BY <1>4, KeepClose, KeepDrain, KeepStopPool DEF Closing
<1>5. CASE UNCHANGED vars
  <2>1. /\ UNCHANGED <<input, opc, hand, inflight, free, held, batch, queue, busy>>
        /\ UNCHANGED <<mpc, ask, open>>
    BY <1>5 DEF vars, owners, pool
  <2>2. K' = K /\ Venues' = Venues /\ inline' = inline
    BY <2>1, SameInput
  <2>3. Phase'
    BY <2>1, <2>2, QuietStep DEF Phase, MergeInv
  <2> QED BY <2>1, <2>3, QuietStep DEF MergeInv
<1> QED BY <1>1, <1>2, <1>3, <1>4, <1>5 DEF Next

LEMMA MergeInvariance == Spec => []MergeInv
BY MergeInitial, MergeStep, PTL DEF Spec

\* A batch is in one pair of hands, whatever the number of venues, workers and
\* batches and however the owners, the workers, the merge and Close interleave
\* (venueFeed, pool, refill).
THEOREM BatchesAreNotShared == Spec => []NoBatchIsShared
<1>1. MergeInv => NoBatchIsShared
  <2> SUFFICES ASSUME MergeInv PROVE NoBatchIsShared
    OBVIOUS
  <2> USE DEF MergeInv
  <2>1. ASSUME NEW v \in Venues
        PROVE  LET filling == {it.b : it \in {i \in busy \cup ToSet(queue) : i.v = v}}
                   sending == IF opc[v] \in {"put", "send"} THEN {hand[v]} ELSE {}
               IN  /\ filling \cap (ToSet(free[v]) \cup {held[v]} \cup sending) = {}
                   /\ ToSet(free[v]) \cap ({held[v]} \cup sending) = {}
                   /\ Cardinality(ToSet(free[v])) = Len(free[v])
                   /\ held[v] \notin sending
                   /\ \A it \in busy : ~batch[it.v][it.b].done
    <3> DEFINE filling == {it.b : it \in {i \in busy \cup ToSet(queue) : i.v = v}}
               sending == IF opc[v] \in {"put", "send"} THEN {hand[v]} ELSE {}
    <3>1. \A b \in filling : b \in BatchIds /\ Issued(v, b)
      BY DEF Queued, Work
    <3>2. \A b \in sending : b = hand[v] /\ b # 0 /\ opc[v] # "await"
      BY DEF Owned
    <3>3. Owned(v) /\ 0 \notin BatchIds
      BY DEF BatchIds
    <3>4. \A it \in busy : ~batch[it.v][it.b].done
      BY DEF Queued, Work
    <3>5. Cardinality(ToSet(free[v])) = Len(free[v])
      BY <3>3, CountOnce DEF Owned
    <3> HIDE DEF filling, sending
    <3>6. \A b \in filling : b # held[v] /\ b \notin ToSet(free[v]) /\ b \notin sending
      BY <3>1, <3>2, <3>3 DEF Owned, Issued
    <3>7. ToSet(free[v]) \cap ({held[v]} \cup sending) = {} /\ held[v] \notin sending
      BY <3>2, <3>3 DEF Owned
    <3>8. /\ filling \cap (ToSet(free[v]) \cup {held[v]} \cup sending) = {}
          /\ ToSet(free[v]) \cap ({held[v]} \cup sending) = {}
          /\ Cardinality(ToSet(free[v])) = Len(free[v])
          /\ held[v] \notin sending
          /\ \A it \in busy : ~batch[it.v][it.b].done
      BY <3>4, <3>5, <3>6, <3>7
    <3> QED BY <3>8 DEF filling, sending
  <2> QED BY <2>1 DEF NoBatchIsShared
<1> QED BY <1>1, MergeInvariance, PTL

\* The readers are closed after the last item was decoded and the last owner
\* ended, from whatever point Close is called at (Close, pool.stop).
THEOREM FilesOutlast == Spec => []FilesOutliveDecoding
<1>1. MergeInv => FilesOutliveDecoding
  <2> SUFFICES ASSUME MergeInv, ~open
               PROVE  busy = {} /\ queue = <<>> /\ \A v \in Venues : opc[v] \in {"none", "closed"}
    BY DEF FilesOutliveDecoding
  <2>1. Work = {} /\ \A v \in Venues : opc[v] \in {"none", "closed"}
    BY DEF MergeInv, Phase
  <2>2. busy = {} /\ ToSet(queue) = {}
    BY <2>1 DEF Work
  <2>3. queue = <<>>
    BY <2>2, EmptyOnce DEF MergeInv, Queued
  <2> QED BY <2>1, <2>2, <2>3
<1> QED BY <1>1, MergeInvariance, PTL

-----------------------------------------------------------------------------
(***************************************************************************)
(* Induction, and iteration, which the recursive functions of the model    *)
(* are instances of.                                                       *)
(***************************************************************************)

\* A set of numbers that is not empty has a least one.
LEMMA LeastNumber ==
  ASSUME NEW T \in SUBSET Nat, T # {}
  PROVE  \E x \in T : \A y \in T : x <= y
<1> DEFINE R == OpToRel(<, Nat)
<1>1. IsWellFoundedOn(R, Nat)
  BY NatLessThanWellFounded, Zenon
<1>2. \A x, y \in Nat : x < y => <<x, y>> \in R
  BY DEF OpToRel
<1>3. \E x \in T : \A y \in T : ~(<<y, x>> \in R)
  <2> HIDE DEF R
  <2> QED BY <1>1, WFMin
<1>4. PICK x \in T : \A y \in T : ~(<<y, x>> \in R)
  BY <1>3
<1>5. \A y \in T : ~(y < x)
  <2> HIDE DEF R
  <2> QED BY <1>2, <1>4, Zenon
<1>6. \A y \in T : y \in Int /\ x \in Int
  OBVIOUS
<1>7. \A y \in T : x <= y
  BY <1>5, <1>6
<1> QED BY <1>7

\* A set that has a and with each number up to b the next one has all of a .. b.
LEMMA UpFrom ==
  ASSUME NEW a \in Int, NEW b \in Int, NEW T, a \in T,
         \A d \in a + 1 .. b : d - 1 \in T => d \in T
  PROVE  \A d \in a .. b : d \in T
<1> SUFFICES ASSUME NEW d \in a .. b, d \notin T PROVE FALSE
  OBVIOUS
<1> DEFINE out == {m \in Nat : a + m <= b /\ a + m \notin T}
<1>1. d - a \in out
  <2>1. d - a \in Nat /\ a + (d - a) = d
    OBVIOUS
  <2> QED BY <2>1
<1>2. PICK m \in out : \A y \in out : m <= y
  <2>1. out \in SUBSET Nat /\ out # {}
    BY <1>1
  <2> HIDE DEF out
  <2> QED BY <2>1, LeastNumber
<1>3. m # 0
  BY <1>2
<1>4. m - 1 \notin out
  <2>1. m \in Nat
    BY <1>2
  <2>2. ~(m <= m - 1)
    BY <2>1
  <2> HIDE DEF out
  <2> QED BY <1>2, <2>2
<1>5. m \in Nat /\ m - 1 \in Nat /\ a + (m - 1) = (a + m) - 1 /\ a + m <= b /\ a + m \notin T
      /\ a + m \in a + 1 .. b /\ a + (m - 1) <= b
  BY <1>2, <1>3
<1>6. (a + m) - 1 \in T
  BY <1>4, <1>5
<1> QED BY <1>5, <1>6

\* The same downwards.
LEMMA DownFrom ==
  ASSUME NEW a \in Int, NEW b \in Int, NEW T, b \in T,
         \A d \in a .. b - 1 : d + 1 \in T => d \in T
  PROVE  \A d \in a .. b : d \in T
<1> DEFINE S == {d \in Int : -d \in T}
<1>1. -b \in S /\ -b \in Int /\ -a \in Int
  <2>1. -b \in Int /\ -(-b) = b
    OBVIOUS
  <2> QED BY <2>1
<1>2. ASSUME NEW d \in -b + 1 .. -a, d - 1 \in S PROVE d \in S
  <2>1. -d \in a .. b - 1 /\ -(d - 1) = -d + 1 /\ d \in Int
    OBVIOUS
  <2>2. -d + 1 \in T
    BY <1>2, <2>1
  <2> QED BY <2>1, <2>2
<1>3. \A d \in -b .. -a : d \in S
  <2> HIDE DEF S
  <2> QED BY <1>1, <1>2, UpFrom
<1>4. ASSUME NEW d \in a .. b PROVE d \in T
  <2>1. -d \in -b .. -a /\ -(-d) = d
    OBVIOUS
  <2>2. -d \in S
    BY <1>3, <2>1
  <2> QED BY <2>1, <2>2
<1> QED BY <1>4

\* f starts with a and goes on as step says.
Iterates(f, n, a, step) ==
  f = [d \in 0 .. n |-> IF d = 0 THEN a ELSE step[d][f[d - 1]]]

LEMMA IterationExists ==
  ASSUME NEW n \in Nat, NEW a, NEW step
  PROVE  \E f : Iterates(f, n, a, step)
<1> DEFINE T == {m \in 0 .. n : \E f : Iterates(f, m, a, step)}
<1>1. 0 \in T
  <2> DEFINE f == [d \in 0 .. 0 |-> a]
  <2>1. Iterates(f, 0, a, step)
    <3>1. \A d \in 0 .. 0 : d = 0
      OBVIOUS
    <3> QED BY <3>1 DEF Iterates
  <2> HIDE DEF f
  <2> QED BY <2>1
<1>2. ASSUME NEW m \in 0 + 1 .. n, m - 1 \in T PROVE m \in T
  <2>1. PICK f : Iterates(f, m - 1, a, step)
    BY <1>2
  <2> DEFINE g == [d \in 0 .. m |-> IF d = m THEN step[m][f[m - 1]] ELSE f[d]]
  <2>2. ASSUME NEW d \in 0 .. m PROVE g[d] = IF d = 0 THEN a ELSE step[d][g[d - 1]]
    <3>1. CASE d = m
      <4>1. m - 1 \in 0 .. m /\ m - 1 # m /\ m # 0
        OBVIOUS
      <4> QED BY <3>1, <4>1
    <3>2. CASE d # m
      <4>1. d \in 0 .. m - 1 /\ g[d] = f[d]
        BY <3>2
      <4>2. f[d] = IF d = 0 THEN a ELSE step[d][f[d - 1]]
        BY <2>1, <4>1, Zenon DEF Iterates
      <4>3. d # 0 => d - 1 \in 0 .. m /\ d - 1 # m
        BY <4>1
      <4>4. d # 0 => g[d - 1] = f[d - 1]
        BY <4>3
      <4> HIDE DEF g
      <4> QED BY <4>1, <4>2, <4>4
    <3> QED BY <3>1, <3>2
  <2>3. g = [d \in 0 .. m |-> g[d]]
    OBVIOUS
  <2> HIDE DEF g
  <2>4. Iterates(g, m, a, step)
    BY <2>2, <2>3 DEF Iterates
  <2> QED BY <2>4
<1>3. \A m \in 0 .. n : m \in T
  <2> HIDE DEF T
  <2> QED BY <1>1, <1>2, UpFrom
<1> QED BY <1>3

StaysIn(n, S, step) == \A d \in 1 .. n : \A x \in S : step[d][x] \in S

Solves(f, n, S, a, step) ==
  f \in [0 .. n -> S] /\ f[0] = a /\ \A d \in 1 .. n : f[d] = step[d][f[d - 1]]

\* A recursion whose step stays in S has a solution in S.
LEMMA Iteration ==
  ASSUME NEW n \in Nat, NEW S, NEW a \in S, NEW step, StaysIn(n, S, step)
  PROVE  \E f : Solves(f, n, S, a, step)
<1>1. PICK f : Iterates(f, n, a, step)
  BY IterationExists
<1>2. f[0] = a /\ \A d \in 1 .. n : f[d] = step[d][f[d - 1]]
  <2>1. f[0] = a
    BY <1>1 DEF Iterates
  <2>2. \A d \in 1 .. n : d \in 0 .. n /\ d # 0
    OBVIOUS
  <2>3. \A d \in 0 .. n : f[d] = IF d = 0 THEN a ELSE step[d][f[d - 1]]
    BY <1>1, Zenon DEF Iterates
  <2> QED BY <2>1, <2>2, <2>3
<1>3. \A d \in 0 .. n : f[d] \in S
  <2> DEFINE T == {e \in Int : f[e] \in S}
  <2>1. 0 \in T
    BY <1>2
  <2>2. \A d \in 0 + 1 .. n : d - 1 \in T => d \in T
    BY <1>2 DEF StaysIn
  <2>3. \A d \in 0 .. n : d \in T
    <3> HIDE DEF T
    <3> QED BY <2>1, <2>2, UpFrom
  <2> QED BY <2>3
<1>4. f \in [0 .. n -> S]
  <2>1. f = [d \in 0 .. n |-> f[d]]
    BY <1>1 DEF Iterates
  <2> QED BY <1>3, <2>1
<1> QED BY <1>2, <1>4 DEF Solves

-----------------------------------------------------------------------------
(***************************************************************************)
(* The order of the keys.                                                  *)
(***************************************************************************)

LEMMA BeforeIs ==
  ASSUME NEW a \in KeyType, NEW b \in KeyType
  PROVE  Before(a, b) <=>
           \/ a[1] < b[1]
           \/ a[1] = b[1] /\ a[2] < b[2]
           \/ a[1] = b[1] /\ a[2] = b[2] /\ a[3] < b[3]
           \/ a[1] = b[1] /\ a[2] = b[2] /\ a[3] = b[3] /\ a[4] < b[4]
<1> DEFINE P(n) == a[n] < b[n] /\ \A m \in 1 .. (n - 1) : a[m] = b[m]
<1>1. Before(a, b) <=> P(1) \/ P(2) \/ P(3) \/ P(4)
  <2>1. Before(a, b) <=> \E n \in 1 .. 4 : P(n)
    BY DEF Before
  <2>2. \A n \in 1 .. 4 : n = 1 \/ n = 2 \/ n = 3 \/ n = 4
    OBVIOUS
  <2>3. 1 \in 1 .. 4 /\ 2 \in 1 .. 4 /\ 3 \in 1 .. 4 /\ 4 \in 1 .. 4
    OBVIOUS
  <2> HIDE DEF P
  <2> QED BY <2>1, <2>2, <2>3, Zenon
<1>2. P(1) <=> a[1] < b[1]
  OBVIOUS
<1>3. P(2) <=> a[1] = b[1] /\ a[2] < b[2]
  <2>1. \A m : m \in 1 .. (2 - 1) <=> m = 1
    OBVIOUS
  <2> QED BY <2>1
<1>4. P(3) <=> a[1] = b[1] /\ a[2] = b[2] /\ a[3] < b[3]
  <2>1. \A m : m \in 1 .. (3 - 1) <=> m = 1 \/ m = 2
    OBVIOUS
  <2> QED BY <2>1
<1>5. P(4) <=> a[1] = b[1] /\ a[2] = b[2] /\ a[3] = b[3] /\ a[4] < b[4]
  <2>1. \A m : m \in 1 .. (4 - 1) <=> m = 1 \/ m = 2 \/ m = 3
    OBVIOUS
  <2> QED BY <2>1
<1> HIDE DEF P
<1> QED BY <1>1, <1>2, <1>3, <1>4, <1>5

LEMMA KeyFields ==
  ASSUME NEW a \in KeyType, NEW b \in KeyType
  PROVE  /\ a[1] \in Int /\ a[2] \in Int /\ a[3] \in Int /\ a[4] \in Int
         /\ a = b <=> a[1] = b[1] /\ a[2] = b[2] /\ a[3] = b[3] /\ a[4] = b[4]
BY DEF KeyType

\* compareKey is a strict total order.
LEMMA KeyOrder ==
  /\ \A a \in KeyType : ~Before(a, a)
  /\ \A a, b \in KeyType : Before(a, b) \/ Before(b, a) \/ a = b
  /\ \A a, b \in KeyType : ~(Before(a, b) /\ Before(b, a))
  /\ \A a, b, c \in KeyType : Before(a, b) /\ Before(b, c) => Before(a, c)
  /\ \A a, b, c \in KeyType : ~Before(a, b) /\ ~Before(b, c) => ~Before(a, c)
  /\ \A a, b, c \in KeyType : Before(a, b) /\ ~Before(c, b) => Before(a, c)
  /\ \A a, b, c \in KeyType : ~Before(b, a) /\ Before(b, c) => Before(a, c)
<1>1. ASSUME NEW a \in KeyType PROVE ~Before(a, a)
  BY BeforeIs, KeyFields
<1>2. ASSUME NEW a \in KeyType, NEW b \in KeyType
      PROVE  (Before(a, b) \/ Before(b, a) \/ a = b) /\ ~(Before(a, b) /\ Before(b, a))
  BY BeforeIs, KeyFields
<1>3. ASSUME NEW a \in KeyType, NEW b \in KeyType, NEW c \in KeyType
      PROVE  /\ Before(a, b) /\ Before(b, c) => Before(a, c)
             /\ ~Before(a, b) /\ ~Before(b, c) => ~Before(a, c)
             /\ Before(a, b) /\ ~Before(c, b) => Before(a, c)
             /\ ~Before(b, a) /\ Before(b, c) => Before(a, c)
  BY BeforeIs, KeyFields
<1> QED BY <1>1, <1>2, <1>3

-----------------------------------------------------------------------------
(***************************************************************************)
(* The loser tree.                                                         *)
(***************************************************************************)

LEMMA DoubledIs ==
  ASSUME K \in Nat
  PROVE  /\ Doubled \in [0 .. K -> Nat \ {0}] /\ Doubled[0] = 1
         /\ \A d \in 1 .. K : Doubled[d] = 2 * Doubled[d - 1]
         /\ Doubled[K] >= K
<1> DEFINE S == Nat \ {0}
           step == [d \in 1 .. K |-> [x \in S |-> 2 * x]]
           Rhs(f) == [d \in 0 .. K |-> IF d = 0 THEN 1 ELSE 2 * f[d - 1]]
<1>1. StaysIn(K, S, step)
  BY DEF StaysIn
<1>2. PICK f : Solves(f, K, S, 1, step)
  <2> HIDE DEF S, step
  <2>1. 1 \in S
    BY DEF S
  <2> QED BY <1>1, <2>1, Iteration, Zenon
<1>3. f = Rhs(f)
  <2>1. ASSUME NEW d \in 0 .. K PROVE f[d] = IF d = 0 THEN 1 ELSE 2 * f[d - 1]
    <3>1. CASE d # 0
      <4>1. d \in 1 .. K /\ d - 1 \in 0 .. K
        BY <3>1
      <4>2. f[d] = step[d][f[d - 1]] /\ f[d - 1] \in S
        BY <1>2, <4>1 DEF Solves
      <4> QED BY <3>1, <4>1, <4>2
    <3> QED BY <1>2, <3>1 DEF Solves
  <2>2. f = [d \in 0 .. K |-> f[d]]
    BY <1>2 DEF Solves
  <2> QED BY <2>1, <2>2
<1>4. Doubled = Rhs(Doubled)
  <2>1. Doubled = CHOOSE g : g = Rhs(g)
    BY Zenon DEF Doubled
  <2> HIDE DEF Rhs
  <2> QED BY <1>3, <2>1, Zenon
<1>5. Doubled[0] = 1 /\ \A d \in 1 .. K : Doubled[d] = 2 * Doubled[d - 1]
  <2>1. \A d \in 0 .. K : Doubled[d] = IF d = 0 THEN 1 ELSE 2 * Doubled[d - 1]
    BY <1>4, Zenon
  <2>2. \A d \in 1 .. K : d \in 0 .. K /\ d # 0
    OBVIOUS
  <2>3. 0 \in 0 .. K
    OBVIOUS
  <2> QED BY <2>1, <2>2, <2>3
<1>6. \A d \in 0 .. K : Doubled[d] \in Nat \ {0} /\ Doubled[d] >= d + 1
  <2> DEFINE T == {d \in Int : Doubled[d] \in Nat \ {0} /\ Doubled[d] >= d + 1}
  <2>1. 0 \in T
    BY <1>5
  <2>2. \A d \in 0 + 1 .. K : d - 1 \in T => d \in T
    BY <1>5
  <2>3. \A d \in 0 .. K : d \in T
    <3>1. 0 \in Int /\ K \in Int
      OBVIOUS
    <3> HIDE DEF T
    <3> QED BY <2>1, <2>2, <3>1, UpFrom, Zenon
  <2> QED BY <2>3
<1>7. Doubled = [d \in 0 .. K |-> Doubled[d]]
  BY <1>4
<1>8. Doubled \in [0 .. K -> Nat \ {0}]
  BY <1>6, <1>7
<1>9. Doubled[K] >= K
  <2>1. K \in 0 .. K
    OBVIOUS
  <2> QED BY <1>6, <2>1
<1> QED BY <1>5, <1>8, <1>9

LEMMA TreeShape ==
  ASSUME K \in Nat
  PROVE  Depth \in 0 .. K /\ Leaves \in Nat \ {0} /\ Leaves >= K /\ Leaves = Doubled[Depth]
<1> DEFINE D == {d \in 0 .. K : Doubled[d] >= K}
<1>1. D \in SUBSET Nat /\ K \in D
  BY DoubledIs
<1>2. \E x \in D : \A y \in D : x <= y
  <2> HIDE DEF D
  <2> QED BY <1>1, LeastNumber
<1>3. Depth \in D
  <2>1. Depth = CHOOSE x \in D : \A y \in D : x <= y
    BY Zenon DEF Depth, Min
  <2> HIDE DEF D
  <2> QED BY <1>2, <2>1
<1> QED BY <1>3, DoubledIs DEF Leaves

Cursors == 0 .. (Leaves - 1)

LEMMA Halves ==
  \A a \in Nat : /\ a \div 2 \in Nat /\ (a = 2 * (a \div 2) \/ a = 2 * (a \div 2) + 1)
OBVIOUS

\* The way from a leaf to the root: halving, down to 1.
LEMMA PathIs ==
  ASSUME K \in Nat, NEW i \in Cursors
  PROVE  /\ path(i) \in [0 .. Depth -> Nat] /\ path(i)[0] = Leaves + i /\ path(i)[Depth] = 1
         /\ \A d \in 1 .. Depth : path(i)[d] = path(i)[d - 1] \div 2
         /\ \A d \in 1 .. Depth : path(i)[d] \in 1 .. (Leaves - 1)
<1> DEFINE step == [d \in 1 .. Depth |-> [x \in Nat |-> x \div 2]]
           Rhs(f) == [d \in 0 .. Depth |-> IF d = 0 THEN Leaves + i ELSE f[d - 1] \div 2]
           p == path(i)
<1>0. /\ Depth \in Nat /\ Leaves \in Nat /\ Leaves # 0 /\ i \in Nat /\ i < Leaves
      /\ Depth <= K /\ Leaves = Doubled[Depth]
  BY TreeShape DEF Cursors
<1>1. StaysIn(Depth, Nat, step)
  BY <1>0, Halves DEF StaysIn
<1>2. PICK f : Solves(f, Depth, Nat, Leaves + i, step)
  <2>1. Leaves + i \in Nat
    BY <1>0
  <2> HIDE DEF step
  <2> QED BY <1>0, <1>1, <2>1, Iteration, Zenon
<1>3. f = Rhs(f)
  <2>1. ASSUME NEW d \in 0 .. Depth PROVE f[d] = IF d = 0 THEN Leaves + i ELSE f[d - 1] \div 2
    <3>1. CASE d # 0
      <4>1. d \in 1 .. Depth /\ d - 1 \in 0 .. Depth
        BY <1>0, <3>1
      <4>2. f[d] = step[d][f[d - 1]] /\ f[d - 1] \in Nat
        BY <1>2, <4>1 DEF Solves
      <4> QED BY <3>1, <4>1, <4>2
    <3> QED BY <1>2, <3>1 DEF Solves
  <2>2. f = [d \in 0 .. Depth |-> f[d]]
    BY <1>2 DEF Solves
  <2> QED BY <2>1, <2>2
<1>4. p = Rhs(p)
  <2>1. p = CHOOSE g : g = Rhs(g)
    BY Zenon DEF path
  <2> HIDE DEF Rhs, p
  <2> QED BY <1>3, <2>1, Zenon
<1> HIDE DEF p
<1>5. p[0] = Leaves + i /\ \A d \in 1 .. Depth : p[d] = p[d - 1] \div 2
  <2>1. \A d \in 0 .. Depth : p[d] = IF d = 0 THEN Leaves + i ELSE p[d - 1] \div 2
    BY <1>4, Zenon
  <2>2. \A d \in 1 .. Depth : d \in 0 .. Depth /\ d # 0
    OBVIOUS
  <2>3. 0 \in 0 .. Depth
    BY <1>0
  <2> QED BY <2>1, <2>2, <2>3
\* A node of the path is on the level its distance from the leaf says.
<1>6. \A d \in 0 .. Depth : /\ p[d] \in Nat /\ Doubled[Depth - d] <= p[d]
                            /\ p[d] < 2 * Doubled[Depth - d]
  <2> DEFINE T == {d \in Int : /\ p[d] \in Nat /\ Doubled[Depth - d] <= p[d]
                               /\ p[d] < 2 * Doubled[Depth - d]}
  <2>1. 0 \in T
    BY <1>0, <1>5
  <2>2. ASSUME NEW d \in 0 + 1 .. Depth, d - 1 \in T PROVE d \in T
    <3>1. /\ Depth - (d - 1) \in 1 .. K /\ Depth - d \in 0 .. K
          /\ (Depth - (d - 1)) - 1 = Depth - d /\ d \in 1 .. Depth
      BY <1>0
    <3>2. Doubled[Depth - (d - 1)] = 2 * Doubled[Depth - d] /\ Doubled[Depth - d] \in Nat
      BY <3>1, DoubledIs
    <3>3. /\ p[d - 1] \in Nat /\ Doubled[Depth - (d - 1)] <= p[d - 1]
          /\ p[d - 1] < 2 * Doubled[Depth - (d - 1)] /\ p[d] = p[d - 1] \div 2
      BY <2>2, <1>5, <3>1
    <3>4. d \in Int
      OBVIOUS
    <3> QED BY <3>2, <3>3, <3>4, Halves
  <2>3. \A d \in 0 .. Depth : d \in T
    <3>1. 0 \in Int /\ Depth \in Int
      BY <1>0
    <3> HIDE DEF T
    <3> QED BY <2>1, <2>2, <3>1, UpFrom, Zenon
  <2> QED BY <2>3
<1>7. p \in [0 .. Depth -> Nat]
  <2>1. p = [d \in 0 .. Depth |-> p[d]]
    BY <1>4
  <2> QED BY <1>6, <2>1
<1>8. p[Depth] = 1
  <2>1. Depth \in 0 .. Depth /\ Depth - Depth = 0
    BY <1>0
  <2>2. Doubled[0] <= p[Depth] /\ p[Depth] < 2 * Doubled[0] /\ p[Depth] \in Nat
    BY <1>6, <2>1
  <2> QED BY <2>2, DoubledIs
<1>9. ASSUME NEW d \in 1 .. Depth PROVE p[d] \in 1 .. (Leaves - 1)
  <2> DEFINE T == {e \in Int : p[e] \in Nat /\ p[e] < Leaves}
  <2>1. 1 \in T
    <3>1. 1 \in 1 .. Depth /\ p[1] = (Leaves + i) \div 2
      BY <1>0, <1>5
    <3> QED BY <1>0, <3>1, Halves
  <2>2. ASSUME NEW e \in 1 + 1 .. Depth, e - 1 \in T PROVE e \in T
    <3>1. e \in 1 .. Depth /\ e \in Int
      OBVIOUS
    <3>2. p[e] = p[e - 1] \div 2 /\ p[e - 1] \in Nat /\ p[e - 1] < Leaves
      BY <1>5, <2>2, <3>1
    <3> QED BY <1>0, <3>1, <3>2, Halves
  <2>3. \A e \in 1 .. Depth : e \in T
    <3>1. 1 \in Int /\ Depth \in Int
      BY <1>0
    <3> HIDE DEF T
    <3> QED BY <2>1, <2>2, <3>1, UpFrom, Zenon
  <2>4. d \in 0 .. Depth /\ Depth - d \in 0 .. K /\ p[d] < Leaves /\ p[d] \in Nat
    BY <1>0, <2>3
  <2>5. Doubled[Depth - d] \in Nat /\ Doubled[Depth - d] # 0
    BY <2>4, DoubledIs
  <2>6. Doubled[Depth - d] <= p[d]
    BY <1>6, <2>4
  <2> QED BY <1>0, <2>4, <2>5, <2>6
<1> QED BY <1>5, <1>7, <1>8, <1>9 DEF p

LEMMA PathFalls ==
  ASSUME K \in Nat, NEW i \in Cursors, NEW d \in 0 .. Depth, NEW e \in 0 .. Depth, d < e
  PROVE  2 * path(i)[e] <= path(i)[d] /\ path(i)[e] >= 1 /\ path(i)[e] \in Nat /\ path(i)[d] \in Nat
<1> DEFINE p == path(i)
<1>0. Depth \in Nat
  BY TreeShape
<1>1. /\ p \in [0 .. Depth -> Nat] /\ \A n \in 1 .. Depth : p[n] = p[n - 1] \div 2
      /\ \A n \in 1 .. Depth : p[n] >= 1
  BY PathIs
<1> HIDE DEF p
<1> DEFINE T == {n \in Int : 2 * p[n] <= p[d]}
<1>2. d + 1 \in T
  <2>1. d + 1 \in 1 .. Depth /\ (d + 1) - 1 = d /\ d + 1 \in Int /\ p[d] \in Nat
    BY <1>0, <1>1
  <2>2. p[d + 1] = p[d] \div 2
    BY <1>1, <2>1
  <2> QED BY <2>1, <2>2, Halves
<1>3. ASSUME NEW n \in (d + 1) + 1 .. e, n - 1 \in T PROVE n \in T
  <2>1. n \in 1 .. Depth /\ n \in Int /\ n - 1 \in 0 .. Depth
    BY <1>0
  <2>2. p[n] = p[n - 1] \div 2 /\ p[n - 1] \in Nat /\ p[d] \in Nat /\ 2 * p[n - 1] <= p[d]
    BY <1>1, <1>3, <2>1
  <2> QED BY <2>1, <2>2, Halves
<1>4. \A n \in d + 1 .. e : n \in T
  <2>1. d + 1 \in Int /\ e \in Int
    BY <1>0
  <2> HIDE DEF T
  <2> QED BY <1>2, <1>3, <2>1, UpFrom, Zenon
<1>5. e \in d + 1 .. e /\ e \in 1 .. Depth
  BY <1>0
<1> QED BY <1>1, <1>4, <1>5 DEF p

\* w is who wins at each node of the tournament that t keeps the losers of.
Tournament(w, t, ks) ==
  /\ w \in [1 .. (2 * Leaves - 1) -> Cursors] /\ t \in [Cursors -> Cursors]
  /\ \A i \in Cursors : w[Leaves + i] = i
  /\ t[0] = w[1]
  /\ \A n \in 1 .. (Leaves - 1) :
       /\ \/ w[n] = w[2 * n] /\ t[n] = w[2 * n + 1]
          \/ w[n] = w[2 * n + 1] /\ t[n] = w[2 * n]
       /\ ~Before(ks[t[n]], ks[w[n]])

Sorted(t, ks) == \E w : Tournament(w, t, ks)

\* The root has the smallest key.
LEMMA SmallestWins ==
  ASSUME K \in Nat, NEW t, NEW ks, ks \in [Cursors -> KeyType], Sorted(t, ks)
  PROVE  t[0] \in Cursors /\ \A i \in Cursors : ~Before(ks[i], ks[t[0]])
<1>1. PICK w : Tournament(w, t, ks)
  BY DEF Sorted
<1>0. Depth \in Nat /\ Leaves \in Nat /\ Leaves # 0
  BY TreeShape
<1>2. t[0] = w[1] /\ w[1] \in Cursors
  <2>1. 1 \in 1 .. (2 * Leaves - 1)
    BY <1>0
  <2> QED BY <1>1, <2>1 DEF Tournament
<1>3. ASSUME NEW i \in Cursors PROVE ~Before(ks[i], ks[t[0]])
  <2> DEFINE p == path(i)
             T == {d \in Int : ~Before(ks[i], ks[w[p[d]]])}
  <2>1. /\ p[0] = Leaves + i /\ p[Depth] = 1
        /\ \A d \in 1 .. Depth : /\ p[d] = p[d - 1] \div 2 /\ p[d - 1] \in Nat
                                 /\ p[d] \in 1 .. (Leaves - 1)
    <3>1. \A d \in 1 .. Depth : d - 1 \in 0 .. Depth
      BY <1>0
    <3> QED BY <3>1, PathIs
  <2> HIDE DEF p
  <2>2. 0 \in T
    <3>1. w[p[0]] = i /\ ks[i] \in KeyType
      BY <1>1, <2>1 DEF Tournament
    <3> QED BY <3>1, KeyOrder
  <2>3. ASSUME NEW d \in 0 + 1 .. Depth, d - 1 \in T PROVE d \in T
    <3>1. d \in 1 .. Depth /\ d \in Int
      OBVIOUS
    <3>2. PICK n \in 1 .. (Leaves - 1) : n = p[d]
      BY <2>1, <3>1
    <3>3. p[d - 1] = 2 * n \/ p[d - 1] = 2 * n + 1
      BY <2>1, <3>1, <3>2, Halves
    <3>4. w[p[d - 1]] = w[n] \/ w[p[d - 1]] = t[n]
      BY <1>1, <3>3 DEF Tournament
    <3>5. ~Before(ks[t[n]], ks[w[n]]) /\ ~Before(ks[i], ks[w[p[d - 1]]])
      BY <1>1, <2>3 DEF Tournament
    <3>6. n \in 1 .. (2 * Leaves - 1) /\ n \in Cursors
      BY <1>0 DEF Cursors
    <3>7. ks[i] \in KeyType /\ ks[w[n]] \in KeyType /\ ks[t[n]] \in KeyType
      BY <1>1, <3>6 DEF Tournament
    <3>8. ~Before(ks[i], ks[w[n]])
      BY <3>4, <3>5, <3>7, KeyOrder
    <3> QED BY <3>1, <3>2, <3>8
  <2>4. \A d \in 0 .. Depth : d \in T
    <3>1. 0 \in Int /\ Depth \in Int
      BY <1>0
    <3> HIDE DEF T
    <3> QED BY <2>2, <2>3, <3>1, UpFrom, Zenon
  <2>5. Depth \in 0 .. Depth
    BY <1>0
  <2> QED BY <1>2, <2>1, <2>4, <2>5
<1> QED BY <1>2, <1>3

\* A cursor wins only on its own way to the root.
LEMMA WinsOnPath ==
  ASSUME K \in Nat, NEW w, NEW t, NEW ks, Tournament(w, t, ks), NEW i \in Cursors
  PROVE  \A n \in 1 .. (2 * Leaves - 1) : w[n] = i => \E d \in 0 .. Depth : path(i)[d] = n
<1> DEFINE p == path(i)
           T == {n \in Int : w[n] = i => \E d \in 0 .. Depth : p[d] = n}
<1>0. Depth \in Nat /\ Leaves \in Nat /\ Leaves # 0
  BY TreeShape
<1>1. /\ p[0] = Leaves + i /\ p[Depth] = 1 /\ p \in [0 .. Depth -> Nat]
      /\ \A d \in 1 .. Depth : p[d] = p[d - 1] \div 2
  BY PathIs
<1> HIDE DEF p
<1>2. ASSUME NEW n \in Leaves .. (2 * Leaves - 1) PROVE n \in T
  <2>1. n - Leaves \in Cursors /\ Leaves + (n - Leaves) = n /\ n \in Int
    BY <1>0 DEF Cursors
  <2>2. w[n] = n - Leaves
    BY <2>1 DEF Tournament
  <2>3. w[n] = i => p[0] = n
    BY <1>1, <2>1, <2>2
  <2>4. 0 \in 0 .. Depth
    BY <1>0
  <2> QED BY <2>1, <2>3, <2>4
<1> DEFINE U == {m \in Int : \A n \in m .. (2 * Leaves - 1) : n \in T}
<1>3. Leaves \in U
  <2> HIDE DEF T
  <2> QED BY <1>0, <1>2
<1>4. ASSUME NEW m \in 1 .. Leaves - 1, m + 1 \in U PROVE m \in U
  <2>1. /\ 2 * m \in m + 1 .. (2 * Leaves - 1) /\ 2 * m + 1 \in m + 1 .. (2 * Leaves - 1)
        /\ m \in Int /\ m \in Cursors
    BY <1>0 DEF Cursors
  <2>2. 2 * m \in T /\ 2 * m + 1 \in T
    <3> HIDE DEF T
    <3> QED BY <1>4, <2>1
  <2>3. ASSUME w[m] = i PROVE \E d \in 0 .. Depth : p[d] = m
    <3>1. w[2 * m] = i \/ w[2 * m + 1] = i
      BY <2>3 DEF Tournament
    <3>2. PICK d \in 0 .. Depth : p[d] = 2 * m \/ p[d] = 2 * m + 1
      BY <2>2, <3>1
    <3>3. d # Depth
      BY <1>1, <2>1, <3>2
    <3>4. d + 1 \in 1 .. Depth /\ (d + 1) - 1 = d /\ d + 1 \in 0 .. Depth
      BY <1>0, <3>3
    <3>5. p[d + 1] = p[d] \div 2 /\ p[d] \in Nat
      BY <1>1, <3>4
    <3>6. p[d + 1] = m
      BY <2>1, <3>2, <3>5
    <3> QED BY <3>4, <3>6
  <2>4. m \in T
    BY <2>1, <2>3
  <2>5. \A n \in m .. (2 * Leaves - 1) : n = m \/ n \in m + 1 .. (2 * Leaves - 1)
    BY <1>0
  <2> HIDE DEF T
  <2> QED BY <1>4, <2>1, <2>4, <2>5
<1>5. \A m \in 1 .. Leaves : m \in U
  <2>1. 1 \in Int /\ Leaves \in Int
    BY <1>0
  <2> HIDE DEF U
  <2> QED BY <1>3, <1>4, <2>1, DownFrom, Zenon
<1>6. 1 \in U
  BY <1>0, <1>5
<1> QED BY <1>6 DEF p

\* Two nodes of a path are not the children of one node.
LEMMA OneChild ==
  ASSUME K \in Nat, NEW i \in Cursors, NEW d \in 0 .. Depth, NEW e \in 0 .. Depth, NEW n \in Nat,
         path(i)[d] = 2 * n, path(i)[e] = 2 * n + 1, n >= 1
  PROVE  FALSE
<1>1. CASE d < e
  <2>1. 2 * path(i)[e] <= path(i)[d]
    BY <1>1, PathFalls
  <2> QED BY <2>1
<1>2. CASE e < d
  <2>1. 2 * path(i)[d] <= path(i)[e]
    BY <1>2, PathFalls
  <2> QED BY <2>1
<1>3. CASE d = e
  BY <1>3
<1>4. Depth \in Nat
  BY TreeShape
<1> QED BY <1>1, <1>2, <1>3, <1>4

\* The winner has won everywhere on its way.
LEMMA WonAllTheWay ==
  ASSUME K \in Nat, NEW w, NEW t, NEW ks, Tournament(w, t, ks), NEW i \in Cursors, t[0] = i
  PROVE  \A d \in 0 .. Depth : w[path(i)[d]] = i
<1> DEFINE p == path(i)
           T == {d \in Int : w[p[d]] = i}
<1>0. Depth \in Nat /\ Leaves \in Nat /\ Leaves # 0
  BY TreeShape
<1>1. p[Depth] = 1 /\ \A d \in 1 .. Depth : p[d] = p[d - 1] \div 2 /\ p[d] \in 1 .. (Leaves - 1)
  BY PathIs
<1>2. Depth \in T
  <2>1. w[1] = i
    BY DEF Tournament
  <2>2. w[p[Depth]] = i
    BY <1>1, <2>1
  <2> QED BY <1>0, <2>2
<1>3. ASSUME NEW d \in 0 .. Depth - 1, d + 1 \in T PROVE d \in T
  <2>1. d + 1 \in 1 .. Depth /\ (d + 1) - 1 = d /\ d \in 0 .. Depth /\ d \in Int
    BY <1>0
  <2>2. PICK n \in 1 .. (Leaves - 1) : n = p[d + 1]
    BY <1>1, <2>1
  <2>3. p[d] \in Nat
    BY <2>1, PathIs
  <2>4. p[d] = 2 * n \/ p[d] = 2 * n + 1
    BY <1>1, <2>1, <2>2, <2>3, Halves
  <2>5. w[n] = i
    BY <1>3, <2>2
  <2>6. w[2 * n] = i \/ w[2 * n + 1] = i
    BY <2>5 DEF Tournament
  <2>7. /\ 2 * n \in 1 .. (2 * Leaves - 1) /\ 2 * n + 1 \in 1 .. (2 * Leaves - 1)
        /\ n \in Nat /\ n >= 1
    BY <1>0
  <2>8. ASSUME w[p[d]] # i PROVE FALSE
    <3>1. CASE p[d] = 2 * n
      <4>1. w[2 * n + 1] = i
        BY <2>6, <2>8, <3>1
      <4>2. PICK e \in 0 .. Depth : p[e] = 2 * n + 1
        BY <2>7, <4>1, WinsOnPath
      <4> QED BY <2>1, <2>7, <3>1, <4>2, OneChild
    <3>2. CASE p[d] = 2 * n + 1
      <4>1. w[2 * n] = i
        BY <2>6, <2>8, <3>2
      <4>2. PICK e \in 0 .. Depth : p[e] = 2 * n
        BY <2>7, <4>1, WinsOnPath
      <4> QED BY <2>1, <2>7, <3>2, <4>2, OneChild
    <3> QED BY <2>4, <3>1, <3>2
  <2> QED BY <2>1, <2>8
<1>4. \A d \in 0 .. Depth : d \in T
  <2>1. 0 \in Int /\ Depth \in Int
    BY <1>0
  <2> HIDE DEF T
  <2> QED BY <1>2, <1>3, <2>1, DownFrom, Zenon
<1> QED BY <1>4

\* up is the recursion of fix.
Replays(up, t, ks, i) ==
  /\ up \in [0 .. Depth -> Cursors] /\ up[0] = i
  /\ \A d \in 1 .. Depth :
       up[d] = IF Before(ks[t[path(i)[d]]], ks[up[d - 1]]) THEN t[path(i)[d]] ELSE up[d - 1]

\* The tree that the recursion leaves.
Replayed(up, t, i) ==
  [n \in Cursors |->
     IF n = 0 THEN up[Depth]
     ELSE IF \E d \in 1 .. Depth : path(i)[d] = n
          THEN LET d == CHOOSE d \in 1 .. Depth : path(i)[d] = n
               IN  IF up[d] = up[d - 1] THEN t[path(i)[d]] ELSE up[d - 1]
          ELSE t[n]]

LEMMA FixIs ==
  ASSUME K \in Nat, NEW t, t \in [Cursors -> Cursors], NEW ks, NEW i \in Cursors
  PROVE  \E up : /\ Replays(up, t, ks, i)
                 /\ fix(t, ks, i) = Replayed(up, t, i)
<1> DEFINE p == path(i)
           pick(d, x) == IF Before(ks[t[p[d]]], ks[x]) THEN t[p[d]] ELSE x
           step == [d \in 1 .. Depth |-> [x \in Cursors |-> pick(d, x)]]
           Rhs(f) == [d \in 0 .. Depth |-> IF d = 0 THEN i ELSE pick(d, f[d - 1])]
           up == CHOOSE f : f = Rhs(f)
<1>0. Depth \in Nat /\ Leaves \in Nat /\ Leaves # 0
  BY TreeShape
<1>1. \A d \in 1 .. Depth : p[d] \in Cursors
  <2>1. \A d \in 1 .. Depth : p[d] \in 1 .. (Leaves - 1)
    BY PathIs
  <2> HIDE DEF p
  <2> QED BY <1>0, <2>1 DEF Cursors
<1>2. \A d \in 1 .. Depth : \A x \in Cursors : pick(d, x) \in Cursors
  BY <1>1
<1> HIDE DEF pick
<1>3. StaysIn(Depth, Cursors, step)
  BY <1>2 DEF StaysIn
<1>4. PICK f : Solves(f, Depth, Cursors, i, step)
  <2> HIDE DEF step
  <2> QED BY <1>0, <1>3, Iteration, Zenon
<1>5. f = Rhs(f)
  <2>1. ASSUME NEW d \in 0 .. Depth PROVE f[d] = IF d = 0 THEN i ELSE pick(d, f[d - 1])
    <3>1. CASE d # 0
      <4>1. d \in 1 .. Depth /\ d - 1 \in 0 .. Depth
        BY <1>0, <3>1
      <4>2. f[d] = step[d][f[d - 1]] /\ f[d - 1] \in Cursors
        BY <1>4, <4>1 DEF Solves
      <4> QED BY <3>1, <4>1, <4>2
    <3> QED BY <1>4, <3>1 DEF Solves
  <2>2. f = [d \in 0 .. Depth |-> f[d]]
    BY <1>4 DEF Solves
  <2> QED BY <2>1, <2>2
<1>6. up = Rhs(up)
  <2> HIDE DEF Rhs
  <2> QED BY <1>5, Zenon
<1>7. fix(t, ks, i) = Replayed(up, t, i)
  BY Zenon DEF fix, Cursors, pick, Replayed
<1> HIDE DEF up
<1>8. up[0] = i /\ \A d \in 1 .. Depth : up[d] = pick(d, up[d - 1])
  <2>1. \A d \in 0 .. Depth : up[d] = IF d = 0 THEN i ELSE pick(d, up[d - 1])
    BY <1>6, Zenon
  <2>2. \A d \in 1 .. Depth : d \in 0 .. Depth /\ d # 0
    OBVIOUS
  <2>3. 0 \in 0 .. Depth
    BY <1>0
  <2> QED BY <2>1, <2>2, <2>3
<1>9. \A d \in 0 .. Depth : up[d] \in Cursors
  <2> DEFINE T == {d \in Int : up[d] \in Cursors}
  <2>1. 0 \in T
    BY <1>8
  <2>2. ASSUME NEW d \in 0 + 1 .. Depth, d - 1 \in T PROVE d \in T
    BY <1>2, <1>8, <2>2
  <2>3. \A d \in 0 .. Depth : d \in T
    <3>1. 0 \in Int /\ Depth \in Int
      BY <1>0
    <3> HIDE DEF T
    <3> QED BY <2>1, <2>2, <3>1, UpFrom, Zenon
  <2> QED BY <2>3
<1>10. up = [d \in 0 .. Depth |-> up[d]]
  BY <1>6
<1>11. up \in [0 .. Depth -> Cursors]
  BY <1>9, <1>10
<1>12. Replays(up, t, ks, i)
  BY <1>8, <1>11, Zenon DEF Replays, pick
<1> QED BY <1>7, <1>12, Zenon

\* What fix leaves: the replayed winner on the path, everything else as it was.
LEMMA FixLeaves ==
  ASSUME K \in Nat, NEW t, t \in [Cursors -> Cursors], NEW ks, NEW i \in Cursors
  PROVE  \E up : /\ Replays(up, t, ks, i)
                 /\ fix(t, ks, i) \in [Cursors -> Cursors]
                 /\ fix(t, ks, i)[0] = up[Depth]
                 /\ \A d \in 1 .. Depth : fix(t, ks, i)[path(i)[d]] =
                      IF up[d] = up[d - 1] THEN t[path(i)[d]] ELSE up[d - 1]
                 /\ \A n \in 1 .. (Leaves - 1) :
                      (\A d \in 1 .. Depth : path(i)[d] # n) => fix(t, ks, i)[n] = t[n]
<1> DEFINE p == path(i)
           g == fix(t, ks, i)
           on(n) == \E d \in 1 .. Depth : p[d] = n
           the(n) == CHOOSE d \in 1 .. Depth : p[d] = n
<1>0. Depth \in Nat /\ Leaves \in Nat /\ Leaves # 0
  BY TreeShape
<1>1. PICK up : Replays(up, t, ks, i) /\ g = Replayed(up, t, i)
  BY FixIs, Zenon
<1>2. ASSUME NEW d \in 1 .. Depth PROVE p[d] \in 1 .. (Leaves - 1) /\ the(p[d]) = d
  <2>1. on(p[d])
    OBVIOUS
  <2>2. the(p[d]) \in 1 .. Depth /\ p[the(p[d])] = p[d]
    BY <2>1
  <2> HIDE DEF the, on
  <2>3. PICK e \in 1 .. Depth : e = the(p[d])
    BY <2>2
  <2>4. p[e] = p[d] /\ d \in 0 .. Depth /\ e \in 0 .. Depth
    BY <1>0, <2>2, <2>3
  <2>5. p[d] \in 1 .. (Leaves - 1)
    BY PathIs
  <2>6. ~(d < e) /\ ~(e < d)
    BY <1>0, <2>4, <2>5, PathFalls
  <2>7. e = d
    BY <1>0, <2>6
  <2> QED BY <2>3, <2>5, <2>7
<1> HIDE DEF g
<1>3. \A n \in Cursors : g[n] = IF n = 0 THEN up[Depth]
                         ELSE IF on(n)
                              THEN IF up[the(n)] = up[the(n) - 1] THEN t[p[the(n)]]
                                   ELSE up[the(n) - 1]
                              ELSE t[n]
  BY <1>1, Zenon DEF Replayed
<1> HIDE DEF p
<1>4. 0 \in Cursors /\ \A n \in 1 .. (Leaves - 1) : n \in Cursors /\ n # 0
  BY <1>0 DEF Cursors
<1>5. g[0] = up[Depth]
  BY <1>3, <1>4
<1>6. ASSUME NEW d \in 1 .. Depth
      PROVE  g[p[d]] = IF up[d] = up[d - 1] THEN t[p[d]] ELSE up[d - 1]
  <2>1. on(p[d])
    OBVIOUS
  <2>2. p[d] \in Cursors /\ p[d] # 0 /\ the(p[d]) = d
    BY <1>2, <1>4
  <2> HIDE DEF on, the
  <2> QED BY <1>3, <2>1, <2>2, Zenon
<1>7. ASSUME NEW n \in 1 .. (Leaves - 1), \A d \in 1 .. Depth : p[d] # n PROVE g[n] = t[n]
  <2>1. ~on(n)
    BY <1>7
  <2> HIDE DEF on, the
  <2> QED BY <1>3, <1>4, <2>1, Zenon
<1>8. g \in [Cursors -> Cursors]
  <2>1. ASSUME NEW n \in Cursors PROVE g[n] \in Cursors
    <3>1. CASE n = 0
      <4>1. Depth \in 0 .. Depth
        BY <1>0
      <4> QED BY <1>1, <1>5, <3>1, <4>1 DEF Replays
    <3>2. CASE n # 0 /\ on(n)
      <4>1. PICK d \in 1 .. Depth : p[d] = n
        BY <3>2
      <4>2. d - 1 \in 0 .. Depth
        BY <1>0
      <4>3. up[d - 1] \in Cursors
        BY <1>1, <4>2 DEF Replays
      <4>4. t[n] \in Cursors
        OBVIOUS
      <4> QED BY <1>6, <4>1, <4>3, <4>4
    <3>3. CASE n # 0 /\ ~on(n)
      <4>1. n \in 1 .. (Leaves - 1)
        BY <1>0, <3>3 DEF Cursors
      <4> QED BY <1>7, <3>3, <4>1
    <3> QED BY <3>1, <3>2, <3>3
  <2>2. g = [n \in Cursors |-> g[n]]
    BY <1>1 DEF Replayed
  <2> QED BY <2>1, <2>2
<1> QED BY <1>1, <1>5, <1>6, <1>7, <1>8 DEF g, p

\* fix keeps the tournament when the winner's key changes.
LEMMA FixSorts ==
  ASSUME K \in Nat, NEW t, NEW ks, NEW new, NEW i \in Cursors, new \in [Cursors -> KeyType],
         Sorted(t, ks), t[0] = i, \A j \in Cursors : j # i => new[j] = ks[j]
  PROVE  Sorted(fix(t, new, i), new)
<1> DEFINE p == path(i)
           g == fix(t, new, i)
           Nodes == 1 .. (2 * Leaves - 1)
           on(n) == \E d \in 0 .. Depth : p[d] = n
           the(n) == CHOOSE d \in 0 .. Depth : p[d] = n
<1>0. Depth \in Nat /\ Leaves \in Nat /\ Leaves # 0
  BY TreeShape
<1>1. PICK w : Tournament(w, t, ks)
  BY DEF Sorted
<1>2. t \in [Cursors -> Cursors] /\ w \in [Nodes -> Cursors]
  BY <1>1 DEF Tournament
<1>3. PICK up : /\ Replays(up, t, new, i)
                /\ g \in [Cursors -> Cursors] /\ g[0] = up[Depth]
                /\ \A d \in 1 .. Depth :
                     g[p[d]] = IF up[d] = up[d - 1] THEN t[p[d]] ELSE up[d - 1]
                /\ \A n \in 1 .. (Leaves - 1) : (\A d \in 1 .. Depth : p[d] # n) => g[n] = t[n]
  BY <1>2, FixLeaves
<1>4. /\ p[0] = Leaves + i /\ p[Depth] = 1 /\ p \in [0 .. Depth -> Nat]
      /\ \A d \in 1 .. Depth : p[d] = p[d - 1] \div 2
      /\ \A d \in 1 .. Depth : p[d] \in 1 .. (Leaves - 1)
  BY PathIs
<1>5. \A d \in 0 .. Depth : w[p[d]] = i
  BY <1>1, WonAllTheWay
<1>6. \A n \in Nodes : w[n] = i => on(n)
  BY <1>1, WinsOnPath
<1>7. ASSUME NEW d \in 0 .. Depth PROVE p[d] \in Nodes /\ the(p[d]) = d
  <2>1. on(p[d])
    OBVIOUS
  <2>2. the(p[d]) \in 0 .. Depth /\ p[the(p[d])] = p[d]
    BY <2>1
  <2> HIDE DEF the, on
  <2>3. PICK e \in 0 .. Depth : e = the(p[d])
    BY <2>2
  <2>4. p[e] = p[d]
    BY <2>2, <2>3
  <2>5. p[d] \in Nodes
    <3>1. CASE d = 0
      BY <1>0, <1>4, <3>1 DEF Cursors
    <3>2. CASE d # 0
      <4>1. d \in 1 .. Depth
        BY <3>2
      <4> QED BY <1>0, <1>4, <4>1
    <3> QED BY <3>1, <3>2
  <2>6. ~(d < e) /\ ~(e < d)
    BY <1>0, <2>4, <2>5, PathFalls
  <2>7. e = d
    BY <1>0, <2>6
  <2> QED BY <2>3, <2>5, <2>7
<1>8. ASSUME NEW n \in 1 .. (Leaves - 1), NEW c, c = 2 * n \/ c = 2 * n + 1
      PROVE  on(c) => on(n)
  <2> SUFFICES ASSUME NEW d \in 0 .. Depth, p[d] = c PROVE on(n)
    OBVIOUS
  <2>1. d # Depth
    BY <1>0, <1>4, <1>8
  <2>2. d + 1 \in 1 .. Depth /\ (d + 1) - 1 = d /\ d + 1 \in 0 .. Depth
    BY <1>0, <2>1
  <2>3. p[d + 1] = p[d] \div 2
    BY <1>4, <2>2
  <2>4. p[d + 1] = n
    BY <1>0, <1>8, <2>3
  <2> QED BY <2>2, <2>4
<1>9. ASSUME NEW d \in 0 .. Depth, NEW e \in 0 .. Depth, NEW n \in 1 .. (Leaves - 1),
             p[d] = 2 * n, p[e] = 2 * n + 1
      PROVE  FALSE
  <2>1. n \in Nat /\ n >= 1
    OBVIOUS
  <2> QED BY <1>9, <2>1, OneChild
<1> DEFINE w2 == [n \in Nodes |-> IF on(n) THEN up[the(n)] ELSE w[n]]
<1> HIDE DEF g, p
<1>10. ASSUME NEW d \in 0 .. Depth PROVE w2[p[d]] = up[d] /\ up[d] \in Cursors
  <2>1. on(p[d])
    OBVIOUS
  <2> HIDE DEF on, the
  <2> QED BY <1>3, <1>7, <2>1 DEF Replays
<1>11. \A n \in Nodes : ~on(n) => w2[n] = w[n]
  <2> HIDE DEF on, the
  <2> QED OBVIOUS
<1>12. w2 \in [Nodes -> Cursors]
  <2>1. ASSUME NEW n \in Nodes PROVE w2[n] \in Cursors
    <3>1. CASE on(n)
      <4>1. PICK d \in 0 .. Depth : p[d] = n
        BY <3>1
      <4> HIDE DEF w2
      <4> QED BY <1>10, <4>1
    <3>2. CASE ~on(n)
      <4>1. w2[n] = w[n]
        BY <1>11, <3>2
      <4> HIDE DEF w2
      <4> QED BY <1>2, <4>1
    <3> QED BY <3>1, <3>2
  <2>2. w2 = [n \in Nodes |-> w2[n]]
    OBVIOUS
  <2> HIDE DEF w2
  <2> QED BY <2>1, <2>2
<1> HIDE DEF w2
<1>13. ASSUME NEW j \in Cursors PROVE w2[Leaves + j] = j
  <2>1. CASE j = i
    <3>1. 0 \in 0 .. Depth
      BY <1>0
    <3>2. w2[p[0]] = up[0]
      BY <1>10, <3>1
    <3> QED BY <1>3, <1>4, <2>1, <3>2 DEF Replays
  <2>2. CASE j # i
    <3>1. Leaves + j \in Nodes /\ w[Leaves + j] = j
      BY <1>0, <1>1 DEF Tournament, Cursors
    <3>2. ~on(Leaves + j)
      <4> SUFFICES ASSUME NEW d \in 0 .. Depth, p[d] = Leaves + j PROVE FALSE
        OBVIOUS
      <4> QED BY <1>5, <2>2, <3>1
    <3> QED BY <1>11, <3>1, <3>2
  <2> QED BY <2>1, <2>2
<1>14. g[0] = w2[1]
  <2>1. Depth \in 0 .. Depth
    BY <1>0
  <2> QED BY <1>3, <1>4, <1>10, <2>1
<1>15. ASSUME NEW n \in 1 .. (Leaves - 1)
       PROVE  /\ \/ w2[n] = w2[2 * n] /\ g[n] = w2[2 * n + 1]
                 \/ w2[n] = w2[2 * n + 1] /\ g[n] = w2[2 * n]
              /\ ~Before(new[g[n]], new[w2[n]])
  <2>1. /\ 2 * n \in Nodes /\ 2 * n + 1 \in Nodes /\ n \in Nodes /\ n \in Cursors
        /\ 2 * n # 2 * n + 1 /\ n \in Nat
    BY <1>0 DEF Cursors
  <2>2. /\ \/ w[n] = w[2 * n] /\ t[n] = w[2 * n + 1]
           \/ w[n] = w[2 * n + 1] /\ t[n] = w[2 * n]
        /\ ~Before(ks[t[n]], ks[w[n]])
    BY <1>1 DEF Tournament
  <2>3. CASE ~on(n)
    <3>1. ~on(2 * n) /\ ~on(2 * n + 1)
      BY <1>8, <2>3
    <3>2. w2[n] = w[n] /\ w2[2 * n] = w[2 * n] /\ w2[2 * n + 1] = w[2 * n + 1]
      BY <1>11, <2>1, <2>3, <3>1
    <3>3. w[n] # i /\ w[2 * n] # i /\ w[2 * n + 1] # i
      BY <1>6, <2>1, <2>3, <3>1
    <3>4. \A d \in 1 .. Depth : p[d] # n
      <4>1. \A d \in 1 .. Depth : d \in 0 .. Depth
        OBVIOUS
      <4> QED BY <2>3, <4>1
    <3>5. g[n] = t[n]
      BY <1>3, <3>4
    <3>6. w[n] \in Cursors /\ t[n] \in Cursors
      BY <1>2, <2>1
    <3>7. new[t[n]] = ks[t[n]] /\ new[w[n]] = ks[w[n]]
      BY <2>2, <3>3, <3>6
    <3> QED BY <2>2, <3>2, <3>5, <3>7
  <2>4. CASE on(n)
    <3>1. PICK d \in 0 .. Depth : p[d] = n
      BY <2>4
    <3>2. d \in 1 .. Depth
      <4>1. d # 0
        BY <1>0, <1>4, <3>1 DEF Cursors
      <4> QED BY <1>0, <4>1
    <3>3. d - 1 \in 0 .. Depth /\ p[d - 1] \in Nat /\ n = p[d - 1] \div 2
      <4>1. d - 1 \in 0 .. Depth
        BY <1>0, <3>2
      <4> QED BY <1>4, <3>1, <3>2, <4>1
    <3>4. w2[n] = up[d] /\ w2[p[d - 1]] = up[d - 1] /\ w[n] = i /\ w[p[d - 1]] = i
      BY <1>5, <1>10, <3>1, <3>3
    <3>5. /\ g[n] = IF up[d] = up[d - 1] THEN t[n] ELSE up[d - 1]
          /\ up[d] = IF Before(new[t[n]], new[up[d - 1]]) THEN t[n] ELSE up[d - 1]
      BY <1>3, <3>1, <3>2 DEF Replays, p
    <3>6. new[t[n]] \in KeyType /\ new[up[d - 1]] \in KeyType
      BY <1>2, <1>10, <2>1, <3>3
    <3>7. ~Before(new[g[n]], new[w2[n]])
      BY <3>4, <3>5, <3>6, KeyOrder
    <3>8. {w2[n], g[n]} = {up[d - 1], t[n]} /\ (w2[n] = up[d - 1] => g[n] = t[n])
          /\ (w2[n] # up[d - 1] => w2[n] = t[n] /\ g[n] = up[d - 1])
      BY <3>4, <3>5
    <3>9. CASE p[d - 1] = 2 * n
      <4>1. ~on(2 * n + 1)
        BY <1>9, <3>3, <3>9
      <4>2. w2[2 * n + 1] = w[2 * n + 1] /\ w[2 * n + 1] # i
        <5>1. w[2 * n + 1] = i => on(2 * n + 1)
          BY <1>6, <2>1
        <5>2. ~on(2 * n + 1) => w2[2 * n + 1] = w[2 * n + 1]
          BY <1>11, <2>1
        <5> HIDE DEF on
        <5> QED BY <4>1, <5>1, <5>2
      <4>3. t[n] = w2[2 * n + 1] /\ w2[2 * n] = up[d - 1]
        BY <2>2, <3>4, <3>9, <4>2
      <4> QED BY <3>7, <3>8, <4>3
    <3>10. CASE p[d - 1] = 2 * n + 1
      <4>1. ~on(2 * n)
        BY <1>9, <3>3, <3>10
      <4>2. w2[2 * n] = w[2 * n] /\ w[2 * n] # i
        <5>1. w[2 * n] = i => on(2 * n)
          BY <1>6, <2>1
        <5>2. ~on(2 * n) => w2[2 * n] = w[2 * n]
          BY <1>11, <2>1
        <5> HIDE DEF on
        <5> QED BY <4>1, <5>1, <5>2
      <4>3. t[n] = w2[2 * n] /\ w2[2 * n + 1] = up[d - 1]
        BY <2>2, <3>4, <3>10, <4>2
      <4> QED BY <3>7, <3>8, <4>3
    <3> QED BY <3>3, <3>9, <3>10, Halves
  <2> QED BY <2>3, <2>4
<1>16. Tournament(w2, g, new)
  BY <1>3, <1>12, <1>13, <1>14, <1>15 DEF Tournament
<1>17. Sorted(g, new)
  BY <1>16 DEF Sorted
<1> QED BY <1>17 DEF g

-----------------------------------------------------------------------------
\* win is the recursion of treeInit from node m on.
Wins(win, m, ks) ==
  win = [n \in m .. (2 * Leaves - 1) |->
           IF n >= Leaves THEN n - Leaves
           ELSE IF Before(ks[win[2 * n + 1]], ks[win[2 * n]]) THEN win[2 * n + 1]
           ELSE win[2 * n]]

LEMMA WinsExists ==
  ASSUME K \in Nat, NEW ks
  PROVE  \E win : Wins(win, 1, ks)
<1> DEFINE T == {m \in Int : \E win : Wins(win, m, ks)}
           N == 2 * Leaves - 1
<1>0. Leaves \in Nat /\ Leaves # 0
  BY TreeShape
<1>1. Leaves \in T
  <2> DEFINE f == [n \in Leaves .. N |-> n - Leaves]
  <2>1. \A n \in Leaves .. N : n >= Leaves
    BY <1>0
  <2>2. Wins(f, Leaves, ks)
    BY <2>1 DEF Wins
  <2> HIDE DEF f
  <2> QED BY <1>0, <2>2
<1>2. ASSUME NEW m \in 1 .. Leaves - 1, m + 1 \in T PROVE m \in T
  <2>1. PICK f : Wins(f, m + 1, ks)
    BY <1>2
  <2> DEFINE out(h, n) == IF Before(ks[h[2 * n + 1]], ks[h[2 * n]]) THEN h[2 * n + 1] ELSE h[2 * n]
             g == [n \in m .. N |-> IF n = m THEN out(f, m) ELSE f[n]]
  <2>2. ASSUME NEW n \in m + 1 .. N PROVE g[n] = f[n]
    BY <2>2
  <2>3. ASSUME NEW n \in m .. N PROVE g[n] = IF n >= Leaves THEN n - Leaves ELSE out(g, n)
    <3>1. CASE n = m
      <4>1. 2 * m \in m + 1 .. N /\ 2 * m + 1 \in m + 1 .. N /\ m \in m .. N /\ ~(m >= Leaves)
        BY <1>0
      <4>2. g[2 * m] = f[2 * m] /\ g[2 * m + 1] = f[2 * m + 1]
        BY <2>2, <4>1
      <4>3. g[m] = out(f, m)
        BY <4>1
      <4> HIDE DEF g
      <4> QED BY <3>1, <4>1, <4>2, <4>3
    <3>2. CASE n # m
      <4>1. n \in m + 1 .. N
        BY <3>2
      <4>2. f[n] = IF n >= Leaves THEN n - Leaves ELSE out(f, n)
        BY <2>1, <4>1, Zenon DEF Wins
      <4>3. n < Leaves => 2 * n \in m + 1 .. N /\ 2 * n + 1 \in m + 1 .. N
        BY <1>0, <4>1
      <4>4. n < Leaves => g[2 * n] = f[2 * n] /\ g[2 * n + 1] = f[2 * n + 1]
        BY <2>2, <4>3
      <4>5. g[n] = f[n] /\ (n >= Leaves \/ n < Leaves)
        BY <1>0, <2>2, <4>1
      <4> HIDE DEF g
      <4> QED BY <4>2, <4>4, <4>5
    <3> QED BY <3>1, <3>2
  <2>4. g = [n \in m .. N |-> g[n]]
    OBVIOUS
  <2> HIDE DEF g
  <2>5. Wins(g, m, ks)
    BY <2>3, <2>4 DEF Wins
  <2> QED BY <2>5
<1>3. \A m \in 1 .. Leaves : m \in T
  <2>1. 1 \in Int /\ Leaves \in Int
    BY <1>0
  <2> HIDE DEF T
  <2> QED BY <1>1, <1>2, <2>1, DownFrom, Zenon
<1>4. 1 \in T
  BY <1>0, <1>3
<1> QED BY <1>4

\* Init plays a full tournament.
LEMMA InitSorts ==
  ASSUME K \in Nat, NEW ks, ks \in [Cursors -> KeyType]
  PROVE  Sorted(treeInit(ks), ks)
<1> DEFINE N == 2 * Leaves - 1
           Rhs(f) == [n \in 1 .. N |-> IF n >= Leaves THEN n - Leaves
                        ELSE IF Before(ks[f[2 * n + 1]], ks[f[2 * n]]) THEN f[2 * n + 1]
                        ELSE f[2 * n]]
           win == CHOOSE f : f = Rhs(f)
           t == treeInit(ks)
<1>0. Leaves \in Nat /\ Leaves # 0
  BY TreeShape
<1>1. win = Rhs(win)
  <2>1. \E f : f = Rhs(f)
    BY WinsExists, Zenon DEF Wins
  <2> HIDE DEF Rhs
  <2> QED BY <2>1, Zenon
<1>2. t = [n \in Cursors |-> IF n = 0 THEN win[1]
                             ELSE IF win[n] = win[2 * n] THEN win[2 * n + 1] ELSE win[2 * n]]
  BY Zenon DEF treeInit, Cursors
<1> HIDE DEF win, t
<1>3. \A n \in 1 .. N : win[n] = IF n >= Leaves THEN n - Leaves
                        ELSE IF Before(ks[win[2 * n + 1]], ks[win[2 * n]]) THEN win[2 * n + 1]
                        ELSE win[2 * n]
  BY <1>1, Zenon
<1>4. \A i \in Cursors : win[Leaves + i] = i
  <2> TAKE i \in Cursors
  <2>1. Leaves + i \in 1 .. N /\ Leaves + i >= Leaves /\ (Leaves + i) - Leaves = i
    BY <1>0 DEF Cursors
  <2> QED BY <1>3, <2>1
<1>5. \A n \in 1 .. (Leaves - 1) : 
        win[n] = IF Before(ks[win[2 * n + 1]], ks[win[2 * n]]) THEN win[2 * n + 1] ELSE win[2 * n]
  <2>1. \A n \in 1 .. (Leaves - 1) : n \in 1 .. N /\ ~(n >= Leaves)
    BY <1>0
  <2> QED BY <1>3, <2>1
<1>6. \A n \in 1 .. N : win[n] \in Cursors
  <2> DEFINE T == {m \in Int : \A n \in m .. N : win[n] \in Cursors}
  <2>1. Leaves \in T
    <3>1. \A n \in Leaves .. N : n - Leaves \in Cursors /\ Leaves + (n - Leaves) = n
      BY <1>0 DEF Cursors
    <3>2. ASSUME NEW n \in Leaves .. N PROVE win[n] \in Cursors
      <4>1. win[Leaves + (n - Leaves)] = n - Leaves
        BY <1>4, <3>1
      <4> QED BY <3>1, <4>1
    <3> QED BY <1>0, <3>2
  <2>2. ASSUME NEW m \in 1 .. Leaves - 1, m + 1 \in T PROVE m \in T
    <3>1. 2 * m \in m + 1 .. N /\ 2 * m + 1 \in m + 1 .. N /\ m \in Int
      BY <1>0
    <3>2. win[m] \in Cursors
      BY <1>5, <2>2, <3>1
    <3>3. \A n \in m .. N : n = m \/ n \in m + 1 .. N
      BY <1>0
    <3> QED BY <2>2, <3>1, <3>2, <3>3
  <2>3. \A m \in 1 .. Leaves : m \in T
    <3>1. 1 \in Int /\ Leaves \in Int
      BY <1>0
    <3> HIDE DEF T
    <3> QED BY <2>1, <2>2, <3>1, DownFrom, Zenon
  <2>4. 1 \in T
    BY <1>0, <2>3
  <2> QED BY <2>4
<1>7. win \in [1 .. N -> Cursors]
  <2>1. win = [n \in 1 .. N |-> win[n]]
    BY <1>1
  <2> QED BY <1>6, <2>1
<1>8. /\ 0 \in Cursors /\ \A n \in 1 .. (Leaves - 1) : n \in Cursors /\ n # 0
      /\ 1 \in 1 .. N
      /\ \A n \in 1 .. (Leaves - 1) : 2 * n \in 1 .. N /\ 2 * n + 1 \in 1 .. N
      /\ \A n \in Cursors : n = 0 \/ n \in 1 .. (Leaves - 1)
  BY <1>0 DEF Cursors
<1>9. t[0] = win[1]
  BY <1>2, <1>8
<1>10. \A n \in 1 .. (Leaves - 1) :
         t[n] = IF win[n] = win[2 * n] THEN win[2 * n + 1] ELSE win[2 * n]
  BY <1>2, <1>8
<1>11. t \in [Cursors -> Cursors]
  <2>1. \A n \in Cursors : t[n] \in Cursors
    BY <1>6, <1>8, <1>9, <1>10
  <2>2. t = [n \in Cursors |-> t[n]]
    BY <1>2
  <2> QED BY <2>1, <2>2
<1>12. ASSUME NEW n \in 1 .. (Leaves - 1)
       PROVE  /\ \/ win[n] = win[2 * n] /\ t[n] = win[2 * n + 1]
                 \/ win[n] = win[2 * n + 1] /\ t[n] = win[2 * n]
              /\ ~Before(ks[t[n]], ks[win[n]])
  <2>1. ks[win[2 * n]] \in KeyType /\ ks[win[2 * n + 1]] \in KeyType
    BY <1>6, <1>8
  <2> QED BY <1>5, <1>10, <2>1, KeyOrder
<1>13. Tournament(win, t, ks)
  BY <1>4, <1>7, <1>9, <1>11, <1>12 DEF Tournament
<1> QED BY <1>13 DEF Sorted, t

-----------------------------------------------------------------------------
(***************************************************************************)
(* The records of a venue.                                                 *)
(***************************************************************************)

RecordType == [file : Nat, key : KeyType, blockOk : BOOLEAN, blobOk : BOOLEAN]

\* What MergeAssumption says of a venue's files.
WellFormed(files) ==
  /\ files \in Seq(ToSet(files))
  /\ \A f \in DOMAIN files : files[f].keys \in Seq(KeyType)
  /\ \A f \in DOMAIN files : \A i \in DOMAIN files[f].keys : Before(files[f].keys[i], SentinelKey)
  /\ \A f \in DOMAIN files : \A g \in 1 .. f :
       \A i \in DOMAIN files[f].keys : \A j \in DOMAIN files[g].keys :
         g < f \/ j < i => files[g].keys[j][1] <= files[f].keys[i][1]

\* The records of one file.
FileRecords(files, f) ==
  [i \in DOMAIN files[f].keys |->
     [file |-> f, key |-> files[f].keys[i],
      blockOk |-> ((i - 1) \div BlockRecs) \notin files[f].badBlocks,
      blobOk |-> i \notin files[f].badBlobs]]

\* Records in order: neither the file nor the time goes back.
InOrder(s) ==
  /\ s \in Seq(RecordType)
  /\ \A p, q \in 1 .. Len(s) : p < q => s[p].file <= s[q].file /\ s[p].key[1] <= s[q].key[1]

\* s has records of the first m files only.
OfFiles(s, files, m) ==
  \A p \in 1 .. Len(s) : \E f \in 1 .. m : \E i \in DOMAIN files[f].keys :
    s[p].file = f /\ s[p].key = files[f].keys[i]

LEMMA FileRecordsAre ==
  ASSUME NEW files, WellFormed(files), NEW f \in 1 .. Len(files)
  PROVE  /\ FileRecords(files, f) \in Seq(RecordType) /\ InOrder(FileRecords(files, f))
         /\ \A p \in 1 .. Len(FileRecords(files, f)) : \E i \in DOMAIN files[f].keys :
              FileRecords(files, f)[p].file = f /\ FileRecords(files, f)[p].key = files[f].keys[i]
<1> DEFINE s == FileRecords(files, f)
           ks == files[f].keys
<1>1. DOMAIN files = 1 .. Len(files) /\ f \in Nat /\ f \in 1 .. f
  BY LenProperties DEF WellFormed
<1>2. ks \in Seq(KeyType) /\ DOMAIN ks = 1 .. Len(ks) /\ Len(ks) \in Nat
  BY <1>1, LenProperties DEF WellFormed
<1>3. \A i, j \in 1 .. Len(ks) : j < i => ks[j][1] <= ks[i][1]
  BY <1>1, <1>2 DEF WellFormed
<1>4. \A i \in 1 .. Len(ks) : ks[i] \in KeyType
  BY <1>2, ElementOfSeq
<1>5. s = [i \in 1 .. Len(ks) |-> s[i]]
  BY <1>2 DEF FileRecords
<1>6. \A i \in 1 .. Len(ks) : /\ s[i].file = f /\ s[i].key = ks[i] /\ s[i] \in RecordType
  BY <1>1, <1>2, <1>4 DEF FileRecords, RecordType
<1> HIDE DEF s, ks
<1>7. s \in Seq(RecordType) /\ Len(s) = Len(ks)
  <2>1. s \in Seq(RecordType)
    BY <1>2, <1>5, <1>6, IsASeq
  <2>2. DOMAIN s = 1 .. Len(ks)
    BY <1>5
  <2> QED BY <1>2, <2>1, <2>2, LenProperties
<1>8. InOrder(s)
  BY <1>1, <1>3, <1>6, <1>7 DEF InOrder
<1> QED BY <1>2, <1>6, <1>7, <1>8 DEF s, ks

LEMMA JoinInOrder ==
  ASSUME NEW files, WellFormed(files), NEW s, NEW m \in 1 .. Len(files) - 1,
         InOrder(s), OfFiles(s, files, m)
  PROVE  /\ InOrder(s \o FileRecords(files, m + 1))
         /\ OfFiles(s \o FileRecords(files, m + 1), files, m + 1)
<1> DEFINE t == FileRecords(files, m + 1)
           u == s \o t
<1>0. files \in Seq(ToSet(files)) /\ Len(files) \in Nat /\ DOMAIN files = 1 .. Len(files)
  BY LenProperties DEF WellFormed
<1>1. m + 1 \in 1 .. Len(files) /\ m \in Nat
  BY <1>0
<1>2. /\ t \in Seq(RecordType) /\ InOrder(t)
      /\ \A p \in 1 .. Len(t) : \E i \in DOMAIN files[m + 1].keys :
           t[p].file = m + 1 /\ t[p].key = files[m + 1].keys[i]
  BY <1>1, FileRecordsAre
<1>3. s \in Seq(RecordType)
  BY DEF InOrder
<1>4. /\ u \in Seq(RecordType) /\ Len(u) = Len(s) + Len(t) /\ Len(s) \in Nat /\ Len(t) \in Nat
      /\ \A i \in 1 .. Len(u) : u[i] = IF i <= Len(s) THEN s[i] ELSE t[i - Len(s)]
  BY <1>2, <1>3, ConcatProperties, LenProperties
<1> HIDE DEF t, u
<1>5. \A p \in 1 .. Len(s) : s[p].file \in Nat /\ s[p].key[1] \in Int
  <2>1. \A r \in RecordType : r.file \in Nat /\ r.key[1] \in Int
    BY KeyFields DEF RecordType
  <2> QED BY <1>3, <2>1, ElementOfSeq
<1>6. ASSUME NEW p \in 1 .. Len(s), NEW q \in 1 .. Len(t)
      PROVE  s[p].file <= t[q].file /\ s[p].key[1] <= t[q].key[1]
  <2>0. PICK f \in 1 .. m : \E i \in DOMAIN files[f].keys :
          s[p].file = f /\ s[p].key = files[f].keys[i]
    BY DEF OfFiles
  <2>1. PICK i \in DOMAIN files[f].keys : s[p].file = f /\ s[p].key = files[f].keys[i]
    BY <2>0
  <2>2. PICK j \in DOMAIN files[m + 1].keys :
          t[q].file = m + 1 /\ t[q].key = files[m + 1].keys[j]
    BY <1>2
  <2>3. f \in 1 .. (m + 1) /\ f < m + 1 /\ m + 1 \in DOMAIN files /\ f <= m + 1
    BY <1>0, <1>1
  <2>4. files[f].keys[i][1] <= files[m + 1].keys[j][1]
    BY <2>3 DEF WellFormed
  <2> QED BY <2>1, <2>2, <2>3, <2>4
<1>7. ASSUME NEW p \in 1 .. Len(u), NEW q \in 1 .. Len(u), p < q
      PROVE  u[p].file <= u[q].file /\ u[p].key[1] <= u[q].key[1]
  <2>1. CASE q <= Len(s)
    <3>1. p \in 1 .. Len(s) /\ q \in 1 .. Len(s) /\ u[p] = s[p] /\ u[q] = s[q]
      BY <1>4, <1>7, <2>1
    <3> QED BY <1>7, <3>1 DEF InOrder
  <2>2. CASE q > Len(s) /\ p <= Len(s)
    <3>1. p \in 1 .. Len(s) /\ q - Len(s) \in 1 .. Len(t) /\ u[p] = s[p] /\ u[q] = t[q - Len(s)]
      BY <1>4, <1>7, <2>2
    <3> QED BY <1>6, <3>1
  <2>3. CASE q > Len(s) /\ p > Len(s)
    <3>1. /\ p - Len(s) \in 1 .. Len(t) /\ q - Len(s) \in 1 .. Len(t) /\ p - Len(s) < q - Len(s)
          /\ u[p] = t[p - Len(s)] /\ u[q] = t[q - Len(s)]
      BY <1>4, <1>7, <2>3
    <3> QED BY <1>2, <3>1 DEF InOrder
  <2> QED BY <1>4, <2>1, <2>2, <2>3
<1>8. ASSUME NEW p \in 1 .. Len(u)
      PROVE  \E f \in 1 .. (m + 1) : \E i \in DOMAIN files[f].keys :
               u[p].file = f /\ u[p].key = files[f].keys[i]
  <2>1. CASE p <= Len(s)
    <3>1. p \in 1 .. Len(s) /\ u[p] = s[p]
      BY <1>4, <2>1
    <3>2. PICK f \in 1 .. m : \E i \in DOMAIN files[f].keys :
            s[p].file = f /\ s[p].key = files[f].keys[i]
      BY <3>1 DEF OfFiles
    <3>3. f \in 1 .. (m + 1)
      BY <1>1
    <3> QED BY <3>1, <3>2, <3>3
  <2>2. CASE p > Len(s)
    <3>1. p - Len(s) \in 1 .. Len(t) /\ u[p] = t[p - Len(s)] /\ m + 1 \in 1 .. (m + 1)
      BY <1>1, <1>4, <2>2
    <3> QED BY <1>2, <3>1
  <2> QED BY <1>4, <2>1, <2>2
<1>9. InOrder(u) /\ OfFiles(u, files, m + 1)
  BY <1>4, <1>7, <1>8 DEF InOrder, OfFiles
<1> QED BY <1>9 DEF u, t

\* All the records of a venue, in order.
LEMMA RecordsAre ==
  ASSUME NEW files, WellFormed(files)
  PROVE  InOrder(Records(files)) /\ OfFiles(Records(files), files, Len(files))
<1> DEFINE N == Len(files)
           seqs == [f \in DOMAIN files |-> FileRecords(files, f)]
           R == Records(files)
<1>0. files \in Seq(ToSet(files)) /\ N \in Nat /\ DOMAIN files = 1 .. N
  BY LenProperties DEF WellFormed
<1>1. R = FlattenSeq(seqs)
  BY Zenon DEF Records, FileRecords
<1>2. seqs \in Seq(Seq(RecordType)) /\ Len(seqs) = N /\ \A f \in 1 .. N : seqs[f] = FileRecords(files, f)
  <2>1. \A f \in 1 .. N : seqs[f] \in Seq(RecordType) /\ seqs[f] = FileRecords(files, f)
    BY <1>0, FileRecordsAre
  <2>2. seqs = [f \in 1 .. N |-> seqs[f]] /\ DOMAIN seqs = 1 .. N
    BY <1>0
  <2> HIDE DEF seqs
  <2>3. seqs \in Seq(Seq(RecordType))
    BY <1>0, <2>1, <2>2, IsASeq
  <2> QED BY <1>0, <2>1, <2>2, <2>3, LenProperties
<1> HIDE DEF seqs, R
<1>3. CASE N = 0
  <2>1. R = seqs /\ Len(R) = 0
    BY <1>1, <1>2, <1>3 DEF FlattenSeq
  <2>2. R = <<>>
    BY <1>2, <2>1, EmptySeq
  <2>3. InOrder(R) /\ OfFiles(R, files, N)
    BY <2>1, <2>2, EmptySeq DEF InOrder, OfFiles
  <2> QED BY <2>3 DEF R
<1>4. CASE N # 0
  <2> DEFINE step == [d \in 1 .. (N - 1) |-> [x \in Seq(RecordType) |-> x \o seqs[d + 1]]]
             Rhs(f) == [i \in 1 .. N |-> IF i = 1 THEN seqs[i] ELSE f[i - 1] \o seqs[i]]
             flat == CHOOSE f : f = Rhs(f)
  <2>1. StaysIn(N - 1, Seq(RecordType), step)
    <3>1. ASSUME NEW d \in 1 .. (N - 1), NEW x \in Seq(RecordType)
          PROVE  step[d][x] \in Seq(RecordType)
      <4>1. d + 1 \in 1 .. N
        BY <1>0
      <4>2. seqs[d + 1] \in Seq(RecordType)
        BY <1>2, <4>1, ElementOfSeq
      <4>3. x \o seqs[d + 1] \in Seq(RecordType)
        BY <4>2, ConcatProperties
      <4> QED BY <4>3
    <3> HIDE DEF step
    <3> QED BY <3>1 DEF StaysIn
  <2>2. PICK f : Solves(f, N - 1, Seq(RecordType), seqs[1], step)
    <3>1. N - 1 \in Nat /\ 1 \in 1 .. N
      BY <1>0, <1>4
    <3>2. seqs[1] \in Seq(RecordType)
      BY <1>2, <3>1, ElementOfSeq
    <3> HIDE DEF step
    <3> QED BY <2>1, <3>1, <3>2, Iteration, Zenon
  <2> DEFINE h == [i \in 1 .. N |-> f[i - 1]]
  <2>3. h = Rhs(h)
    <3>1. ASSUME NEW i \in 1 .. N PROVE h[i] = IF i = 1 THEN seqs[i] ELSE h[i - 1] \o seqs[i]
      <4>1. CASE i = 1
        BY <2>2, <4>1 DEF Solves
      <4>2. CASE i # 1
        <5>1. /\ i - 1 \in 1 .. (N - 1) /\ i - 1 \in 1 .. N /\ (i - 1) - 1 \in 0 .. (N - 1)
              /\ (i - 1) + 1 = i
          BY <1>0, <4>2
        <5>2. f[i - 1] = step[i - 1][f[(i - 1) - 1]] /\ f[(i - 1) - 1] \in Seq(RecordType)
          BY <2>2, <5>1 DEF Solves
        <5>3. f[i - 1] = f[(i - 1) - 1] \o seqs[i]
          BY <5>1, <5>2
        <5>4. h[i] = f[i - 1] /\ h[i - 1] = f[(i - 1) - 1]
          BY <5>1
        <5> HIDE DEF h
        <5> QED BY <4>2, <5>3, <5>4
      <4> QED BY <4>1, <4>2
    <3>2. h = [i \in 1 .. N |-> h[i]]
      OBVIOUS
    <3> HIDE DEF h
    <3> QED BY <3>1, <3>2
  <2>4. flat = Rhs(flat)
    <3> HIDE DEF Rhs, h
    <3> QED BY <2>3, Zenon
  <2>5. R = flat[N]
    <3>1. R = IF Len(seqs) = 0 THEN seqs
              ELSE (CHOOSE f1 : f1 = [i \in 1 .. Len(seqs) |->
                      IF i = 1 THEN seqs[i] ELSE f1[i - 1] \o seqs[i]])[Len(seqs)]
      BY <1>1, Zenon DEF FlattenSeq
    <3> QED BY <1>2, <1>4, <3>1, Zenon
  <2> HIDE DEF flat
  <2>6. \A i \in 1 .. N : flat[i] = IF i = 1 THEN seqs[i] ELSE flat[i - 1] \o seqs[i]
    BY <2>4, Zenon
  <2> DEFINE T == {i \in Int : InOrder(flat[i]) /\ OfFiles(flat[i], files, i)}
  <2>7. 1 \in T
    <3>1. 1 \in 1 .. N
      BY <1>0, <1>4
    <3>2. flat[1] = FileRecords(files, 1)
      BY <1>2, <2>6, <3>1
    <3>3. 1 \in 1 .. 1
      OBVIOUS
    <3>4. InOrder(flat[1]) /\ OfFiles(flat[1], files, 1)
      BY <3>1, <3>2, <3>3, FileRecordsAre DEF OfFiles
    <3> QED BY <3>4
  <2>8. ASSUME NEW i \in 1 + 1 .. N, i - 1 \in T PROVE i \in T
    <3>1. i \in 1 .. N /\ i # 1 /\ i - 1 \in 1 .. N - 1 /\ (i - 1) + 1 = i /\ i \in Int
      BY <1>0
    <3>2. flat[i] = flat[i - 1] \o FileRecords(files, i)
      BY <1>2, <2>6, <3>1
    <3>3. InOrder(flat[i - 1]) /\ OfFiles(flat[i - 1], files, i - 1)
      BY <2>8
    <3>4. /\ InOrder(flat[i - 1] \o FileRecords(files, (i - 1) + 1))
          /\ OfFiles(flat[i - 1] \o FileRecords(files, (i - 1) + 1), files, (i - 1) + 1)
      BY <3>1, <3>3, JoinInOrder, Zenon
    <3>5. InOrder(flat[i]) /\ OfFiles(flat[i], files, i)
      BY <3>1, <3>2, <3>4, Zenon
    <3> QED BY <3>1, <3>5
  <2>9. \A i \in 1 .. N : i \in T
    <3>1. 1 \in Int /\ N \in Int
      BY <1>0
    <3> HIDE DEF T
    <3> QED BY <2>7, <2>8, <3>1, UpFrom, Zenon
  <2>10. N \in 1 .. N
    BY <1>0, <1>4
  <2>11. InOrder(R) /\ OfFiles(R, files, N)
    BY <2>5, <2>9, <2>10
  <2> QED BY <2>11 DEF R
<1> QED BY <1>3, <1>4

\* What every input of a run satisfies.
Input ==
  /\ data.ids \in Seq(Nat) /\ seek \in Int /\ workers \in Nat
  /\ shape.records \in Nat \ {0} /\ shape.batches \in Nat \ {0, 1}
  /\ \A v \in Venues : /\ InOrder(data.recs[v])
                       /\ \A p \in 1 .. Len(data.recs[v]) : Before(keyOf(v, p), SentinelKey)

LEMMA InputInitial == Init => Input
<1> SUFFICES ASSUME Init PROVE Input
  OBVIOUS
<1>1. PICK d \in Datasets : data = Load(d)
  BY DEF Init
<1>2. /\ data.ids = d.ids /\ d.ids \in Seq(Nat) /\ DOMAIN d.files = DOMAIN d.ids
      /\ \A v \in DOMAIN d.files : data.recs[v] = Records(d.files[v])
  BY <1>1, MergeAssumption DEF Load
<1>3. Venues = DOMAIN d.files
  BY <1>2, LenProperties DEF Venues, K
<1>4. ASSUME NEW v \in Venues
      PROVE  /\ InOrder(data.recs[v])
             /\ \A p \in 1 .. Len(data.recs[v]) : Before(keyOf(v, p), SentinelKey)
  <2> DEFINE files == d.files[v]
  <2>0. v \in DOMAIN d.files
    BY <1>3
  <2>1. WellFormed(files)
    <3>1. /\ files \in Seq(ToSet(files))
          /\ \A f \in DOMAIN files :
               /\ files[f].keys \in Seq(KeyType)
               /\ \A i \in DOMAIN files[f].keys : Before(files[f].keys[i], SentinelKey)
               /\ \A g \in 1 .. f : \A i \in DOMAIN files[f].keys : \A j \in DOMAIN files[g].keys :
                    g < f \/ j < i => files[g].keys[j][1] <= files[f].keys[i][1]
      BY <2>0, MergeAssumption, Zenon
    <3> HIDE DEF files
    <3> QED BY <3>1, Zenon DEF WellFormed
  <2>2. data.recs[v] = Records(files)
    BY <1>2, <2>0
  <2> HIDE DEF files
  <2>3. InOrder(data.recs[v]) /\ OfFiles(data.recs[v], files, Len(files))
    BY <2>1, <2>2, RecordsAre
  <2>4. ASSUME NEW p \in 1 .. Len(data.recs[v]) PROVE Before(keyOf(v, p), SentinelKey)
    <3>1. PICK f \in 1 .. Len(files) : \E i \in DOMAIN files[f].keys :
            data.recs[v][p].file = f /\ data.recs[v][p].key = files[f].keys[i]
      BY <2>3 DEF OfFiles
    <3>2. f \in DOMAIN files
      BY <2>1, LenProperties DEF WellFormed
    <3> QED BY <2>1, <3>1, <3>2 DEF WellFormed, keyOf
  <2> QED BY <2>3, <2>4
<1>5. /\ seek \in Int /\ workers \in Nat
      /\ shape.records \in Nat \ {0} /\ shape.batches \in Nat \ {0, 1}
  BY MergeAssumption DEF Init
<1> QED BY <1>2, <1>4, <1>5 DEF Input

LEMMA InputStep == Input /\ [Next]_vars => Input'
<1> SUFFICES ASSUME Input, [Next]_vars PROVE Input'
  OBVIOUS
<1>1. UNCHANGED input
  BY Zenon DEF Next, vars, Owner, Worker, Merging, Closing, Issue, TakeFree, PutWork, AwaitDone,
     TakeWork, FinishWork, New, Seed, Seeded, NextInBatch, NextRefill, NextEnd, Receive,
     ReceiveClosed, Close, Drain, StopPool
<1> QED BY <1>1 DEF input, Input, Venues, K, keyOf, InOrder

LEMMA GreatestNumber ==
  ASSUME NEW T \in SUBSET Nat, T # {}, NEW b \in Nat, \A x \in T : x <= b
  PROVE  \E x \in T : \A y \in T : x >= y
<1> DEFINE S == {b - x : x \in T}
<1>1. S \in SUBSET Nat /\ S # {}
  <2>1. \A x \in T : b - x \in Nat
    OBVIOUS
  <2>2. PICK x \in T : TRUE
    OBVIOUS
  <2>3. b - x \in S
    OBVIOUS
  <2> QED BY <2>1, <2>3
<1>2. PICK m \in S : \A y \in S : m <= y
  <2> HIDE DEF S
  <2> QED BY <1>1, LeastNumber
<1>3. PICK x \in T : m = b - x
  BY <1>2
<1>4. ASSUME NEW y \in T PROVE x >= y
  <2>1. b - y \in S
    OBVIOUS
  <2>2. b - x <= b - y
    BY <1>2, <1>3, <2>1
  <2> QED BY <2>2
<1> QED BY <1>4

LEMMA MinIs ==
  ASSUME NEW T \in SUBSET Nat, T # {}
  PROVE  Min(T) \in T /\ \A y \in T : Min(T) <= y
<1>1. \E x \in T : \A y \in T : x <= y
  BY LeastNumber
<1> QED BY <1>1 DEF Min

LEMMA MaxIs ==
  ASSUME NEW T \in SUBSET Nat, T # {}, NEW b \in Nat, \A x \in T : x <= b
  PROVE  Max(T) \in T /\ \A y \in T : Max(T) >= y
<1>1. \E x \in T : \A y \in T : x >= y
  BY GreatestNumber
<1> QED BY <1>1 DEF Max

\* The number of records of v.
Size(v) == Len(data.recs[v])

LEMMA RecordsOf ==
  ASSUME Input, NEW v \in Venues
  PROVE  /\ Size(v) \in Nat /\ Positions(v) = 1 .. Size(v)
         /\ \A p \in 1 .. Size(v) : /\ data.recs[v][p] \in RecordType /\ keyOf(v, p) \in KeyType
                                    /\ data.recs[v][p].file \in Nat
                                    /\ keyOf(v, p)[1] \in Int /\ Before(keyOf(v, p), SentinelKey)
         /\ \A p, q \in 1 .. Size(v) : p < q => /\ data.recs[v][p].file <= data.recs[v][q].file
                                               /\ keyOf(v, p)[1] <= keyOf(v, q)[1]
<1>1. data.recs[v] \in Seq(RecordType)
  BY DEF Input, InOrder
<1>2. \A r \in RecordType : r.key \in KeyType /\ r.file \in Nat
  BY DEF RecordType
<1>3. Size(v) \in Nat /\ Positions(v) = 1 .. Size(v)
  BY <1>1, LenProperties DEF Size, Positions
<1>4. \A p \in 1 .. Size(v) : data.recs[v][p] \in RecordType
  BY <1>1, ElementOfSeq DEF Size
<1>5. \A p \in 1 .. Size(v) : keyOf(v, p) \in KeyType /\ data.recs[v][p].file \in Nat
  BY <1>2, <1>4 DEF keyOf
<1>6. \A p \in 1 .. Size(v) : keyOf(v, p)[1] \in Int
  BY <1>5, KeyFields
<1>7. /\ \A p \in 1 .. Size(v) : Before(keyOf(v, p), SentinelKey)
      /\ \A p, q \in 1 .. Size(v) : p < q => /\ data.recs[v][p].file <= data.recs[v][q].file
                                            /\ keyOf(v, p)[1] <= keyOf(v, q)[1]
  BY DEF Input, InOrder, Size, keyOf
<1> QED BY <1>3, <1>4, <1>5, <1>6, <1>7

\* Where the seek starts; the records the run is about are the ones from there on.
LEMMA StartIs ==
  ASSUME Input, NEW v \in Venues
  PROVE  Start(v) \in 1 .. Size(v) + 1 /\ Wanted(v) = Start(v) .. Size(v)
<1> DEFINE reach == {p \in Positions(v) : keyOf(v, p)[1] >= seek}
<1>0. Size(v) \in Nat /\ Positions(v) = 1 .. Size(v) /\ seek \in Int
  BY RecordsOf DEF Input
<1>1. Wanted(v) = reach
  BY DEF Wanted
<1>2. CASE reach = {}
  <2>1. Start(v) = Size(v) + 1
    BY <1>2 DEF Start, SeekTime, Size
  <2> QED BY <1>0, <1>1, <1>2, <2>1
<1>3. CASE reach # {}
  <2>1. Start(v) = Min(reach)
    BY <1>3 DEF Start, SeekTime
  <2>2. reach \in SUBSET Nat
    BY <1>0
  <2> HIDE DEF reach
  <2>3. Start(v) \in reach /\ \A y \in reach : Start(v) <= y
    BY <1>3, <2>1, <2>2, MinIs
  <2> USE DEF reach
  <2>4. Start(v) \in 1 .. Size(v) /\ keyOf(v, Start(v))[1] >= seek
    BY <1>0, <2>3
  <2>5. ASSUME NEW p \in Start(v) .. Size(v) PROVE p \in reach
    <3>1. p \in 1 .. Size(v) /\ (p = Start(v) \/ Start(v) < p)
      BY <1>0, <2>4
    <3>2. keyOf(v, Start(v))[1] <= keyOf(v, p)[1]
      BY <2>4, <3>1, RecordsOf
    <3>3. keyOf(v, Start(v))[1] \in Int /\ keyOf(v, p)[1] \in Int
      BY <2>4, <3>1, RecordsOf
    <3> QED BY <1>0, <2>4, <3>1, <3>2, <3>3
  <2>6. \A p \in reach : p \in Start(v) .. Size(v)
    BY <1>0, <2>3, <2>4
  <2> HIDE DEF reach
  <2>7. reach = Start(v) .. Size(v)
    BY <2>5, <2>6
  <2> QED BY <1>0, <1>1, <2>4, <2>7
<1> QED BY <1>2, <1>3

\* The file of a position is an interval.
LEMMA FileIs ==
  ASSUME Input, NEW v \in Venues, NEW p \in 1 .. Size(v)
  PROVE  /\ FileStart(v, p) \in 1 .. p /\ FileEnd(v, p) \in p .. Size(v)
         /\ \A q \in 1 .. Size(v) : data.recs[v][q].file = data.recs[v][p].file <=>
                                    q \in FileStart(v, p) .. FileEnd(v, p)
<1> DEFINE same == {q \in Positions(v) : data.recs[v][q].file = data.recs[v][p].file}
           a == FileStart(v, p)
           b == FileEnd(v, p)
<1>0. Size(v) \in Nat /\ Positions(v) = 1 .. Size(v)
  BY RecordsOf
<1>1. same \in SUBSET Nat /\ p \in same /\ \A q \in same : q <= Size(v)
  BY <1>0
<1>2. a = Min(same) /\ b = Max(same)
  BY DEF FileStart, FileEnd
<1> HIDE DEF a, b
<1>3. a \in same /\ b \in same /\ \A q \in same : a <= q /\ q <= b
  <2> HIDE DEF same
  <2>1. same # {} /\ \A q \in same : q \in Nat
    BY <1>1
  <2>2. Max(same) \in same /\ \A y \in same : Max(same) >= y
    BY <1>0, <1>1, <2>1, MaxIs
  <2>3. Min(same) \in same /\ \A y \in same : Min(same) <= y
    BY <1>1, <2>1, MinIs
  <2> QED BY <1>2, <2>1, <2>2, <2>3
<1>4. a \in 1 .. p /\ b \in p .. Size(v)
  <2>1. a \in 1 .. Size(v) /\ b \in 1 .. Size(v) /\ a <= p /\ p <= b
    BY <1>0, <1>1, <1>3
  <2> QED BY <2>1
<1>5. ASSUME NEW q \in 1 .. Size(v), q \in a .. b
      PROVE  data.recs[v][q].file = data.recs[v][p].file
  <2>1. /\ data.recs[v][a].file = data.recs[v][p].file /\ data.recs[v][b].file = data.recs[v][p].file
        /\ a \in 1 .. Size(v) /\ b \in 1 .. Size(v)
    BY <1>0, <1>3
  <2>2. (a < q => data.recs[v][a].file <= data.recs[v][q].file)
        /\ (q < b => data.recs[v][q].file <= data.recs[v][b].file)
    BY <2>1, RecordsOf
  <2>3. data.recs[v][q].file \in Nat /\ data.recs[v][p].file \in Nat
    BY RecordsOf
  <2>4. q = a \/ q = b \/ (a < q /\ q < b)
    BY <1>5, <2>1
  <2> QED BY <2>1, <2>2, <2>3, <2>4
<1>6. ASSUME NEW q \in 1 .. Size(v), data.recs[v][q].file = data.recs[v][p].file
      PROVE  q \in a .. b
  <2>1. q \in same
    BY <1>0, <1>6
  <2>2. a <= q /\ q <= b
    BY <1>3, <2>1
  <2> QED BY <1>4, <2>2
<1> QED BY <1>4, <1>5, <1>6 DEF a, b

LEMMA RangeIs ==
  ASSUME Input, NEW v \in Venues, NEW p \in 1 .. Size(v)
  PROVE  /\ nextRange(v, p) \in p .. Size(v)
         /\ nextRange(v, p) = p + shape.records - 1 \/ nextRange(v, p) = FileEnd(v, p)
         /\ nextRange(v, p) <= p + shape.records - 1 /\ nextRange(v, p) <= FileEnd(v, p)
<1> DEFINE T == {p + shape.records - 1, FileEnd(v, p)}
<1>1. shape.records \in Nat \ {0} /\ Size(v) \in Nat /\ FileEnd(v, p) \in p .. Size(v)
  BY RecordsOf, FileIs DEF Input
<1>2. T \in SUBSET Nat /\ T # {}
  BY <1>1
<1>3. nextRange(v, p) \in T /\ \A y \in T : nextRange(v, p) <= y
  <2>1. nextRange(v, p) = Min(T)
    BY DEF nextRange
  <2> HIDE DEF T
  <2> QED BY <1>2, <2>1, MinIs
<1> QED BY <1>1, <1>3

-----------------------------------------------------------------------------
(***************************************************************************)
(* Decoding.                                                               *)
(***************************************************************************)

\* Position p decodes, in its place after p - 1 unless the merge starts at it.
Good(v, p) == Fault(v, p, p > Start(v)) = "ok"
GoodTo(v, n) == \A p \in Start(v) .. n : Good(v, p)

LEMMA FaultIs ==
  ASSUME NEW v, NEW p
  PROVE  /\ Fault(v, p, TRUE) = "ok" <=> /\ Fault(v, p, FALSE) = "ok"
                                         /\ checkOrder(keyOf(v, p - 1), keyOf(v, p)) = "ok"
         /\ Fault(v, p, FALSE) = "ok" => keyOf(v, p)[2] = data.ids[v]
BY DEF Fault

LEMMA OrderIs ==
  ASSUME NEW a \in KeyType, NEW b \in KeyType
  PROVE  checkOrder(a, b) = "ok" <=> Before(a, b)
<1>1. ~Before(a, a) /\ (Before(a, b) \/ Before(b, a) \/ a = b) /\ ~(Before(a, b) /\ Before(b, a))
  BY KeyOrder
<1> QED BY <1>1 DEF checkOrder

\* A good position is the venue's own, and its key is past the one before it.
LEMMA GoodIs ==
  ASSUME Input, NEW v \in Venues, NEW p \in Start(v) .. Size(v), Good(v, p)
  PROVE  /\ keyOf(v, p)[2] = data.ids[v]
         /\ p > Start(v) => Before(keyOf(v, p - 1), keyOf(v, p))
<1>1. Size(v) \in Nat /\ Start(v) \in 1 .. Size(v) + 1
  BY RecordsOf, StartIs
<1>2. CASE p > Start(v)
  <2>1. Fault(v, p, TRUE) = "ok"
    BY <1>2 DEF Good
  <2>2. checkOrder(keyOf(v, p - 1), keyOf(v, p)) = "ok" /\ keyOf(v, p)[2] = data.ids[v]
    BY <2>1, FaultIs
  <2>3. p \in 1 .. Size(v) /\ p - 1 \in 1 .. Size(v)
    BY <1>1, <1>2
  <2>4. keyOf(v, p - 1) \in KeyType /\ keyOf(v, p) \in KeyType
    BY <2>3, RecordsOf
  <2> QED BY <2>2, <2>4, OrderIs
<1>3. CASE ~(p > Start(v))
  <2>0. (p > Start(v)) = FALSE
    BY <1>1, <1>3
  <2>1. Fault(v, p, FALSE) = "ok"
    BY <2>0, Zenon DEF Good
  <2> QED BY <1>3, <2>1, FaultIs
<1> QED BY <1>2, <1>3

\* The keys of the positions up to the first fault ascend.
LEMMA GoodKeysAscend ==
  ASSUME Input, NEW v \in Venues, NEW n \in 0 .. Size(v), GoodTo(v, n),
         NEW p \in Start(v) .. n, NEW q \in Start(v) .. n, p < q
  PROVE  Before(keyOf(v, p), keyOf(v, q))
<1> DEFINE T == {d \in Int : d > p => Before(keyOf(v, p), keyOf(v, d))}
<1>1. Size(v) \in Nat /\ Start(v) \in 1 .. Size(v) + 1
  BY RecordsOf, StartIs
<1>2. p \in Int /\ n \in Int /\ p \in T
  BY <1>1
<1>3. ASSUME NEW d \in p + 1 .. n, d - 1 \in T PROVE d \in T
  <2>1. d \in Start(v) .. Size(v) /\ d > Start(v) /\ d \in Start(v) .. n
    BY <1>1
  <2>2. Good(v, d)
    BY <2>1 DEF GoodTo
  <2>3. Before(keyOf(v, d - 1), keyOf(v, d))
    BY <2>1, <2>2, GoodIs
  <2>4. p \in 1 .. Size(v) /\ d - 1 \in 1 .. Size(v) /\ d \in 1 .. Size(v)
    BY <1>1
  <2>5. keyOf(v, p) \in KeyType /\ keyOf(v, d - 1) \in KeyType /\ keyOf(v, d) \in KeyType
    BY <2>4, RecordsOf
  <2>6. Before(keyOf(v, p), keyOf(v, d))
    <3>1. CASE d - 1 = p
      BY <2>3, <3>1
    <3>2. CASE d - 1 # p
      <4>1. Before(keyOf(v, p), keyOf(v, d - 1))
        BY <1>1, <1>3, <3>2
      <4> QED BY <2>3, <2>5, <4>1, KeyOrder
    <3> QED BY <3>1, <3>2
  <2> QED BY <1>1, <2>6
<1>4. \A d \in p .. n : d \in T
  <2> HIDE DEF T
  <2> QED BY <1>2, <1>3, UpFrom
<1>5. q \in p .. n
  BY <1>1
<1> QED BY <1>4, <1>5

\* The decoded part of a range ends before its first fault.
LEMMA FillIs ==
  ASSUME NEW v, NEW from \in Nat, NEW to \in Nat, NEW carried \in BOOLEAN
  PROVE  LET b == fill(v, from, to, carried)
             bad(p) == Fault(v, p, p > from \/ carried) # "ok"
         IN  /\ b = [first |-> from, last |-> b.last, err |-> b.err, done |-> FALSE]
             /\ (\A p \in from .. to : ~bad(p)) => b.last = to /\ b.err = "ok"
             /\ (\E p \in from .. to : bad(p)) => b.err # "ok"
<1> DEFINE b == fill(v, from, to, carried)
           bad(p) == Fault(v, p, p > from \/ carried) # "ok"
           faulty == {p \in from .. to : bad(p)}
<1>1. CASE faulty = {}
  <2>1. b = [first |-> from, last |-> to, err |-> "ok", done |-> FALSE]
    BY <1>1 DEF fill
  <2> QED BY <1>1, <2>1
<1>2. CASE faulty # {}
  <2>1. Min(faulty) \in faulty
    <3>1. faulty \in SUBSET Nat
      OBVIOUS
    <3> HIDE DEF faulty
    <3> QED BY <1>2, <3>1, MinIs
  <2>2. b = [first |-> from, last |-> Min(faulty) - 1,
             err |-> Fault(v, Min(faulty), Min(faulty) > from \/ carried), done |-> FALSE]
    BY <1>2, Zenon DEF fill
  <2>3. bad(Min(faulty))
    BY <2>1
  <2> QED BY <1>2, <2>2, <2>3
<1> QED BY <1>1, <1>2

LEMMA FaultsAre ==
  ASSUME Input, NEW v \in Venues
  PROVE  Faults(v) = {p \in Start(v) .. Size(v) : ~Good(v, p)}
<1>1. Size(v) \in Nat /\ Start(v) \in 1 .. Size(v) + 1 /\ Wanted(v) = Start(v) .. Size(v)
  BY RecordsOf, StartIs
<1>2. \A p \in Start(v) .. Size(v) : (p - 1 \in Wanted(v)) = (p > Start(v))
  BY <1>1
<1> QED BY <1>1, <1>2 DEF Faults, Good

\* The valid records of a venue are the ones up to its first fault.
LEMMA ValidIs ==
  ASSUME Input, NEW e
  PROVE  e \in Valid <=> \E v \in Venues : \E p \in Start(v) .. Size(v) : e = <<v, p>> /\ GoodTo(v, p)
<1>1. ASSUME NEW v \in Venues, NEW p \in Start(v) .. Size(v)
      PROVE  (\A f \in Faults(v) : p < f) <=> GoodTo(v, p)
  <2>1. Size(v) \in Nat /\ Start(v) \in 1 .. Size(v) + 1
    BY RecordsOf, StartIs
  <2> QED BY <2>1, FaultsAre DEF GoodTo
<1>2. \A v \in Venues : Wanted(v) = Start(v) .. Size(v)
  BY StartIs
<1>3. e \in Valid <=> \E v \in Venues : \E p \in Wanted(v) : e = <<v, p>> /\ \A f \in Faults(v) : p < f
  BY DEF Valid
<1> QED BY <1>1, <1>2, <1>3

-----------------------------------------------------------------------------
(***************************************************************************)
(* Where the batches are cut.                                              *)
(***************************************************************************)

LEMMA TimesIs ==
  ASSUME NEW r \in Nat \ {0}, NEW k \in Nat
  PROVE  k * r \in Nat /\ (k + 1) * r = k * r + r /\ (k > 0 => k * r >= r)
OBVIOUS

LEMMA QuotientIs ==
  ASSUME NEW r \in Nat \ {0}, NEW a \in Nat
  PROVE  a % r \in 0 .. r - 1 /\ \E n \in Nat : a = n * r + (a % r)
<1> DEFINE q == a \div r
           m == a % r
<1>1. m \in 0 .. r - 1 /\ q \in Nat
  OBVIOUS
<1>2. m = a - r * q
  <2>1. \A x, y \in Int : y > 0 => x % y = x - y * (x \div y)
    OBVIOUS
  <2> QED BY <2>1
<1> HIDE DEF q, m
<1>3. r * q = q * r /\ q * r \in Nat
  BY <1>1
<1>4. a = q * r + m
  BY <1>1, <1>2, <1>3
<1>5. \E n \in Nat : a = n * r + m
  BY <1>1, <1>4
<1> QED BY <1>1, <1>5 DEF m

LEMMA RemainderOf ==
  ASSUME NEW r \in Nat \ {0}, NEW k \in Nat, NEW j \in Nat
  PROVE  (k * r + j) % r <= j /\ (j < r => (k * r + j) % r = j)
<1>1. k * r \in Nat
  BY TimesIs
<1> DEFINE a == k * r + j
           m == a % r
<1>2. a \in Nat
  BY <1>1
<1>3. m \in 0 .. r - 1
  <2> HIDE DEF a
  <2> QED BY <1>2, QuotientIs
<1>4. PICK q \in Nat : a = q * r + m
  <2> HIDE DEF a
  <2> QED BY <1>2, QuotientIs
<1>5. q * r \in Nat
  BY TimesIs
<1> HIDE DEF m
<1>6. ASSUME q < k PROVE FALSE
  <2> DEFINE e == k - q - 1
  <2>1. e \in Nat /\ k = q + (e + 1)
    BY <1>6
  <2> HIDE DEF e
  <2>2. e * r \in Nat /\ (e + 1) * r = e * r + r
    BY <2>1, TimesIs
  <2>3. k * r = q * r + (e + 1) * r
    BY <2>1
  <2> QED BY <1>3, <1>4, <1>5, <2>2, <2>3
<1>7. CASE q = k
  BY <1>1, <1>3, <1>4, <1>7 DEF m
<1>8. CASE q > k
  <2> DEFINE e == q - k - 1
  <2>1. e \in Nat /\ q = k + (e + 1)
    BY <1>8
  <2> HIDE DEF e
  <2>2. e * r \in Nat /\ (e + 1) * r = e * r + r
    BY <2>1, TimesIs
  <2>3. q * r = k * r + (e + 1) * r
    BY <2>1
  <2>4. j = e * r + r + m
    BY <1>1, <1>3, <1>4, <1>5, <2>2, <2>3
  <2> QED BY <1>3, <2>2, <2>4 DEF m
<1> QED BY <1>6, <1>7, <1>8

\* Where the batches of the file of p are cut from: the seek target, or the start
\* of the file when that is further on.
Base(v, p) == IF inline THEN Start(v) ELSE Max({Start(v), FileStart(v, p)})

\* A batch may begin at p.
CutAt(v, p) == p \in 1 .. Size(v) => \E k \in Nat : p - Base(v, p) = k * shape.records

LEMMA SameFile ==
  ASSUME NEW v, NEW p, NEW q, data.recs[v][p].file = data.recs[v][q].file
  PROVE  FileStart(v, p) = FileStart(v, q) /\ FileEnd(v, p) = FileEnd(v, q)
BY DEF FileStart, FileEnd

LEMMA BaseIs ==
  ASSUME Input, NEW v \in Venues, NEW p \in Start(v) .. Size(v)
  PROVE  /\ Base(v, p) \in Start(v) .. p
         /\ inline => Base(v, p) = Start(v)
         /\ ~inline => /\ Start(v) <= FileStart(v, p) => Base(v, p) = FileStart(v, p)
                       /\ FileStart(v, p) <= Start(v) => Base(v, p) = Start(v)
<1> DEFINE T == {Start(v), FileStart(v, p)}
<1>0. Size(v) \in Nat /\ Start(v) \in 1 .. Size(v) + 1 /\ p \in 1 .. Size(v)
  BY RecordsOf, StartIs
<1>1. FileStart(v, p) \in 1 .. p
  BY <1>0, FileIs
<1>2. CASE inline
  BY <1>0, <1>2 DEF Base
<1>3. CASE ~inline
  <2>1. T \in SUBSET Nat /\ T # {} /\ p \in Nat /\ \A x \in T : x <= p
    BY <1>0, <1>1
  <2>2. Base(v, p) \in T /\ \A x \in T : Base(v, p) >= x
    <3>1. Base(v, p) = Max(T)
      BY <1>3 DEF Base
    <3> HIDE DEF T
    <3> QED BY <2>1, <3>1, MaxIs
  <2> QED BY <1>0, <1>1, <1>3, <2>2
<1> QED BY <1>2, <1>3

LEMMA ZeroTimes == \A r \in Nat : 0 * r = 0
OBVIOUS

LEMMA CutsAtStart ==
  ASSUME Input, NEW v \in Venues
  PROVE  CutAt(v, Start(v))
<1> SUFFICES ASSUME Start(v) \in 1 .. Size(v)
             PROVE  \E k \in Nat : Start(v) - Base(v, Start(v)) = k * shape.records
  BY DEF CutAt
<1>1. Size(v) \in Nat /\ Start(v) \in Start(v) .. Size(v) /\ shape.records \in Nat
  BY RecordsOf DEF Input
<1>2. Base(v, Start(v)) = Start(v)
  BY <1>1, BaseIs
<1> QED BY <1>1, <1>2, ZeroTimes

\* Positions of one file have one base.
LEMMA BaseKept ==
  ASSUME Input, NEW v \in Venues, NEW p \in Start(v) .. Size(v), NEW q \in p .. Size(v),
         inline \/ FileStart(v, q) <= p
  PROVE  Base(v, q) = Base(v, p)
<1>0. Size(v) \in Nat /\ Start(v) \in 1 .. Size(v) + 1
  BY RecordsOf, StartIs
<1>1. p \in 1 .. Size(v) /\ q \in 1 .. Size(v)
  BY <1>0
<1>2. CASE inline
  BY <1>2 DEF Base
<1>3. CASE FileStart(v, q) <= p
  <2>1. p \in FileStart(v, q) .. FileEnd(v, q)
    BY <1>0, <1>1, <1>3, FileIs
  <2>2. data.recs[v][p].file = data.recs[v][q].file
    BY <1>1, <2>1, FileIs
  <2>3. FileStart(v, p) = FileStart(v, q)
    BY <2>2, SameFile
  <2> QED BY <2>3 DEF Base
<1> QED BY <1>2, <1>3

\* The batch after one that is full begins at a cut.
LEMMA CutsAfterFull ==
  ASSUME Input, NEW v \in Venues, NEW p \in Start(v) .. Size(v), CutAt(v, p),
         NEW q \in p .. Size(v), q = p + shape.records, inline \/ FileStart(v, q) <= p
  PROVE  CutAt(v, q)
<1>0. Size(v) \in Nat /\ Start(v) \in 1 .. Size(v) + 1 /\ shape.records \in Nat \ {0}
  BY RecordsOf, StartIs DEF Input
<1>1. Base(v, q) = Base(v, p) /\ Base(v, p) \in Start(v) .. p
  BY BaseKept, BaseIs
<1>2. PICK k \in Nat : p - Base(v, p) = k * shape.records
  BY <1>0 DEF CutAt
<1>3. k * shape.records \in Nat /\ (k + 1) * shape.records = k * shape.records + shape.records
  BY <1>0, TimesIs
<1>4. q - Base(v, q) = (k + 1) * shape.records
  BY <1>0, <1>1, <1>2, <1>3
<1> QED BY <1>4 DEF CutAt

LEMMA CutsAfterRange ==
  ASSUME Input, ~inline, NEW v \in Venues, NEW p \in Start(v) .. Size(v), CutAt(v, p)
  PROVE  CutAt(v, nextRange(v, p) + 1)
<1> DEFINE q == nextRange(v, p) + 1
<1> SUFFICES ASSUME q \in 1 .. Size(v) PROVE CutAt(v, q)
  BY DEF CutAt
<1>0. Size(v) \in Nat /\ Start(v) \in 1 .. Size(v) + 1 /\ shape.records \in Nat \ {0}
  BY RecordsOf, StartIs DEF Input
<1>1. p \in 1 .. Size(v)
  BY <1>0
<1>2. /\ nextRange(v, p) \in p .. Size(v) /\ nextRange(v, p) <= FileEnd(v, p)
      /\ nextRange(v, p) = p + shape.records - 1 \/ nextRange(v, p) = FileEnd(v, p)
  BY <1>1, RangeIs
<1>3. FileEnd(v, p) \in p .. Size(v) /\ FileStart(v, p) \in 1 .. p
  BY <1>1, FileIs
<1>4. q \in p .. Size(v) /\ q \in Start(v) .. Size(v)
  BY <1>0, <1>2
<1>5. CASE q <= FileEnd(v, p)
  <2>1. q \in FileStart(v, p) .. FileEnd(v, p)
    BY <1>0, <1>1, <1>3, <1>4, <1>5
  <2>2. FileStart(v, q) <= p
    <3>1. data.recs[v][q].file = data.recs[v][p].file
      BY <1>1, <2>1, FileIs
    <3>2. FileStart(v, q) = FileStart(v, p)
      BY <3>1, SameFile
    <3> QED BY <1>1, <1>3, <3>2
  <2>3. q = p + shape.records
    BY <1>0, <1>1, <1>2, <1>3, <1>5
  <2> HIDE DEF q
  <2> QED BY <1>4, <2>2, <2>3, CutsAfterFull
<1>6. CASE q > FileEnd(v, p)
  <2>1. q = FileEnd(v, p) + 1
    BY <1>0, <1>1, <1>2, <1>3, <1>6
  <2>2. FileStart(v, q) > FileEnd(v, p)
    <3>1. FileStart(v, q) \in 1 .. q
      BY FileIs
    <3>2. ASSUME FileStart(v, q) <= FileEnd(v, p) PROVE FALSE
      <4>1. FileEnd(v, p) \in FileStart(v, q) .. FileEnd(v, q) /\ FileEnd(v, p) \in 1 .. Size(v)
            /\ FileEnd(v, p) \in FileStart(v, p) .. FileEnd(v, p)
        <5>1. FileEnd(v, q) \in q .. Size(v)
          BY FileIs
        <5> QED BY <1>0, <1>1, <1>3, <2>1, <3>1, <3>2, <5>1
      <4>2. data.recs[v][FileEnd(v, p)].file = data.recs[v][q].file
        BY <4>1, FileIs
      <4>3. data.recs[v][FileEnd(v, p)].file = data.recs[v][p].file
        BY <1>1, <4>1, FileIs
      <4>4. q \in FileStart(v, p) .. FileEnd(v, p)
        BY <1>1, <4>2, <4>3, FileIs
      <4> QED BY <1>0, <1>1, <1>3, <2>1, <4>4
    <3> QED BY <1>0, <1>1, <1>3, <3>1, <3>2
  <2>3. FileStart(v, q) = q
    <3>1. FileStart(v, q) \in 1 .. q
      BY FileIs
    <3> HIDE DEF q
    <3> QED BY <1>0, <1>1, <1>3, <2>1, <2>2, <3>1
  <2> HIDE DEF q
  <2>4. Base(v, q) = q
    <3>1. Start(v) <= q
      BY <1>0, <1>4
    <3> QED BY <1>4, <2>3, <3>1, BaseIs
  <2> QED BY <1>0, <1>4, <2>4, ZeroTimes DEF CutAt
<1>7. FileEnd(v, p) \in Int /\ q \in Int
  BY <1>0, <1>1, <1>3, <1>4
<1> QED BY <1>5, <1>6, <1>7

\* The first fault of a venue.
LEMMA FirstFault ==
  ASSUME Input, NEW v \in Venues, Faults(v) # {}
  PROVE  /\ Min(Faults(v)) \in Start(v) .. Size(v) /\ ~Good(v, Min(Faults(v)))
         /\ GoodTo(v, Min(Faults(v)) - 1)
<1> DEFINE f == Min(Faults(v))
<1>0. Size(v) \in Nat /\ Start(v) \in 1 .. Size(v) + 1
  BY RecordsOf, StartIs
<1>1. Faults(v) = {p \in Start(v) .. Size(v) : ~Good(v, p)}
  BY FaultsAre
<1>2. Faults(v) \in SUBSET Nat
  BY <1>0, <1>1
<1>3. f \in Faults(v) /\ \A p \in Faults(v) : f <= p
  BY <1>2, MinIs
<1> HIDE DEF f
<1>4. f \in Start(v) .. Size(v) /\ ~Good(v, f)
  BY <1>1, <1>3
<1>5. ASSUME NEW p \in Start(v) .. f - 1 PROVE Good(v, p)
  <2>1. p \in Start(v) .. Size(v) /\ p < f /\ p \in Int /\ f \in Int
    BY <1>0, <1>4
  <2>2. p \notin Faults(v)
    BY <1>3, <2>1
  <2> QED BY <1>1, <2>1, <2>2
<1>6. GoodTo(v, f - 1)
  BY <1>5 DEF GoodTo
<1> QED BY <1>4, <1>6 DEF f

\* A venue that is good as far as it goes.
LEMMA NoFaults ==
  ASSUME Input, NEW v \in Venues
  PROVE  GoodTo(v, Size(v)) <=> Faults(v) = {}
BY FaultsAre DEF GoodTo

\* A batch that is good before d does not begin after the first fault.
LEMMA GoodBeforeFault ==
  ASSUME Input, NEW v \in Venues, NEW d \in Start(v) .. Size(v) + 1, GoodTo(v, d - 1), Faults(v) # {}
  PROVE  d <= Min(Faults(v)) /\ Min(Faults(v)) \in Start(v) .. Size(v)
<1> DEFINE f == Min(Faults(v))
<1>0. Size(v) \in Nat /\ Start(v) \in 1 .. Size(v) + 1
  BY RecordsOf, StartIs
<1>1. f \in Start(v) .. Size(v) /\ ~Good(v, f)
  BY FirstFault
<1> HIDE DEF f
<1>2. ASSUME f < d PROVE FALSE
  <2>1. f \in Start(v) .. d - 1
    BY <1>0, <1>1, <1>2
  <2> QED BY <1>1, <2>1 DEF GoodTo
<1>3. d <= f
  BY <1>0, <1>1, <1>2
<1> QED BY <1>1, <1>3 DEF f

LEMMA LastGoodDef ==
  ASSUME NEW v
  PROVE  LastGood(v) = Min(Faults(v))
           - ((Min(Faults(v)) - Base(v, Min(Faults(v)))) % shape.records) - 1
BY Zenon DEF LastGood, Base

\* Batches that begin at a cut before the first fault do not pass the last good
\* record, and the batch that holds the fault begins right after it.
LEMMA LastGoodIs ==
  ASSUME Input, NEW v \in Venues, NEW d \in Start(v) .. Size(v) + 1, CutAt(v, d), GoodTo(v, d - 1),
         Faults(v) # {}
  PROVE  /\ LastGood(v) \in d - 1 .. Size(v) - 1 /\ GoodTo(v, LastGood(v))
         /\ \A e \in d .. d + shape.records - 1 :
              (inline \/ e <= FileEnd(v, d)) /\ (\E p \in d .. e : ~Good(v, p)) => LastGood(v) = d - 1
<1> DEFINE f == Min(Faults(v))
           r == shape.records
           g == LastGood(v)
<1>0. Size(v) \in Nat /\ Start(v) \in 1 .. Size(v) + 1 /\ r \in Nat \ {0}
  BY RecordsOf, StartIs DEF Input
<1>1. f \in Start(v) .. Size(v) /\ ~Good(v, f) /\ GoodTo(v, f - 1)
  BY FirstFault
<1>2. d <= f
  BY GoodBeforeFault
<1> HIDE DEF f
<1>3. d \in 1 .. Size(v) /\ d \in Start(v) .. Size(v) /\ f \in d .. Size(v) /\ f \in 1 .. Size(v)
  BY <1>0, <1>1, <1>2
<1>4. Base(v, f) \in Start(v) .. f /\ Base(v, d) \in Start(v) .. d
  BY <1>1, <1>3, BaseIs
<1> DEFINE m == (f - Base(v, f)) % r
<1>5. g = f - m - 1
  BY LastGoodDef DEF f
<1>6. f - Base(v, f) \in Nat
  BY <1>0, <1>3, <1>4
<1> HIDE DEF g
<1>7. m \in 0 .. r - 1 /\ m <= f - Base(v, f)
  <2> DEFINE a == f - Base(v, f)
  <2>1. a \in Nat
    BY <1>6
  <2> HIDE DEF a
  <2>2. a % r \in 0 .. r - 1
    BY <1>0, <2>1, QuotientIs
  <2>3. 0 * r + a = a
    BY <1>0, <2>1, ZeroTimes
  <2>4. (0 * r + a) % r <= a
    <3> HIDE DEF r
    <3> QED BY <1>0, <2>1, RemainderOf
  <2> QED BY <2>2, <2>3, <2>4 DEF a
<1>8. ASSUME NEW p \in Int, d <= p, ~Good(v, p) PROVE f <= p
  <2>1. ASSUME p < f PROVE FALSE
    <3>1. p \in Start(v) .. f - 1
      BY <1>0, <1>3, <1>8, <2>1
    <3> QED BY <1>1, <1>8, <3>1 DEF GoodTo
  <2> QED BY <1>0, <1>3, <2>1
<1>9. CASE inline \/ FileStart(v, f) <= d
  <2>1. Base(v, f) = Base(v, d)
    BY <1>3, <1>9, BaseKept
  <2>2. PICK k \in Nat : d - Base(v, d) = k * r
    BY <1>3 DEF CutAt
  <2> DEFINE j == f - d
  <2>3. j \in Nat
    BY <1>0, <1>3
  <2>4. k * r \in Nat
    BY <1>0, TimesIs
  <2>5. f - Base(v, f) = k * r + j
    BY <1>0, <1>3, <1>4, <2>1, <2>2, <2>4
  <2> HIDE DEF j, r
  <2>6. (k * r + j) % r <= j /\ (j < r => (k * r + j) % r = j)
    BY <1>0, <2>3, RemainderOf
  <2>7. m <= j /\ (j < r => m = j)
    BY <2>5, <2>6
  <2> HIDE DEF m
  <2>8. g \in d - 1 .. Size(v) - 1 /\ (f - d < r => g = d - 1)
    BY <1>0, <1>3, <1>5, <1>7, <2>3, <2>7 DEF j
  <2>9. GoodTo(v, g)
    <3>1. \A p \in Start(v) .. g : p \in Start(v) .. f - 1
      BY <1>0, <1>3, <1>5, <1>7
    <3> QED BY <1>1, <3>1 DEF GoodTo
  <2>10. ASSUME NEW e \in d .. d + r - 1, NEW p \in d .. e, ~Good(v, p) PROVE g = d - 1
    <3>1. f <= p
      BY <1>8, <2>10
    <3>2. f - d < r
      BY <1>0, <1>3, <3>1
    <3> QED BY <2>8, <3>2
  <2> QED BY <2>8, <2>9, <2>10 DEF g, r
<1>10. CASE ~inline /\ FileStart(v, f) > d
  <2>1. Base(v, f) = FileStart(v, f)
    <3>1. FileStart(v, f) \in 1 .. f
      BY <1>3, FileIs
    <3>2. Start(v) <= FileStart(v, f)
      BY <1>0, <1>3, <1>10, <3>1
    <3> QED BY <1>1, <1>10, <3>2, BaseIs
  <2>2. g \in d - 1 .. Size(v) - 1 /\ g <= f - 1
    <3> HIDE DEF m
    <3> QED BY <1>0, <1>3, <1>4, <1>5, <1>7, <1>10, <2>1
  <2>3. GoodTo(v, g)
    <3>1. \A p \in Start(v) .. g : p \in Start(v) .. f - 1
      BY <1>0, <1>3, <2>2
    <3> QED BY <1>1, <3>1 DEF GoodTo
  <2>4. ASSUME NEW e \in d .. d + r - 1, NEW p \in d .. e, ~Good(v, p), e <= FileEnd(v, d)
        PROVE  FALSE
    <3>1. f <= p
      BY <1>8, <2>4
    <3>2. FileEnd(v, d) \in d .. Size(v) /\ FileStart(v, d) \in 1 .. d
      BY <1>3, FileIs
    <3>3. f \in FileStart(v, d) .. FileEnd(v, d)
      BY <1>0, <1>3, <2>4, <3>1, <3>2
    <3>4. data.recs[v][f].file = data.recs[v][d].file
      BY <1>3, <3>3, FileIs
    <3>5. FileStart(v, f) = FileStart(v, d)
      BY <3>4, SameFile
    <3> QED BY <1>3, <1>10, <3>2, <3>5
  <2> QED BY <1>10, <2>2, <2>3, <2>4 DEF g, r
<1> QED
  <2>1. FileStart(v, f) \in Int /\ d \in Int
    BY <1>3, FileIs
  <2> QED BY <1>9, <1>10, <2>1

-----------------------------------------------------------------------------
(***************************************************************************)
(* While a run goes on: each venue's batches are issued, sent and walked   *)
(* in file order, and the tree chooses among their first events.           *)
(***************************************************************************)

\* The position after the last one the caller holds of v.
Due(v) ==
  IF inline THEN opos[v]
  ELSE IF held[v] # 0 THEN batch[v][held[v]].last + 1
  ELSE IF pending[v] = 0 THEN Start(v) ELSE pending[v] + 1

\* The position whose key a seam at d is checked against.
LastKey(v, d) == IF d = Start(v) THEN 0 ELSE d - 1

\* What a worker leaves in the batch of the range that begins at p.
Filled(v, b, p) == b = [fill(v, p, nextRange(v, p), FALSE) EXCEPT !.done = TRUE]

\* Batch b holds the range that begins at p, or a worker is to fill it.
Stands(v, b, p) ==
  \/ [v |-> v, b |-> b, from |-> p, to |-> nextRange(v, p)] \in Work
  \/ Filled(v, batch[v][b], p)

\* What is in flight covers the positions from a to the owner's next one.
Covers(v, cut, a) ==
  LET n == Len(inflight[v])
  IN  /\ cut[1] = a /\ cut[n + 1] = opos[v]
      /\ \A i \in 1 .. n : /\ cut[i] \in 1 .. Size(v) /\ cut[i + 1] = nextRange(v, cut[i]) + 1
                           /\ Stands(v, inflight[v][i], cut[i])

InFlight(v, a) == \E cut : Covers(v, cut, a)

\* A batch that can be sent: decoded whole from d on, or with a fault in it.
Whole(v, b, d) ==
  /\ b.err = "ok" /\ b.first = d /\ b.last = nextRange(v, d) /\ GoodTo(v, b.last)
  /\ InFlight(v, b.last + 1) /\ olast[v] = b.last
Faulty(v, b, d) == b.err # "ok" /\ \E p \in d .. nextRange(v, d) : ~Good(v, p)

OwnerOk(v) ==
  /\ opc[v] \in {"none", "issue", "take", "put"} =>
       InFlight(v, Due(v)) /\ olast[v] = LastKey(v, Due(v))
  /\ opc[v] \in {"take", "put"} => opos[v] \in 1 .. Size(v)
  /\ opc[v] = "await" =>
       /\ Due(v) \in 1 .. Size(v) /\ Stands(v, hand[v], Due(v))
       /\ InFlight(v, nextRange(v, Due(v)) + 1) /\ olast[v] = LastKey(v, Due(v))
  /\ opc[v] = "send" =>
       /\ Due(v) \in 1 .. Size(v)
       /\ Whole(v, batch[v][hand[v]], Due(v)) \/ Faulty(v, batch[v][hand[v]], Due(v))
  /\ opc[v] = "closed" => Due(v) = Size(v) + 1

\* The venues whose first event the constructor has asked for.
Primed(v) == mpc \in {"idle", "nextRecv"} \/ (mpc \in {"seed", "seedRecv"} /\ v < ask)

\* The caller has an event of v ahead.
AtEvent(v) ==
  /\ pending[v] \in Start(v) .. Size(v) /\ keys[v - 1] = keyOf(v, pending[v])
  /\ \/ /\ held[v] # 0 /\ pos[v] = pending[v] + 1 /\ pending[v] <= batch[v][held[v]].last
        /\ batch[v][held[v]].last = Due(v) - 1
     \/ held[v] = 0 /\ mpc = "nextRecv" /\ ask = v /\ ~inline

AtEnd(v) == keys[v - 1] = SentinelKey /\ Due(v) = Size(v) + 1

\* The caller has not asked for an event of v.
Untouched(v) ==
  keys[v - 1] = SentinelKey /\ pending[v] = 0 /\ Due(v) = Start(v) /\ (inline \/ held[v] = 0)

CallerOk(v) ==
  /\ Due(v) \in Start(v) .. Size(v) + 1 /\ GoodTo(v, Due(v) - 1) /\ CutAt(v, Due(v))
  /\ inline /\ mpc # "new" => held[v] # 0
  /\ ~Primed(v) => Untouched(v)
  /\ Primed(v) => AtEvent(v) \/ AtEnd(v)

TreeOk ==
  /\ keys \in [Cursors -> KeyType] /\ \A i \in Cursors : i >= K => keys[i] = SentinelKey
  /\ mpc \in {"idle", "nextRecv"} => Sorted(tree, keys)
  /\ mpc = "seed" => ask \in 1 .. K + 1
  /\ mpc \in {"seedRecv", "nextRecv"} => ~inline /\ ask \in Venues
  /\ mpc = "nextRecv" => ask = Winner /\ held[ask] = 0 /\ keys[tree[0]] # SentinelKey

\* The first position of v that was not returned.
Got(v) == IF keys[v - 1] = SentinelKey THEN Size(v) + 1 ELSE pending[v]

Returned(v) == \A p : <<v, p>> \in ToSet(emitted) <=> p \in Start(v) .. Got(v) - 1

EmittedOk ==
  /\ emitted \in Seq(ToSet(emitted)) /\ \A e \in ToSet(emitted) : e[1] \in Venues /\ e = <<e[1], e[2]>>
  /\ mpc \in {"new", "seed", "seedRecv"} => emitted = <<>>
  /\ \A v \in Venues : Primed(v) => Returned(v)
  /\ emitted # <<>> => Before(EventKey(emitted[Len(emitted)]), keys[tree[0]])

Distinct == \A u, v \in Venues : data.ids[u] = data.ids[v] => u = v

Going == mpc \in {"new", "seed", "seedRecv", "nextRecv", "idle"} /\ merr = "ok"

RunInv ==
  /\ ~abort /\ (mpc # "new" => Distinct)
  /\ \A v \in Venues : CallerOk(v) /\ (~inline => OwnerOk(v))
  /\ TreeOk /\ EmittedOk

Indexed == DOMAIN opos = Venues /\ DOMAIN olast = Venues /\ DOMAIN pos = Venues
             /\ DOMAIN pending = Venues

-----------------------------------------------------------------------------
(***************************************************************************)
(* What a step leaves alone.                                               *)
(***************************************************************************)

LEMMA SameFiles ==
  ASSUME UNCHANGED input
  PROVE  \A v : /\ Size(v)' = Size(v) /\ Start(v)' = Start(v)
                /\ \A p : keyOf(v, p)' = keyOf(v, p)
                /\ \A p, c : Fault(v, p, c)' = Fault(v, p, c)
                /\ \A p : nextRange(v, p)' = nextRange(v, p)
                /\ \A p : Base(v, p)' = Base(v, p)
<1> SUFFICES ASSUME NEW v
             PROVE  /\ Size(v)' = Size(v) /\ Start(v)' = Start(v)
                    /\ \A p : keyOf(v, p)' = keyOf(v, p)
                    /\ \A p, c : Fault(v, p, c)' = Fault(v, p, c)
                    /\ \A p : nextRange(v, p)' = nextRange(v, p)
                    /\ \A p : Base(v, p)' = Base(v, p)
  OBVIOUS
<1>0. data' = data /\ shape' = shape /\ seek' = seek /\ inline' = inline
  BY DEF input, inline
<1>1. Size(v)' = Size(v) /\ Positions(v)' = Positions(v)
  BY <1>0 DEF Size, Positions
<1>2. \A p : keyOf(v, p)' = keyOf(v, p)
  BY <1>0 DEF keyOf
<1>3. Start(v)' = Start(v)
  <2> DEFINE reach == {p \in Positions(v) : keyOf(v, p)[1] >= seek}
  <2>1. reach' = reach
    BY <1>0, <1>1, <1>2
  <2>2. Start(v) = IF reach = {} THEN Size(v) + 1 ELSE Min(reach)
    BY DEF Start, SeekTime, Size
  <2>3. Start(v)' = IF reach' = {} THEN Size(v)' + 1 ELSE Min(reach')
    BY DEF Start, SeekTime, Size
  <2> HIDE DEF reach
  <2> QED BY <1>1, <2>1, <2>2, <2>3
<1>4. \A p, c : Fault(v, p, c)' = Fault(v, p, c)
  BY <1>0, <1>2 DEF Fault
<1>5. \A p : FileEnd(v, p)' = FileEnd(v, p) /\ FileStart(v, p)' = FileStart(v, p)
  BY <1>0, <1>1 DEF FileEnd, FileStart
<1>6. \A p : nextRange(v, p)' = nextRange(v, p)
  BY <1>0, <1>5 DEF nextRange
<1>7. \A p : Base(v, p)' = Base(v, p)
  BY <1>0, <1>3, <1>5 DEF Base
<1> QED BY <1>1, <1>2, <1>3, <1>4, <1>6, <1>7

LEMMA SameFill ==
  ASSUME UNCHANGED input
  PROVE  \A v, a, b, c : fill(v, a, b, c)' = fill(v, a, b, c)
<1> SUFFICES ASSUME NEW v, NEW a, NEW b, NEW c PROVE fill(v, a, b, c)' = fill(v, a, b, c)
  OBVIOUS
<1>1. \A p, x : Fault(v, p, x)' = Fault(v, p, x)
  BY SameFiles
<1> QED BY <1>1 DEF fill

LEMMA SameGood ==
  ASSUME UNCHANGED input
  PROVE  \A v : /\ \A p : Good(v, p)' <=> Good(v, p)
                /\ \A n : GoodTo(v, n)' <=> GoodTo(v, n)
                /\ \A p : CutAt(v, p)' <=> CutAt(v, p)
<1> SUFFICES ASSUME NEW v
             PROVE  /\ \A p : Good(v, p)' <=> Good(v, p)
                    /\ \A n : GoodTo(v, n)' <=> GoodTo(v, n)
                    /\ \A p : CutAt(v, p)' <=> CutAt(v, p)
  OBVIOUS
<1>1. shape' = shape
  BY DEF input
<1>2. \A p : Good(v, p)' <=> Good(v, p)
  BY SameFiles DEF Good
<1>3. \A n : GoodTo(v, n)' <=> GoodTo(v, n)
  BY <1>2, SameFiles DEF GoodTo
<1>4. \A p : CutAt(v, p)' <=> CutAt(v, p)
  BY <1>1, SameFiles DEF CutAt
<1> QED BY <1>2, <1>3, <1>4

LEMMA SameTree ==
  ASSUME UNCHANGED input
  PROVE  Leaves' = Leaves /\ Cursors' = Cursors /\ \A t, ks : Sorted(t, ks)' <=> Sorted(t, ks)
<1>1. K' = K
  BY DEF input, K
<1>2. Doubled' = Doubled
  BY <1>1, Zenon DEF Doubled
<1>3. Depth' = Depth
  BY <1>1, <1>2 DEF Depth
<1>4. Leaves' = Leaves
  BY <1>2, <1>3 DEF Leaves
<1>5. Cursors' = Cursors
  BY <1>4 DEF Cursors
<1>6. \A w, t, ks : Tournament(w, t, ks)' <=> Tournament(w, t, ks)
  BY <1>4, <1>5, Zenon DEF Tournament
<1> QED BY <1>4, <1>5, <1>6, Zenon DEF Sorted

LEMMA SameDue ==
  ASSUME UNCHANGED input, NEW v, held'[v] = held[v], pending'[v] = pending[v],
         inline => opos'[v] = opos[v],
         ~inline /\ held[v] # 0 => batch'[v][held[v]].last = batch[v][held[v]].last
  PROVE  Due(v)' = Due(v)
<1>1. inline' = inline
  BY SameInput
<1> QED BY <1>1, SameFiles DEF Due

\* The batches of v in flight are the same, and none of them is lost.
LEMMA SameFlight ==
  ASSUME UNCHANGED input, NEW v, NEW a, opos'[v] = opos[v], inflight'[v] = inflight[v],
         \A i \in 1 .. Len(inflight[v]) : \A p : Stands(v, inflight[v][i], p) => Stands(v, inflight[v][i], p)',
         InFlight(v, a)
  PROVE  InFlight(v, a)'
<1>1. PICK cut : Covers(v, cut, a)
  BY DEF InFlight
<1>2. Covers(v, cut, a)'
  BY <1>1, SameFiles DEF Covers
<1> QED BY <1>2 DEF InFlight

\* The batches of v stand as they did.
StandKept(v) ==
  /\ \A i \in 1 .. Len(inflight[v]) : \A p : Stands(v, inflight[v][i], p) => Stands(v, inflight[v][i], p)'
  /\ opc[v] = "await" => \A p : Stands(v, hand[v], p) => Stands(v, hand[v], p)'

LEMMA SameOwner ==
  ASSUME UNCHANGED input, NEW v, Due(v)' = Due(v),
         opc'[v] = opc[v], opos'[v] = opos[v], hand'[v] = hand[v], inflight'[v] = inflight[v],
         olast'[v] = olast[v], opc[v] = "send" => batch'[v][hand[v]] = batch[v][hand[v]],
         StandKept(v), OwnerOk(v)
  PROVE  OwnerOk(v)'
<1>1. \A a : InFlight(v, a) => InFlight(v, a)'
  BY SameFlight DEF StandKept
<1>2. Size(v)' = Size(v) /\ \A d : LastKey(v, d)' = LastKey(v, d)
  BY SameFiles DEF LastKey
<1>3. opc[v] \in {"none", "issue", "take", "put"} =>
        InFlight(v, Due(v))' /\ olast'[v] = LastKey(v, Due(v))'
  BY <1>1, <1>2 DEF OwnerOk
<1>4. opc[v] = "await" =>
        /\ Due(v)' \in 1 .. Size(v)' /\ Stands(v, hand[v], Due(v))'
        /\ InFlight(v, nextRange(v, Due(v)) + 1)' /\ olast'[v] = LastKey(v, Due(v))'
  <2> SUFFICES ASSUME opc[v] = "await"
               PROVE  /\ Due(v)' \in 1 .. Size(v)' /\ Stands(v, hand[v], Due(v))'
                      /\ InFlight(v, nextRange(v, Due(v)) + 1)' /\ olast'[v] = LastKey(v, Due(v))'
    OBVIOUS
  <2>1. nextRange(v, Due(v))' = nextRange(v, Due(v))
    BY SameFiles
  <2>2. Stands(v, hand[v], Due(v))'
    BY DEF OwnerOk, StandKept
  <2>3. InFlight(v, nextRange(v, Due(v)) + 1)'
    BY <1>1, <2>1 DEF OwnerOk
  <2> QED BY <1>2, <2>2, <2>3 DEF OwnerOk
<1>5. opc[v] = "send" =>
        /\ Due(v)' \in 1 .. Size(v)'
        /\ Whole(v, batch[v][hand[v]], Due(v))' \/ Faulty(v, batch[v][hand[v]], Due(v))'
  <2> SUFFICES ASSUME opc[v] = "send"
               PROVE  Whole(v, batch[v][hand[v]], Due(v))' \/ Faulty(v, batch[v][hand[v]], Due(v))'
    BY <1>2 DEF OwnerOk
  <2>1. \A b, d : Whole(v, b, d) => Whole(v, b, d)'
    BY <1>1, SameFiles, SameGood DEF Whole
  <2>2. \A b, d : Faulty(v, b, d) => Faulty(v, b, d)'
    BY SameFiles, SameGood DEF Faulty
  <2>3. batch[v][hand[v]]' = batch[v][hand[v]]
    OBVIOUS
  <2>4. Whole(v, batch[v][hand[v]], Due(v)) \/ Faulty(v, batch[v][hand[v]], Due(v))
    BY DEF OwnerOk
  <2> QED BY <2>1, <2>2, <2>3, <2>4
<1>6. opc[v] = "closed" => Due(v)' = Size(v)' + 1
  BY <1>2 DEF OwnerOk
<1>7. opc[v] \in {"take", "put"} => opos'[v] \in 1 .. Size(v)'
  BY <1>2 DEF OwnerOk
<1> QED BY <1>3, <1>4, <1>5, <1>6, <1>7 DEF OwnerOk

\* The caller and the tree do not see what the owners and the workers do.
LEMMA SameCaller ==
  ASSUME UNCHANGED <<input, mpc, ask>>, NEW v \in Venues, CallerOk(v), Due(v)' = Due(v),
         held'[v] = held[v], pos'[v] = pos[v], pending'[v] = pending[v], keys'[v - 1] = keys[v - 1],
         held[v] # 0 => batch'[v][held[v]].last = batch[v][held[v]].last
  PROVE  CallerOk(v)'
<1>1. inline' = inline /\ Size(v)' = Size(v) /\ Start(v)' = Start(v) /\ Primed(v)' = Primed(v)
  BY SameInput, SameFiles DEF Primed
<1>2. AtEvent(v) => AtEvent(v)'
  BY <1>1, SameFiles DEF AtEvent
<1>3. AtEnd(v) => AtEnd(v)'
  BY <1>1 DEF AtEnd
<1>4. Untouched(v) => Untouched(v)'
  BY <1>1 DEF Untouched
<1>5. GoodTo(v, Due(v) - 1)' /\ CutAt(v, Due(v))'
  BY SameGood DEF CallerOk
<1> QED BY <1>1, <1>2, <1>3, <1>4, <1>5 DEF CallerOk

LEMMA OwnersMove ==
  ASSUME RunInv, UNCHANGED <<input, mpc, ask, held, pos, merger, abort>>, inline => opos' = opos,
         \A v \in Venues : held[v] # 0 => batch'[v][held[v]].last = batch[v][held[v]].last,
         \A v \in Venues : ~inline => OwnerOk(v)'
  PROVE  RunInv'
<1>1. inline' = inline /\ Venues' = Venues /\ K' = K
  BY SameInput
<1>2. UNCHANGED <<pending, keys, tree, merr, emitted>>
  BY DEF merger
<1>3. \A v \in Venues : Due(v)' = Due(v)
  BY <1>2, SameDue
<1>4. \A v \in Venues : CallerOk(v)'
  BY <1>2, <1>3, SameCaller DEF RunInv
<1>5. TreeOk'
  <2>1. Sorted(tree, keys)' <=> Sorted(tree, keys)
    BY <1>2, SameTree
  <2> QED BY <1>1, <1>2, <2>1, SameTree DEF RunInv, TreeOk, Winner
<1>6. EmittedOk'
  <2>1. \A e : EventKey(e)' = EventKey(e)
    BY SameFiles DEF EventKey
  <2>2. \A v \in Venues : Primed(v)' = Primed(v) /\ (Returned(v) => Returned(v)')
    BY <1>2, SameFiles DEF Primed, Returned, Got
  <2> QED BY <1>1, <1>2, <2>1, <2>2 DEF RunInv, EmittedOk
<1>7. Distinct' = Distinct
  BY <1>1 DEF Distinct, input
<1> QED BY <1>1, <1>4, <1>5, <1>6, <1>7 DEF RunInv

-----------------------------------------------------------------------------
(***************************************************************************)
(* The owners and the workers.                                             *)
(***************************************************************************)

\* What every state of a run that goes on satisfies.
Running == MergeInv /\ Input /\ Indexed /\ RunInv

\* t is s with x at its end.
Extends(t, s, x) ==
  /\ t \in Seq(ToSet(t)) /\ ToSet(t) = ToSet(s) \cup {x} /\ t # <<>>
  /\ Len(s) \in Nat /\ DOMAIN s = 1 .. Len(s)
  /\ Len(t) = Len(s) + 1 /\ DOMAIN t = 1 .. Len(s) + 1
  /\ t[Len(s) + 1] = x /\ \A i \in 1 .. Len(s) : t[i] = s[i] /\ s[i] \in ToSet(s)

LEMMA AppendIs ==
  ASSUME NEW s, NEW x, s \in Seq(ToSet(s))
  PROVE  Extends(Append(s, x), s, x)
<1>1. PICK t, n : t = Append(s, x) /\ n = Len(s)
  OBVIOUS
<1>2. n \in Nat /\ DOMAIN s = 1 .. n /\ \A i \in 1 .. n : s[i] \in ToSet(s)
  BY <1>1, LenProperties, ElementOfSeq
<1>3. /\ t \in Seq(ToSet(s) \cup {x}) /\ Len(t) = n + 1 /\ t[n + 1] = x
      /\ \A i \in 1 .. n : t[i] = s[i]
  <2>1. s \in Seq(ToSet(s) \cup {x}) /\ x \in ToSet(s) \cup {x}
    BY SeqMonotonic
  <2> QED BY <1>1, <1>2, <2>1, AppendProperties
<1>4. DOMAIN t = 1 .. n + 1
  BY <1>3, LenProperties
<1>5. ToSet(t) = ToSet(s) \cup {x}
  <2>1. ASSUME NEW y \in ToSet(t) PROVE y \in ToSet(s) \cup {x}
    <3>1. PICK j \in 1 .. n + 1 : y = t[j]
      BY <1>4 DEF ToSet
    <3>2. j \in 1 .. n \/ j = n + 1
      BY <1>2
    <3> QED BY <1>2, <1>3, <3>1, <3>2
  <2>2. ASSUME NEW y \in ToSet(s) PROVE y \in ToSet(t)
    <3>1. PICK j \in 1 .. n : y = s[j]
      BY <1>2 DEF ToSet
    <3>2. j \in DOMAIN t /\ t[j] = y
      BY <1>2, <1>3, <1>4, <3>1
    <3> QED BY <3>2 DEF ToSet
  <2>3. x \in ToSet(t)
    <3>1. n + 1 \in DOMAIN t
      BY <1>2, <1>4
    <3> QED BY <1>3, <3>1 DEF ToSet
  <2> QED BY <2>1, <2>2, <2>3
<1>6. t # <<>>
  <2>1. Len(<<>>) = 0 /\ Len(t) # 0
    BY <1>2, <1>3
  <2> QED BY <2>1
<1>7. t \in Seq(ToSet(t))
  BY <1>3, <1>5
<1>8. Extends(t, s, x)
  BY <1>1, <1>2, <1>3, <1>4, <1>5, <1>6, <1>7 DEF Extends
<1> QED BY <1>1, <1>8

LEMMA SameStand ==
  ASSUME UNCHANGED input, NEW v, NEW b, NEW p, Work \subseteq Work', batch'[v][b] = batch[v][b],
         Stands(v, b, p)
  PROVE  Stands(v, b, p)'
<1>1. nextRange(v, p)' = nextRange(v, p)
  BY SameFiles
<1>2. fill(v, p, nextRange(v, p), FALSE)' = fill(v, p, nextRange(v, p), FALSE)
  BY <1>1, SameFill
<1> QED BY <1>1, <1>2 DEF Stands, Filled

\* An owner that has nothing but batches in flight.
LEMMA OwnerIssues ==
  ASSUME NEW v, NEW d, Due(v)' = d, opc'[v] \in {"issue", "take", "put"},
         InFlight(v, d)', olast'[v] = LastKey(v, d)',
         opc'[v] \in {"take", "put"} => opos'[v] \in 1 .. Size(v)'
  PROVE  OwnerOk(v)'
BY DEF OwnerOk

\* The other venues' owners, when v's moves.
LEMMA OtherOwners ==
  ASSUME RunInv, UNCHANGED <<input, held, pending>>, NEW v \in Venues, NEW u \in Venues, u # v, ~inline,
         opc'[u] = opc[u], opos'[u] = opos[u], hand'[u] = hand[u], inflight'[u] = inflight[u],
         olast'[u] = olast[u], batch'[u] = batch[u], Work \subseteq Work'
  PROVE  OwnerOk(u)'
<1>1. Due(u)' = Due(u)
  BY SameDue
<1>2. StandKept(u)
  BY SameStand DEF StandKept
<1>3. OwnerOk(u)
  BY DEF RunInv
<1> QED BY <1>1, <1>2, <1>3, SameOwner

LEMMA FlightIs ==
  ASSUME MergeInv, NEW v \in Venues
  PROVE  /\ Len(inflight[v]) \in Nat /\ inflight[v] \in Seq(ToSet(inflight[v]))
         /\ \A i \in 1 .. Len(inflight[v]) : /\ inflight[v][i] \in ToSet(inflight[v])
                                             /\ inflight[v][i] \in BatchIds
<1>1. /\ inflight[v] \in Seq(ToSet(inflight[v])) /\ ToSet(inflight[v]) \subseteq BatchIds
  BY DEF MergeInv, Owned, OnceEach
<1> QED BY <1>1, LenProperties, ElementOfSeq

LEMMA RunTakeFree ==
  ASSUME Running, NEW v \in Venues, TakeFree(v)
  PROVE  RunInv'
<1> USE DEF Running
<1>0. ~inline
  BY DEF TakeFree, MergeInv, Phase
<1>1. /\ UNCHANGED <<input, opos, inflight, olast, batch, mpc, ask, held, pos, merger, abort>>
      /\ Work' = Work /\ UNCHANGED pending
  BY DEF TakeFree, pool, merger, Work
<1>2. /\ opc[v] = "take" /\ opc'[v] = "put"
      /\ \A u \in Venues : u # v => opc'[u] = opc[u] /\ hand'[u] = hand[u]
  BY DEF TakeFree, MergeInv, Shaped
<1>3. \A u \in Venues : u # v => OwnerOk(u)'
  BY <1>0, <1>1, <1>2, OtherOwners
<1>4. Due(v)' = Due(v) /\ OwnerOk(v)
  BY <1>0, <1>1, SameDue DEF RunInv
<1>5. InFlight(v, Due(v)) /\ olast[v] = LastKey(v, Due(v)) /\ opos[v] \in 1 .. Size(v)
  BY <1>2, <1>4 DEF OwnerOk
<1>6. \A d : InFlight(v, d) => InFlight(v, d)'
  BY <1>1, SameStand, SameFlight
<1>7. Size(v)' = Size(v) /\ \A d : LastKey(v, d)' = LastKey(v, d)
  BY <1>1, SameFiles DEF LastKey
<1>8. OwnerOk(v)'
  <2> DEFINE d == Due(v)
  <2>1. d' = d /\ InFlight(v, d) /\ olast[v] = LastKey(v, d)
    BY <1>4, <1>5
  <2> QED BY <1>1, <1>2, <1>4, <1>5, <1>6, <1>7, OwnerIssues
<1> QED BY <1>0, <1>1, <1>3, <1>8, OwnersMove

LEMMA CoversTail ==
  ASSUME MergeInv, UNCHANGED <<input, batch, opos>>, Work \subseteq Work', NEW v \in Venues, NEW d,
         NEW b, b = Head(inflight[v]), InFlight(v, d), inflight[v] # <<>>,
         inflight'[v] = Tail(inflight[v])
  PROVE  /\ d \in 1 .. Size(v) /\ Stands(v, b, d)'
         /\ InFlight(v, nextRange(v, d) + 1)'
<1>0. PICK s, n, a : s = inflight[v] /\ n = Len(s) /\ a = nextRange(v, d) + 1
  OBVIOUS
<1>1. PICK cut : Covers(v, cut, d)
  BY DEF InFlight
<1>2. s \in Seq(ToSet(s)) /\ n \in Nat
  BY <1>0, FlightIs
<1>3. /\ n >= 1 /\ Head(s) = s[1] /\ Len(Tail(s)) = n - 1
      /\ \A i \in 1 .. n - 1 : Tail(s)[i] = s[i + 1]
  BY <1>0, <1>2, HeadTailProperties, LenProperties, EmptySeq
<1>4. /\ cut[1] = d /\ cut[n + 1] = opos[v]
      /\ \A i \in 1 .. n : /\ cut[i] \in 1 .. Size(v) /\ cut[i + 1] = nextRange(v, cut[i]) + 1
                           /\ Stands(v, s[i], cut[i])
  BY <1>0, <1>1 DEF Covers
<1>5. d \in 1 .. Size(v) /\ Stands(v, Head(s), d) /\ cut[2] = nextRange(v, d) + 1
  <2>1. 1 \in 1 .. n
    BY <1>2, <1>3
  <2> QED BY <1>3, <1>4, <2>1
<1>6. PICK new : new = [i \in 1 .. n |-> cut[i + 1]]
  OBVIOUS
<1>7. /\ new[1] = nextRange(v, d) + 1 /\ new[n] = opos'[v]
      /\ \A i \in 1 .. n - 1 : /\ new[i] \in 1 .. Size(v) /\ new[i + 1] = nextRange(v, new[i]) + 1
                               /\ Stands(v, Tail(s)[i], new[i])
  <2>1. new[1] = nextRange(v, d) + 1 /\ new[n] = opos'[v]
    BY <1>2, <1>3, <1>4, <1>5, <1>6
  <2>2. ASSUME NEW i \in 1 .. n - 1
        PROVE  /\ new[i] \in 1 .. Size(v) /\ new[i + 1] = nextRange(v, new[i]) + 1
               /\ Stands(v, Tail(s)[i], new[i])
    <3>1. i + 1 \in 1 .. n /\ i \in 1 .. n
      BY <1>2
    <3>2. new[i] = cut[i + 1] /\ new[i + 1] = cut[(i + 1) + 1] /\ Tail(s)[i] = s[i + 1]
      BY <1>3, <1>6, <3>1
    <3> QED BY <1>4, <3>1, <3>2
  <2> QED BY <2>1, <2>2
<1>8. \A c, p : Stands(v, c, p) => Stands(v, c, p)'
  BY SameStand
<1>9. \A p : nextRange(v, p)' = nextRange(v, p) /\ Size(v)' = Size(v)
  BY SameFiles
<1>10. inflight'[v] = Tail(s) /\ Len(Tail(s)) = n - 1 /\ (n - 1) + 1 = n
  BY <1>0, <1>2, <1>3
<1>11. Covers(v, new, a)'
  BY <1>0, <1>7, <1>8, <1>9, <1>10 DEF Covers
<1>12. InFlight(v, a)'
  BY <1>11 DEF InFlight
<1> QED BY <1>0, <1>5, <1>8, <1>9, <1>12

LEMMA RunIssue ==
  ASSUME Running, NEW v \in Venues, Issue(v)
  PROVE  RunInv'
<1> USE DEF Running
<1>0. ~inline
  BY DEF Issue, MergeInv, Phase
<1>1. /\ UNCHANGED <<input, opos, olast, batch, mpc, ask, held, pos, merger, abort>>
      /\ Work' = Work /\ UNCHANGED pending
  BY DEF Issue, pool, merger, Work
<1>2. /\ opc[v] = "issue"
      /\ \A u \in Venues : u # v => /\ opc'[u] = opc[u] /\ hand'[u] = hand[u]
                                    /\ inflight'[u] = inflight[u]
  BY DEF Issue, MergeInv, Shaped
<1>3. \A u \in Venues : u # v => OwnerOk(u)'
  BY <1>0, <1>1, <1>2, OtherOwners
<1>4. PICK d : d = Due(v)
  OBVIOUS
<1>5. Due(v)' = d /\ OwnerOk(v) /\ CallerOk(v)
  BY <1>0, <1>1, <1>4, SameDue DEF RunInv
<1>6. InFlight(v, d) /\ olast[v] = LastKey(v, d) /\ d \in Start(v) .. Size(v) + 1
  BY <1>2, <1>4, <1>5 DEF OwnerOk, CallerOk
<1>7. Size(v)' = Size(v) /\ (\A x : LastKey(v, x)' = LastKey(v, x)) /\ Size(v) \in Nat
      /\ Start(v) \in 1 .. Size(v) + 1 /\ Positions(v) = 1 .. Size(v)
  BY <1>1, SameFiles, RecordsOf, StartIs DEF LastKey
<1>8. OwnerOk(v)'
  <2>1. CASE opos[v] \in Positions(v) /\ opc'[v] = "take" /\ inflight' = inflight
    <3>1. InFlight(v, d)'
      BY <1>1, <1>6, <2>1, SameStand, SameFlight
    <3> QED BY <1>1, <1>5, <1>6, <1>7, <2>1, <3>1, OwnerIssues
  <2>2. CASE opos[v] \notin Positions(v) /\ opc'[v] = "closed" /\ inflight[v] = <<>>
    <3>1. PICK cut : Covers(v, cut, d)
      BY <1>6 DEF InFlight
    <3>2. opos[v] = d
      BY <2>2, <3>1 DEF Covers
    <3>3. d = Size(v) + 1
      BY <1>6, <1>7, <2>2, <3>2
    <3> QED BY <1>5, <1>7, <2>2, <3>3 DEF OwnerOk
  <2>3. CASE /\ opc'[v] = "await" /\ inflight[v] # <<>>
             /\ hand'[v] = Head(inflight[v]) /\ inflight'[v] = Tail(inflight[v])
    <3>1. PICK b : b = Head(inflight[v])
      OBVIOUS
    <3>2. d \in 1 .. Size(v) /\ Stands(v, b, d)' /\ InFlight(v, nextRange(v, d) + 1)'
      BY <1>1, <1>6, <2>3, <3>1, CoversTail
    <3> QED BY <1>1, <1>5, <1>6, <1>7, <2>3, <3>1, <3>2 DEF OwnerOk
  <2>4. Len(<<>>) = 0 /\ shape.batches \in Nat \ {0, 1} /\ ~abort
    BY DEF Input, RunInv
  <2> QED BY <2>1, <2>2, <2>3, <2>4 DEF Issue, MergeInv, Shaped
<1> QED BY <1>0, <1>1, <1>3, <1>8, OwnersMove

LEMMA RunPutWork ==
  ASSUME Running, NEW v \in Venues, PutWork(v)
  PROVE  RunInv'
<1> USE DEF Running
<1>0. ~inline
  BY DEF PutWork, MergeInv, Phase
<1>1. UNCHANGED <<input, olast, batch, mpc, ask, held, pos, merger, abort, pending>>
  BY DEF PutWork, merger
<1>2. PICK p, s, n, h, to : /\ p = opos[v] /\ s = inflight[v] /\ n = Len(s) /\ h = hand[v]
                            /\ to = nextRange(v, p)
  OBVIOUS
<1>3. /\ opc[v] = "put" /\ opc'[v] = "issue" /\ opos'[v] = to + 1 /\ inflight'[v] = Append(s, h)
      /\ \A u \in Venues : u # v => /\ opc'[u] = opc[u] /\ hand'[u] = hand[u] /\ opos'[u] = opos[u]
                                    /\ inflight'[u] = inflight[u]
  BY <1>2 DEF PutWork, MergeInv, Shaped, Indexed
<1>4. PICK it : it = [v |-> v, b |-> h, from |-> p, to |-> to]
  OBVIOUS
<1>5. Work' = Work \cup {it}
  <2>1. queue' = Append(queue, it) /\ busy' = busy
    BY <1>2, <1>4 DEF PutWork
  <2>2. queue \in Seq(ToSet(queue))
    BY DEF MergeInv, Queued, OnceEach
  <2>3. ToSet(Append(queue, it)) = ToSet(queue) \cup {it}
    BY <2>2, AppendIs DEF Extends
  <2> QED BY <2>1, <2>3 DEF Work
<1>6. \A u \in Venues : u # v => OwnerOk(u)'
  BY <1>0, <1>1, <1>3, <1>5, OtherOwners
<1>7. PICK d : d = Due(v)
  OBVIOUS
<1>8. Due(v)' = d /\ OwnerOk(v)
  BY <1>0, <1>1, <1>7, SameDue DEF RunInv
<1>9. InFlight(v, d) /\ olast[v] = LastKey(v, d) /\ p \in 1 .. Size(v)
  BY <1>2, <1>3, <1>7, <1>8 DEF OwnerOk
<1>10. /\ Size(v)' = Size(v) /\ (\A x : LastKey(v, x)' = LastKey(v, x))
       /\ \A x : nextRange(v, x)' = nextRange(v, x)
  BY <1>1, SameFiles DEF LastKey
<1>11. s \in Seq(ToSet(s)) /\ n \in Nat
  BY <1>2, FlightIs
<1>12. PICK z : z = Append(s, h)
  OBVIOUS
<1>13. Len(z) = n + 1 /\ z[n + 1] = h /\ \A i \in 1 .. n : z[i] = s[i]
  <2>1. Extends(z, s, h)
    BY <1>11, <1>12, AppendIs
  <2> QED BY <1>2, <2>1 DEF Extends
<1>14. PICK cut : Covers(v, cut, d)
  BY <1>9 DEF InFlight
<1>15. /\ cut[1] = d /\ cut[n + 1] = p
       /\ \A i \in 1 .. n : /\ cut[i] \in 1 .. Size(v) /\ cut[i + 1] = nextRange(v, cut[i]) + 1
                            /\ Stands(v, s[i], cut[i])
  BY <1>2, <1>14 DEF Covers
<1>16. PICK new : new = [i \in 1 .. n + 2 |-> IF i = n + 2 THEN to + 1 ELSE cut[i]]
  OBVIOUS
<1>17. \A c, x : Stands(v, c, x) => Stands(v, c, x)'
  BY <1>1, <1>5, SameStand
<1>18. Stands(v, h, p)'
  BY <1>2, <1>4, <1>5, <1>10 DEF Stands
<1>19. /\ new[1] = d /\ new[n + 2] = to + 1
       /\ \A i \in 1 .. n + 1 : /\ new[i] \in 1 .. Size(v) /\ new[i + 1] = nextRange(v, new[i]) + 1
                                /\ Stands(v, z[i], new[i])'
  <2>1. new[1] = d /\ new[n + 2] = to + 1
    BY <1>11, <1>15, <1>16
  <2>2. ASSUME NEW i \in 1 .. n
        PROVE  /\ new[i] \in 1 .. Size(v) /\ new[i + 1] = nextRange(v, new[i]) + 1
               /\ Stands(v, z[i], new[i])'
    <3>1. new[i] = cut[i] /\ new[i + 1] = cut[i + 1] /\ z[i] = s[i]
      BY <1>11, <1>13, <1>16
    <3>2. Stands(v, s[i], cut[i])'
      BY <1>15, <1>17
    <3> QED BY <1>15, <3>1, <3>2
  <2>3. new[n + 1] = p /\ new[(n + 1) + 1] = to + 1 /\ z[n + 1] = h
    BY <1>11, <1>13, <1>15, <1>16
  <2>4. /\ new[n + 1] \in 1 .. Size(v) /\ new[(n + 1) + 1] = nextRange(v, new[n + 1]) + 1
        /\ Stands(v, z[n + 1], new[n + 1])'
    BY <1>2, <1>9, <1>18, <2>3
  <2>5. \A i \in 1 .. n + 1 : i \in 1 .. n \/ i = n + 1
    BY <1>11
  <2> QED BY <2>1, <2>2, <2>4, <2>5
<1>20. Covers(v, new, d)'
  <2>1. inflight'[v] = z /\ Len(z) = n + 1 /\ (n + 1) + 1 = n + 2 /\ opos'[v] = to + 1
    BY <1>3, <1>11, <1>12, <1>13
  <2> QED BY <1>10, <1>19, <2>1 DEF Covers
<1>21. InFlight(v, d)'
  BY <1>20 DEF InFlight
<1>22. OwnerOk(v)'
  BY <1>1, <1>3, <1>8, <1>9, <1>10, <1>21, OwnerIssues
<1> QED BY <1>0, <1>1, <1>6, <1>22, OwnersMove

\* A decoded batch, with the seam its owner checks: whole, or with a fault in it.
LEMMA SeamIs ==
  ASSUME Input, NEW v \in Venues, NEW d \in Start(v) .. Size(v), GoodTo(v, d - 1),
         olast[v] = LastKey(v, d), NEW b, Filled(v, b, d)
  PROVE  /\ b = [first |-> d, last |-> b.last, err |-> b.err, done |-> TRUE]
         /\ b.err = "ok" => b.last = nextRange(v, d)
         /\ b.err = "ok" /\ checkSeam(v, b) = "ok" => GoodTo(v, nextRange(v, d))
         /\ b.err # "ok" \/ checkSeam(v, b) # "ok" => \E p \in d .. nextRange(v, d) : ~Good(v, p)
<1> DEFINE to == nextRange(v, d)
           f == fill(v, d, to, FALSE)
           bad(p) == Fault(v, p, p > d \/ FALSE) # "ok"
<1>0. /\ Size(v) \in Nat /\ Start(v) \in 1 .. Size(v) + 1 /\ d \in 1 .. Size(v) /\ to \in d .. Size(v)
      /\ d \in Nat /\ to \in Nat
  BY RecordsOf, StartIs, RangeIs
<1>1. /\ f = [first |-> d, last |-> f.last, err |-> f.err, done |-> FALSE]
      /\ (\A p \in d .. to : ~bad(p)) => f.last = to /\ f.err = "ok"
      /\ (\E p \in d .. to : bad(p)) => f.err # "ok"
  <2> HIDE DEF to
  <2> QED BY <1>0, FillIs, Zenon
<1>2. /\ b = [first |-> d, last |-> b.last, err |-> b.err, done |-> TRUE]
      /\ b.last = f.last /\ b.err = f.err /\ b.first = d
  <2>1. b = [f EXCEPT !.done = TRUE]
    BY DEF Filled
  <2> HIDE DEF f
  <2>2. PICK l, e : f = [first |-> d, last |-> l, err |-> e, done |-> FALSE]
    BY <1>1
  <2>3. b = [first |-> d, last |-> l, err |-> e, done |-> TRUE]
    BY <2>1, <2>2
  <2>4. b.first = d /\ b.last = l /\ b.err = e /\ f.last = l /\ f.err = e
    BY <2>2, <2>3
  <2> QED BY <2>3, <2>4
<1>3. b.last = f.last /\ b.err = f.err /\ b.first = d
  BY <1>2
<1>4. (\A p \in d .. to : ~bad(p)) => b.last = to /\ b.err = "ok"
  BY <1>1, <1>3
<1>5. (\E p \in d .. to : bad(p)) => b.err # "ok"
  BY <1>1, <1>3
<1> HIDE DEF f, to
<1>6. \A p \in d + 1 .. to : bad(p) <=> ~Good(v, p)
  <2>1. \A p \in d + 1 .. to : (p > d \/ FALSE) = TRUE /\ (p > Start(v)) = TRUE
    BY <1>0
  <2> QED BY <2>1 DEF Good
<1>7. bad(d) <=> Fault(v, d, FALSE) # "ok"
  <2>1. (d > d \/ FALSE) = FALSE
    BY <1>0
  <2> QED BY <2>1
<1>8. CASE d = Start(v)
  <2>1. Good(v, d) <=> ~bad(d)
    <3>1. (d > Start(v)) = FALSE
      BY <1>0, <1>8
    <3> QED BY <1>7, <3>1 DEF Good
  <2>2. \A p \in d .. to : bad(p) <=> ~Good(v, p)
    <3>1. \A p \in d .. to : p = d \/ p \in d + 1 .. to
      BY <1>0
    <3> QED BY <1>6, <2>1, <3>1
  <2>3. checkSeam(v, b) = "ok"
    BY <1>8 DEF checkSeam, LastKey
  <2>4. (\A p \in d .. to : Good(v, p)) => GoodTo(v, to)
    BY <1>8 DEF GoodTo
  <2> HIDE DEF bad
  <2> QED BY <1>2, <1>4, <1>5, <2>2, <2>3, <2>4 DEF to
<1>9. CASE d > Start(v)
  <2>0. olast[v] = d - 1 /\ olast[v] # 0
    BY <1>0, <1>9 DEF LastKey
  <2>1. Good(v, d) <=> ~bad(d) /\ checkOrder(keyOf(v, d - 1), keyOf(v, d)) = "ok"
    <3>1. (d > Start(v)) = TRUE
      BY <1>0, <1>9
    <3> QED BY <1>7, <3>1, FaultIs DEF Good
  <2>2. \A p \in d .. to : bad(p) => ~Good(v, p)
    <3>1. \A p \in d .. to : p = d \/ p \in d + 1 .. to
      BY <1>0
    <3> QED BY <1>6, <2>1, <3>1
  <2>3. b.err = "ok" => /\ \A p \in d .. to : ~bad(p)
                        /\ b.last = to /\ checkSeam(v, b) = checkOrder(keyOf(v, d - 1), keyOf(v, d))
    <3> SUFFICES ASSUME b.err = "ok"
                 PROVE  /\ \A p \in d .. to : ~bad(p)
                        /\ b.last = to /\ checkSeam(v, b) = checkOrder(keyOf(v, d - 1), keyOf(v, d))
      OBVIOUS
    <3>1. (\A p \in d .. to : ~bad(p)) /\ b.last = to
      <4> HIDE DEF bad
      <4> QED BY <1>4, <1>5
    <3>2. ~(b.last < b.first)
      BY <1>0, <1>3, <3>1
    <3>3. checkSeam(v, b) = checkOrder(keyOf(v, d - 1), keyOf(v, d))
      BY <1>3, <2>0, <3>2 DEF checkSeam
    <3> QED BY <3>1, <3>3
  <2>4. b.err # "ok" => \E p \in d .. to : bad(p)
    <3> HIDE DEF bad
    <3> QED BY <1>4
  <2>5. (\A p \in d .. to : Good(v, p)) => GoodTo(v, to)
    <3>1. \A p \in Start(v) .. to : p \in Start(v) .. d - 1 \/ p \in d .. to
      BY <1>0
    <3> QED BY <3>1 DEF GoodTo
  <2>6. b.err = "ok" /\ checkSeam(v, b) = "ok" => \A p \in d .. to : Good(v, p)
    <3>1. \A p \in d .. to : p = d \/ p \in d + 1 .. to
      BY <1>0
    <3> HIDE DEF bad
    <3> QED BY <1>6, <2>1, <2>3, <3>1
  <2>7. b.err = "ok" /\ checkSeam(v, b) # "ok" => ~Good(v, d)
    BY <2>1, <2>3
  <2>8. d \in d .. to
    BY <1>0
  <2> HIDE DEF bad
  <2>9. b.err = "ok" /\ checkSeam(v, b) = "ok" => GoodTo(v, to)
    BY <2>5, <2>6
  <2>10. b.err # "ok" \/ checkSeam(v, b) # "ok" => \E p \in d .. to : ~Good(v, p)
    BY <2>2, <2>4, <2>7, <2>8
  <2>11. b.err = "ok" => b.last = to
    BY <2>3
  <2> QED BY <1>2, <2>9, <2>10, <2>11 DEF to
<1> QED BY <1>0, <1>8, <1>9

LEMMA RunAwaitDone ==
  ASSUME Running, NEW v \in Venues, AwaitDone(v)
  PROVE  RunInv'
<1> USE DEF Running
<1>0. ~inline
  BY DEF AwaitDone, MergeInv, Phase
<1>1. /\ UNCHANGED <<input, opos, hand, inflight, mpc, ask, held, pos, merger, abort, pending>>
      /\ Work' = Work
  BY DEF AwaitDone, merger, pool, Work
<1>2. PICK d, h, b : d = Due(v) /\ h = hand[v] /\ b = batch[v][h]
  OBVIOUS
<1>3. ~abort /\ opc[v] = "await" /\ b.done /\ OwnerOk(v) /\ CallerOk(v)
  BY <1>0, <1>2 DEF AwaitDone, RunInv
<1>4. h \in BatchIds /\ held[v] # h /\ \A i \in 1 .. Len(inflight[v]) : inflight[v][i] \in BatchIds \ {h}
  <2>1. Owned(v) /\ hand[v] # 0
    BY <1>3 DEF MergeInv, Owned
  <2> QED BY <1>2, <2>1, FlightIs DEF Owned
<1> DEFINE seam == IF b.err = "ok" THEN checkSeam(v, b) ELSE "ok"
<1>5. /\ opc' = [opc EXCEPT ![v] = "send"]
      /\ batch' = [batch EXCEPT ![v][h].done = FALSE, ![v][h].err = IF @ = "ok" THEN seam ELSE @]
      /\ olast' = IF b.err = "ok" /\ seam = "ok" /\ b.first <= b.last
                  THEN [olast EXCEPT ![v] = b.last] ELSE olast
  BY <1>2, <1>3 DEF AwaitDone
<1>6. /\ opc'[v] = "send" /\ DOMAIN batch = Venues /\ DOMAIN batch[v] = BatchIds
      /\ \A u \in Venues : u # v => opc'[u] = opc[u] /\ olast'[u] = olast[u]
      /\ \A u \in Venues : u # v => batch'[u] = batch[u]
      /\ \A c \in BatchIds : c # h => batch'[v][c] = batch[v][c]
      /\ held[v] \in {0} \cup BatchIds
  <2>1. DOMAIN opc = Venues /\ DOMAIN batch = Venues /\ DOMAIN batch[v] = BatchIds
        /\ DOMAIN olast = Venues /\ held[v] \in {0} \cup BatchIds
    BY DEF MergeInv, Shaped, Indexed, Owned
  <2> HIDE DEF seam
  <2>2. opc'[v] = "send" /\ \A u \in Venues : u # v => opc'[u] = opc[u]
    BY <1>5, <2>1
  <2>3. \A u \in Venues : u # v => olast'[u] = olast[u]
    BY <1>5, <2>1
  <2>4. \A u \in Venues : u # v => batch'[u] = batch[u]
    BY <1>5, <2>1
  <2>5. \A c \in BatchIds : c # h => batch'[v][c] = batch[v][c]
    BY <1>4, <1>5, <2>1
  <2> QED BY <2>1, <2>2, <2>3, <2>4, <2>5
<1>7. \A u \in Venues : u # v => OwnerOk(u)'
  BY <1>0, <1>1, <1>6, OtherOwners
<1>8. /\ d \in 1 .. Size(v) /\ Stands(v, h, d) /\ InFlight(v, nextRange(v, d) + 1)
      /\ olast[v] = LastKey(v, d) /\ d \in Start(v) .. Size(v) + 1 /\ GoodTo(v, d - 1)
  BY <1>2, <1>3 DEF OwnerOk, CallerOk
<1>9. Filled(v, b, d)
  <2>1. [v |-> v, b |-> h, from |-> d, to |-> nextRange(v, d)] \notin Work
    <3>1. \A it \in Work : it.v = v /\ it.b = h => ~b.done
      BY <1>2 DEF MergeInv, Queued
    <3> QED BY <1>3, <3>1
  <2> QED BY <1>2, <1>8, <2>1 DEF Stands
<1>10. d \in Start(v) .. Size(v)
  BY <1>8, RecordsOf, StartIs
<1>11. /\ b = [first |-> d, last |-> b.last, err |-> b.err, done |-> TRUE]
       /\ b.err = "ok" => b.last = nextRange(v, d)
       /\ b.err = "ok" /\ checkSeam(v, b) = "ok" => GoodTo(v, nextRange(v, d))
       /\ b.err # "ok" \/ checkSeam(v, b) # "ok" => \E p \in d .. nextRange(v, d) : ~Good(v, p)
  BY <1>8, <1>9, <1>10, SeamIs
<1> HIDE DEF seam
<1>12. batch'[v][h] = [first |-> d, last |-> b.last, done |-> FALSE,
                       err |-> IF b.err = "ok" THEN seam ELSE b.err]
  <2>1. batch'[v][h] = [batch[v][h] EXCEPT !.done = FALSE, !.err = IF @ = "ok" THEN seam ELSE @]
    BY <1>4, <1>5, <1>6
  <2>2. PICK l, e : b = [first |-> d, last |-> l, err |-> e, done |-> TRUE]
    BY <1>11
  <2>3. PICK r : r = batch'[v][h] /\ r = [b EXCEPT !.done = FALSE, !.err = IF @ = "ok" THEN seam ELSE @]
    BY <1>2, <2>1
  <2>4. r = [first |-> d, last |-> l, done |-> FALSE, err |-> IF e = "ok" THEN seam ELSE e]
    BY <2>2, <2>3
  <2>5. b.last = l /\ b.err = e
    BY <2>2
  <2> QED BY <2>3, <2>4, <2>5
<1>13. Due(v)' = d
  BY <1>0, <1>1, <1>2, <1>4, <1>6, SameDue
<1>14. /\ Size(v)' = Size(v) /\ (\A p : nextRange(v, p)' = nextRange(v, p))
       /\ (\A p : Good(v, p)' <=> Good(v, p)) /\ (\A n : GoodTo(v, n)' <=> GoodTo(v, n))
  BY <1>1, SameFiles, SameGood
<1>15. OwnerOk(v)'
  <2>0. PICK c : c = batch'[v][h]
    OBVIOUS
  <2>1. CASE b.err = "ok" /\ checkSeam(v, b) = "ok"
    <3>1. c.err = "ok" /\ c.first = d /\ c.last = nextRange(v, d) /\ GoodTo(v, c.last)
      BY <1>11, <1>12, <2>0, <2>1 DEF seam
    <3>2. PICK a : a = nextRange(v, d) + 1
      OBVIOUS
    <3>3. \A i \in 1 .. Len(inflight[v]) : \A p :
            Stands(v, inflight[v][i], p) => Stands(v, inflight[v][i], p)'
      <4>1. ASSUME NEW i \in 1 .. Len(inflight[v]), NEW p, Stands(v, inflight[v][i], p)
            PROVE  Stands(v, inflight[v][i], p)'
        <5>1. PICK x : x = inflight[v][i]
          OBVIOUS
        <5>2. Stands(v, x, p)'
          BY <1>1, <1>4, <1>6, <4>1, <5>1, SameStand
        <5> QED BY <1>1, <5>1, <5>2
      <4> QED BY <4>1
    <3>4. InFlight(v, a)'
      BY <1>1, <1>8, <3>2, <3>3, SameFlight
    <3>5. olast'[v] = nextRange(v, d)
      <4>1. b.first <= b.last
        <5>1. nextRange(v, d) \in d .. Size(v) /\ Size(v) \in Nat
          BY <1>8, RangeIs, RecordsOf
        <5>2. b.first = d
          BY <1>11
        <5> QED BY <1>8, <1>11, <2>1, <5>1, <5>2
      <4> QED BY <1>5, <1>11, <2>1, <4>1 DEF seam, Indexed
    <3>6. Whole(v, c, d)'
      BY <1>14, <3>1, <3>2, <3>4, <3>5 DEF Whole
    <3>7. batch[v][hand[v]]' = c
      BY <1>1, <1>2, <2>0
    <3> QED BY <1>6, <1>8, <1>13, <1>14, <3>6, <3>7 DEF OwnerOk
  <2>2. CASE b.err # "ok" \/ checkSeam(v, b) # "ok"
    <3>1. c.err # "ok"
      BY <1>12, <2>0, <2>2 DEF seam
    <3>2. Faulty(v, c, d)'
      BY <1>11, <1>14, <2>2, <3>1 DEF Faulty
    <3>3. batch[v][hand[v]]' = c
      BY <1>1, <1>2, <2>0
    <3> QED BY <1>6, <1>8, <1>13, <1>14, <3>2, <3>3 DEF OwnerOk
  <2> QED BY <2>1, <2>2
<1>16. \A u \in Venues : held[u] # 0 => batch'[u][held[u]].last = batch[u][held[u]].last
  BY <1>4, <1>6
<1> QED BY <1>0, <1>1, <1>7, <1>15, <1>16, OwnersMove

LEMMA RunTakeWork ==
  ASSUME Running, TakeWork
  PROVE  RunInv'
<1> USE DEF Running
<1>1. UNCHANGED <<input, opc, opos, hand, inflight, olast, batch, mpc, ask, held, pos, merger, abort, pending>>
  BY DEF TakeWork, owners, merger
<1>2. Work' = Work
  <2>1. queue # <<>> /\ busy' = busy \cup {Head(queue)} /\ queue' = Tail(queue)
    BY DEF TakeWork
  <2>2. Head(queue) \in ToSet(queue) /\ ToSet(queue') = ToSet(queue) \ {Head(queue)}
    BY <2>1, TailOnce DEF MergeInv, Queued
  <2> QED BY <2>1, <2>2 DEF Work
<1>3. ASSUME NEW v \in Venues, ~inline PROVE OwnerOk(v)'
  <2>1. Due(v)' = Due(v) /\ OwnerOk(v)
    BY <1>1, <1>3, SameDue DEF RunInv
  <2>2. StandKept(v)
    BY <1>1, <1>2, SameStand DEF StandKept
  <2> QED BY <1>1, <2>1, <2>2, SameOwner
<1> QED BY <1>1, <1>3, OwnersMove

LEMMA RunFinishWork ==
  ASSUME Running, FinishWork
  PROVE  RunInv'
<1> USE DEF Running
<1>0. PICK it \in busy :
        /\ ~batch[it.v][it.b].done
        /\ batch' = [batch EXCEPT ![it.v][it.b] = [fill(it.v, it.from, it.to, FALSE) EXCEPT !.done = TRUE]]
        /\ busy' = busy \ {it}
        /\ UNCHANGED <<input, owners, free, queue, mpc, ask, held, pos, merger, abort, open>>
  BY DEF FinishWork
<1>1. UNCHANGED <<input, opc, opos, hand, inflight, olast, mpc, ask, held, pos, merger, abort, pending>>
  BY <1>0 DEF owners, merger
<1>2. PICK v, b : v = it.v /\ b = it.b
  OBVIOUS
<1>3. v \in Venues /\ b \in BatchIds /\ Issued(v, b) /\ Owned(v)
  BY <1>0, <1>2 DEF MergeInv, Queued, Work
<1>4. /\ ~batch[v][b].done /\ \A x \in Work : x # it => x \in Work'
      /\ batch'[v][b] = [fill(v, it.from, it.to, FALSE) EXCEPT !.done = TRUE]
      /\ \A u \in Venues : \A c \in BatchIds : u # v \/ c # b => batch'[u][c] = batch[u][c]
  <2>1. DOMAIN batch = Venues /\ \A u \in Venues : DOMAIN batch[u] = BatchIds
    BY DEF MergeInv, Shaped
  <2>2. batch' = [batch EXCEPT ![v][b] = [fill(v, it.from, it.to, FALSE) EXCEPT !.done = TRUE]]
    BY <1>0, <1>2
  <2>3. PICK r : r = [fill(v, it.from, it.to, FALSE) EXCEPT !.done = TRUE]
    OBVIOUS
  <2>4. batch' = [batch EXCEPT ![v][b] = r]
    BY <2>2, <2>3
  <2>5. batch'[v][b] = r /\ \A u \in Venues : \A c \in BatchIds : u # v \/ c # b => batch'[u][c] = batch[u][c]
    BY <1>3, <2>1, <2>4
  <2>6. \A x \in Work : x # it => x \in Work'
    BY <1>0 DEF Work
  <2> QED BY <1>0, <1>2, <2>3, <2>5, <2>6
<1>5. ASSUME NEW u \in Venues, NEW c \in BatchIds, NEW p, Stands(u, c, p)
      PROVE  Stands(u, c, p)'
  <2>1. nextRange(u, p)' = nextRange(u, p)
        /\ fill(u, p, nextRange(u, p), FALSE)' = fill(u, p, nextRange(u, p), FALSE)
    BY <1>1, SameFiles, SameFill
  <2>2. CASE [v |-> u, b |-> c, from |-> p, to |-> nextRange(u, p)] = it
    <3>1. u = v /\ c = b /\ it.from = p /\ it.to = nextRange(u, p)
      BY <1>2, <2>2
    <3>2. Filled(u, batch[u][c], p)'
      BY <1>4, <2>1, <3>1 DEF Filled
    <3> QED BY <3>2 DEF Stands
  <2>3. CASE /\ [v |-> u, b |-> c, from |-> p, to |-> nextRange(u, p)] # it
             /\ [v |-> u, b |-> c, from |-> p, to |-> nextRange(u, p)] \in Work
    BY <1>4, <2>1, <2>3 DEF Stands
  <2>4. CASE Filled(u, batch[u][c], p)
    <3>1. batch[u][c].done
      BY <2>4 DEF Filled, fill
    <3>2. batch'[u][c] = batch[u][c]
      BY <1>4, <3>1
    <3> QED BY <2>1, <2>4, <3>2 DEF Stands, Filled
  <2> QED BY <1>5, <2>2, <2>3, <2>4 DEF Stands
<1>6. \A u \in Venues : held[u] # 0 => batch'[u][held[u]] = batch[u][held[u]]
  <2>1. ASSUME NEW u \in Venues, held[u] # 0 PROVE batch'[u][held[u]] = batch[u][held[u]]
    <3>1. held[u] \in BatchIds /\ (u = v => held[u] # b)
      BY <1>3, <2>1 DEF MergeInv, Owned, Issued
    <3> QED BY <1>4, <3>1
  <2> QED BY <2>1
<1>7. ASSUME NEW u \in Venues, ~inline PROVE OwnerOk(u)'
  <2>1. Due(u)' = Due(u) /\ OwnerOk(u)
    BY <1>1, <1>6, <1>7, SameDue DEF RunInv
  <2>2. StandKept(u)
    <3>1. \A i \in 1 .. Len(inflight[u]) : inflight[u][i] \in BatchIds
      BY FlightIs
    <3>2. opc[u] = "await" => hand[u] \in BatchIds
      BY DEF MergeInv, Owned
    <3>3. ASSUME NEW i \in 1 .. Len(inflight[u]), NEW p, Stands(u, inflight[u][i], p)
          PROVE  Stands(u, inflight[u][i], p)'
      <4>1. PICK c \in BatchIds : c = inflight[u][i]
        BY <3>1
      <4>2. Stands(u, c, p)'
        BY <1>5, <3>3, <4>1
      <4> QED BY <1>1, <4>1, <4>2
    <3>4. ASSUME opc[u] = "await", NEW p, Stands(u, hand[u], p) PROVE Stands(u, hand[u], p)'
      <4>1. PICK c \in BatchIds : c = hand[u]
        BY <3>2, <3>4
      <4>2. Stands(u, c, p)'
        BY <1>5, <3>4, <4>1
      <4> QED BY <1>1, <4>1, <4>2
    <3> QED BY <3>3, <3>4 DEF StandKept
  <2>3. opc[u] = "send" => batch'[u][hand[u]] = batch[u][hand[u]]
    <3>1. opc[u] = "send" => hand[u] \in BatchIds /\ (u = v => hand[u] # b)
      BY <1>3 DEF MergeInv, Owned, Issued
    <3> QED BY <1>4, <3>1
  <2> QED BY <1>1, <2>1, <2>2, <2>3, SameOwner
<1> QED BY <1>1, <1>6, <1>7, OwnersMove

-----------------------------------------------------------------------------
(***************************************************************************)
(* What the caller has returned, against the input.                        *)
(***************************************************************************)

\* The event of u that the caller holds.
LEMMA EventIs ==
  ASSUME Running, NEW u \in Venues, AtEvent(u)
  PROVE  /\ pending[u] \in Start(u) .. Due(u) - 1 /\ pending[u] \in 1 .. Size(u)
         /\ Due(u) \in Start(u) .. Size(u) + 1 /\ GoodTo(u, Due(u) - 1)
         /\ keys[u - 1] = keyOf(u, pending[u]) /\ keys[u - 1] \in KeyType
         /\ Before(keys[u - 1], SentinelKey) /\ keys[u - 1] # SentinelKey
         /\ keys[u - 1][2] = data.ids[u] /\ Got(u) = pending[u]
<1> USE DEF Running
<1>0. Size(u) \in Nat /\ Start(u) \in 1 .. Size(u) + 1
  BY RecordsOf, StartIs
<1>1. Due(u) \in Start(u) .. Size(u) + 1 /\ GoodTo(u, Due(u) - 1)
  BY DEF RunInv, CallerOk
<1>2. pending[u] \in Start(u) .. Size(u) /\ keys[u - 1] = keyOf(u, pending[u])
  BY DEF AtEvent
<1>3. pending[u] \in 1 .. Size(u)
  BY <1>0, <1>2
<1>4. pending[u] \in Start(u) .. Due(u) - 1
  <2>1. CASE held[u] # 0 /\ pending[u] <= batch[u][held[u]].last /\ batch[u][held[u]].last = Due(u) - 1
    BY <1>0, <1>1, <1>2, <1>3, <2>1
  <2>2. CASE held[u] = 0 /\ ~inline
    <3>1. Due(u) = pending[u] + 1
      BY <1>3, <2>2 DEF Due
    <3> QED BY <1>0, <1>2, <1>3, <3>1
  <2> QED BY <2>1, <2>2 DEF AtEvent
<1>5. keys[u - 1] \in KeyType /\ Before(keys[u - 1], SentinelKey)
  BY <1>2, <1>3, RecordsOf
<1>6. keys[u - 1] # SentinelKey
  BY <1>5, KeyOrder
<1>7. keys[u - 1][2] = data.ids[u]
  <2>1. Good(u, pending[u])
    BY <1>1, <1>4 DEF GoodTo
  <2> QED BY <1>2, <2>1, GoodIs
<1>8. Got(u) = pending[u]
  BY <1>6 DEF Got
<1> QED BY <1>1, <1>2, <1>3, <1>4, <1>5, <1>6, <1>7, <1>8

\* The tree's winner.
LEMMA WinnerIs ==
  ASSUME Running, mpc \in {"idle", "nextRecv"}
  PROVE  /\ tree[0] \in Cursors /\ keys[tree[0]] \in KeyType /\ SentinelKey \in KeyType
         /\ \A i \in Cursors : ~Before(keys[i], keys[tree[0]])
         /\ \A u \in Venues : u - 1 \in Cursors /\ keys[u - 1] \in KeyType
         /\ \A u \in Venues : AtEvent(u) \/ AtEnd(u)
         /\ keys[tree[0]] # SentinelKey =>
              Winner \in Venues /\ AtEvent(Winner) /\ keys[tree[0]] = keys[Winner - 1]
<1> USE DEF Running
<1>0. K \in Nat
  BY DEF MergeInv, Shaped
<1>1. keys \in [Cursors -> KeyType] /\ (\A i \in Cursors : i >= K => keys[i] = SentinelKey)
      /\ Sorted(tree, keys)
  BY DEF RunInv, TreeOk
<1>2. tree[0] \in Cursors /\ \A i \in Cursors : ~Before(keys[i], keys[tree[0]])
  BY <1>0, <1>1, SmallestWins
<1>3. \A u \in Venues : u - 1 \in Cursors /\ Primed(u)
  BY <1>0, TreeShape DEF Venues, Cursors, Primed
<1>4. \A u \in Venues : AtEvent(u) \/ AtEnd(u)
  BY <1>3 DEF RunInv, CallerOk
<1>5. SentinelKey \in KeyType
  BY MergeAssumption
<1>6. ASSUME keys[tree[0]] # SentinelKey
      PROVE  Winner \in Venues /\ AtEvent(Winner) /\ keys[tree[0]] = keys[Winner - 1]
  <2>1. tree[0] \in Nat /\ tree[0] < K
    BY <1>0, <1>1, <1>2, <1>6, TreeShape DEF Cursors
  <2>2. Winner \in Venues /\ Winner - 1 = tree[0]
    BY <1>0, <2>1 DEF Winner, Venues
  <2> QED BY <1>4, <1>6, <2>2 DEF AtEnd
<1> QED BY <1>1, <1>2, <1>3, <1>4, <1>5, <1>6

\* Valid records with a key before the winner's were returned.
LEMMA AllBefore ==
  ASSUME Running, mpc \in {"idle", "nextRecv"}, NEW e \in Valid, Before(EventKey(e), keys[tree[0]])
  PROVE  e \in ToSet(emitted)
<1> USE DEF Running
<1>0. PICK u \in Venues : \E p \in Start(u) .. Size(u) : e = <<u, p>> /\ GoodTo(u, p)
  BY ValidIs
<1>1. PICK p \in Start(u) .. Size(u) : e = <<u, p>> /\ GoodTo(u, p)
  BY <1>0
<1>2. EventKey(e) = keyOf(u, p)
  BY <1>1 DEF EventKey
<1>3. Size(u) \in Nat /\ Start(u) \in 1 .. Size(u) + 1
  BY RecordsOf, StartIs
<1>4. Returned(u)
  BY DEF RunInv, EmittedOk, Primed
<1>5. p \in Start(u) .. Got(u) - 1
  <2>1. CASE AtEnd(u)
    BY <1>3, <2>1 DEF AtEnd, Got
  <2>2. CASE AtEvent(u)
    <3>1. /\ pending[u] \in 1 .. Size(u) /\ keys[u - 1] = keyOf(u, pending[u]) /\ Got(u) = pending[u]
          /\ pending[u] \in Start(u) .. Due(u) - 1
      BY <2>2, EventIs
    <3>2. ~Before(keyOf(u, pending[u]), keys[tree[0]]) /\ keys[tree[0]] \in KeyType
      BY <3>1, WinnerIs
    <3>3. keyOf(u, p) \in KeyType /\ keyOf(u, pending[u]) \in KeyType
      BY <1>3, <3>1, RecordsOf
    <3>4. p # pending[u]
      BY <1>2, <3>2
    <3>5. ASSUME pending[u] < p PROVE FALSE
      <4>1. pending[u] \in Start(u) .. p /\ p \in Start(u) .. p /\ p \in 0 .. Size(u)
        BY <1>3, <3>1, <3>5
      <4>2. Before(keyOf(u, pending[u]), keyOf(u, p))
        BY <1>1, <3>5, <4>1, GoodKeysAscend
      <4> QED BY <1>2, <3>2, <3>3, <4>2, KeyOrder
    <3> QED BY <1>3, <3>1, <3>4, <3>5
  <2> QED BY <2>1, <2>2, WinnerIs
<1> QED BY <1>1, <1>4, <1>5 DEF Returned

\* What was returned has keys before the winner's.
LEMMA EarlierKeys ==
  ASSUME Running, PrefixOfMerge, mpc \in {"idle", "nextRecv"}, NEW e \in ToSet(emitted)
  PROVE  Before(EventKey(e), keys[tree[0]]) /\ e \in Valid /\ EventKey(e) \in KeyType
<1> USE DEF Running
<1> DEFINE n == Len(emitted)
           T == {i \in Int : Before(EventKey(emitted[i]), keys[tree[0]])}
<1>1. emitted \in Seq(ToSet(emitted)) /\ n \in Nat /\ DOMAIN emitted = 1 .. n
  BY LenProperties DEF RunInv, EmittedOk
<1>2. PICK i \in 1 .. n : e = emitted[i]
  BY <1>1 DEF ToSet
<1>3. \A j \in 1 .. n : emitted[j] \in Valid
  BY <1>1, ElementOfSeq DEF PrefixOfMerge
<1>4. \A j \in 1 .. n : EventKey(emitted[j]) \in KeyType
  <2>1. ASSUME NEW j \in 1 .. n PROVE EventKey(emitted[j]) \in KeyType
    <3>0. PICK u \in Venues : \E p \in Start(u) .. Size(u) : emitted[j] = <<u, p>>
      BY <1>3, ValidIs
    <3>1. PICK p \in Start(u) .. Size(u) : emitted[j] = <<u, p>>
      BY <3>0
    <3>2. p \in 1 .. Size(u)
      BY RecordsOf, StartIs
    <3> QED BY <3>1, <3>2, RecordsOf DEF EventKey
  <2> QED BY <2>1
<1>5. keys[tree[0]] \in KeyType
  BY WinnerIs
<1>6. n \in T /\ 1 \in Int /\ n \in Int
  <2>1. emitted # <<>>
    BY <1>1, <1>2, EmptySeq
  <2> QED BY <1>1, <2>1 DEF RunInv, EmittedOk
<1>7. ASSUME NEW d \in 1 .. n - 1, d + 1 \in T PROVE d \in T
  <2>1. Before(EventKey(emitted[d]), EventKey(emitted[d + 1])) /\ Before(EventKey(emitted[d + 1]), keys[tree[0]])
    BY <1>7 DEF PrefixOfMerge
  <2>2. EventKey(emitted[d]) \in KeyType /\ EventKey(emitted[d + 1]) \in KeyType
    BY <1>1, <1>4
  <2>3. Before(EventKey(emitted[d]), keys[tree[0]])
    BY <1>5, <2>1, <2>2, KeyOrder
  <2> QED BY <2>3
<1>8. \A d \in 1 .. n : d \in T
  <2> HIDE DEF T, n
  <2> QED BY <1>6, <1>7, DownFrom
<1> QED BY <1>2, <1>3, <1>4, <1>8

\* A fault in the batch that begins at d: the run has to stop before that batch.
FaultAhead(v) ==
  \E e \in Due(v) .. Due(v) + shape.records - 1 :
    (inline \/ e <= FileEnd(v, Due(v))) /\ \E p \in Due(v) .. e : p <= Size(v) /\ ~Good(v, p)

LEMMA FaultStops ==
  ASSUME Running, NEW v \in Venues, FaultAhead(v)
  PROVE  Faults(v) # {} /\ LastGood(v) = Due(v) - 1
<1> USE DEF Running
<1>0. Size(v) \in Nat /\ Start(v) \in 1 .. Size(v) + 1
  BY RecordsOf, StartIs
<1>1. Due(v) \in Start(v) .. Size(v) + 1 /\ GoodTo(v, Due(v) - 1) /\ CutAt(v, Due(v))
  BY DEF RunInv, CallerOk
<1>2. PICK d : d = Due(v)
  OBVIOUS
<1>3. PICK e \in d .. d + shape.records - 1 :
        (inline \/ e <= FileEnd(v, d)) /\ \E p \in d .. e : p <= Size(v) /\ ~Good(v, p)
  BY <1>2 DEF FaultAhead
<1>4. PICK p \in d .. e : p <= Size(v) /\ ~Good(v, p)
  BY <1>3
<1>5. p \in Start(v) .. Size(v)
  BY <1>0, <1>1, <1>2, <1>4
<1>6. Faults(v) # {}
  BY <1>4, <1>5, FaultsAre
<1>7. d \in Start(v) .. Size(v) + 1 /\ CutAt(v, d) /\ GoodTo(v, d - 1)
  BY <1>1, <1>2
<1>8. LastGood(v) = d - 1
  BY <1>3, <1>4, <1>6, <1>7, LastGoodIs
<1> QED BY <1>2, <1>6, <1>8

\* A venue with a fault ahead is not at its end, and its event is a good one.
LEMMA FaultAfterEvent ==
  ASSUME Running, NEW u \in Venues, Faults(u) # {}
  PROVE  ~AtEnd(u)
<1> USE DEF Running
<1>0. Size(u) \in Nat /\ Start(u) \in 1 .. Size(u) + 1
  BY RecordsOf, StartIs
<1> SUFFICES ASSUME AtEnd(u) PROVE FALSE
  OBVIOUS
<1>1. Due(u) = Size(u) + 1 /\ GoodTo(u, Due(u) - 1)
  BY DEF AtEnd, RunInv, CallerOk
<1>2. GoodTo(u, Size(u))
  BY <1>0, <1>1
<1> QED BY <1>2, NoFaults

\* Next fails on a fault of the winner after what came before it.
LEMMA FailedNext ==
  ASSUME Running, PrefixOfMerge, mpc \in {"idle", "nextRecv"}, keys[tree[0]] # SentinelKey,
         FaultAhead(Winner), Due(Winner) = pending[Winner] + 1
  PROVE  ToSet(emitted) = UpToFault
<1> USE DEF Running
<1>1. PICK w \in Venues : w = Winner
  BY WinnerIs
<1>2. /\ AtEvent(w) /\ keys[tree[0]] = keys[w - 1] /\ keys[w - 1] = keyOf(w, pending[w])
      /\ pending[w] \in Start(w) .. Due(w) - 1 /\ pending[w] \in 1 .. Size(w)
      /\ Due(w) \in Start(w) .. Size(w) + 1
  BY <1>1, WinnerIs, EventIs
<1>3. Faults(w) # {} /\ LastGood(w) = pending[w]
  BY <1>1, <1>2, FaultStops
<1>4. ASSUME NEW e \in ToSet(emitted), NEW u \in Venues, Faults(u) # {}
      PROVE  LastGood(u) \in Wanted(u) /\ Before(EventKey(e), keyOf(u, LastGood(u)))
  <2>0. Size(u) \in Nat /\ Start(u) \in 1 .. Size(u) + 1 /\ Wanted(u) = Start(u) .. Size(u)
    BY RecordsOf, StartIs
  <2>1. AtEvent(u)
    BY <1>4, WinnerIs, FaultAfterEvent
  <2>2. /\ pending[u] \in Start(u) .. Due(u) - 1 /\ pending[u] \in 1 .. Size(u)
        /\ Due(u) \in Start(u) .. Size(u) + 1 /\ GoodTo(u, Due(u) - 1)
        /\ keys[u - 1] = keyOf(u, pending[u])
    BY <2>1, EventIs
  <2>3. CutAt(u, Due(u))
    BY DEF RunInv, CallerOk
  <2>4. LastGood(u) \in Due(u) - 1 .. Size(u) - 1 /\ GoodTo(u, LastGood(u))
    BY <1>4, <2>2, <2>3, LastGoodIs
  <2>5. /\ LastGood(u) \in Start(u) .. Size(u) /\ LastGood(u) \in 1 .. Size(u)
        /\ pending[u] <= LastGood(u) /\ LastGood(u) \in 0 .. Size(u)
    BY <2>0, <2>2, <2>4
  <2>6. ~Before(keyOf(u, pending[u]), keys[tree[0]]) /\ keys[tree[0]] \in KeyType
    BY <2>2, WinnerIs
  <2>7. Before(EventKey(e), keys[tree[0]]) /\ EventKey(e) \in KeyType
    BY <1>4, EarlierKeys
  <2>8. keyOf(u, pending[u]) \in KeyType /\ keyOf(u, LastGood(u)) \in KeyType
    BY <2>2, <2>5, RecordsOf
  <2>9. Before(EventKey(e), keyOf(u, pending[u]))
    BY <2>6, <2>7, <2>8, KeyOrder
  <2>10. CASE pending[u] = LastGood(u)
    BY <2>0, <2>5, <2>9, <2>10
  <2>11. CASE pending[u] # LastGood(u)
    <3>1. /\ pending[u] \in Start(u) .. LastGood(u) /\ LastGood(u) \in Start(u) .. LastGood(u)
          /\ pending[u] < LastGood(u)
      BY <2>0, <2>2, <2>5, <2>11
    <3>2. Before(keyOf(u, pending[u]), keyOf(u, LastGood(u)))
      BY <2>4, <2>5, <3>1, GoodKeysAscend
    <3> QED BY <2>0, <2>5, <2>7, <2>8, <2>9, <3>2, KeyOrder
  <2> QED BY <2>10, <2>11
<1>5. ASSUME NEW e \in UpToFault PROVE e \in ToSet(emitted)
  <2>1. e \in Valid /\ Before(EventKey(e), keyOf(w, LastGood(w)))
    BY <1>3, <1>5 DEF UpToFault
  <2>2. Before(EventKey(e), keys[tree[0]])
    BY <1>2, <1>3, <2>1
  <2> QED BY <2>1, <2>2, AllBefore
<1>6. \A e \in ToSet(emitted) : e \in Valid
  BY DEF PrefixOfMerge
<1> QED BY <1>4, <1>5, <1>6 DEF UpToFault

\* The constructor fails on a fault in a venue's first batch: nothing was returned.
LEMMA FailedSeed ==
  ASSUME Running, mpc \in {"seed", "seedRecv"}, NEW v \in Venues, FaultAhead(v), Due(v) = Start(v)
  PROVE  ToSet(emitted) = UpToFault
<1> USE DEF Running
<1>0. Size(v) \in Nat /\ Start(v) \in 1 .. Size(v) + 1 /\ Wanted(v) = Start(v) .. Size(v)
  BY RecordsOf, StartIs
<1>1. Faults(v) # {} /\ LastGood(v) = Start(v) - 1
  BY FaultStops
<1>2. LastGood(v) \notin Wanted(v)
  BY <1>0, <1>1
<1>3. UpToFault = {}
  BY <1>1, <1>2 DEF UpToFault
<1>4. emitted = <<>>
  BY DEF RunInv, EmittedOk
<1> QED BY <1>3, <1>4, EmptyOnce

\* A clean end: every record was returned, and none of them has a fault.
LEMMA CleanEnd ==
  ASSUME Running, PrefixOfMerge, mpc = "idle", keys[tree[0]] = SentinelKey
  PROVE  (\A v \in Venues : Faults(v) = {}) /\ ToSet(emitted) = Valid
<1> USE DEF Running
<1>1. ASSUME NEW v \in Venues PROVE Faults(v) = {} /\ Returned(v) /\ Got(v) = Size(v) + 1
  <2>1. AtEnd(v)
    <3> SUFFICES ASSUME AtEvent(v) PROVE FALSE
      BY WinnerIs
    <3>1. Before(keys[v - 1], keys[tree[0]])
      BY EventIs
    <3> QED BY <3>1, WinnerIs
  <2>2. Returned(v)
    BY DEF RunInv, EmittedOk, Primed
  <2> QED BY <2>1, <2>2, FaultAfterEvent DEF AtEnd, Got
<1>2. ASSUME NEW e \in Valid PROVE e \in ToSet(emitted)
  <2>1. PICK u \in Venues : \E p \in Start(u) .. Size(u) : e = <<u, p>>
    BY ValidIs
  <2>2. PICK p \in Start(u) .. Size(u) : e = <<u, p>>
    BY <2>1
  <2>3. p \in Start(u) .. Got(u) - 1
    BY <1>1, <2>2, RecordsOf, StartIs
  <2> QED BY <1>1, <2>2, <2>3 DEF Returned
<1>3. \A e \in ToSet(emitted) : e \in Valid
  BY DEF PrefixOfMerge
<1> QED BY <1>1, <1>2, <1>3

-----------------------------------------------------------------------------
(***************************************************************************)
(* What a step leaves of the results.                                      *)
(***************************************************************************)

LEMMA SameResults ==
  ASSUME UNCHANGED input
  PROVE  /\ Valid' = Valid /\ UpToFault' = UpToFault /\ Venues' = Venues
         /\ \A v : Faults(v)' = Faults(v)
         /\ \A e : EventKey(e)' = EventKey(e)
<1>0. Venues' = Venues /\ inline' = inline /\ shape' = shape /\ seek' = seek
  BY SameInput DEF input
<1>1. \A v : Positions(v)' = Positions(v)
  BY DEF input, Positions
<1>2. \A v : Wanted(v)' = Wanted(v)
  BY <1>0, <1>1, SameFiles DEF Wanted
<1>3. \A v : Faults(v)' = Faults(v)
  BY <1>2, SameFiles DEF Faults
<1>4. Valid' = Valid
  BY <1>0, <1>2, <1>3 DEF Valid
<1>5. \A e : EventKey(e)' = EventKey(e)
  BY SameFiles DEF EventKey
<1>6. \A v : LastGood(v)' = LastGood(v)
  <2> SUFFICES ASSUME NEW v PROVE LastGood(v)' = LastGood(v)
    OBVIOUS
  <2>1. LastGood(v)' = Min(Faults(v)')
          - ((Min(Faults(v)') - Base(v, Min(Faults(v)))') % shape'.records) - 1
    BY Zenon DEF LastGood, Base
  <2>2. Base(v, Min(Faults(v)))' = Base(v, Min(Faults(v)))
    BY <1>3, SameFiles
  <2> QED BY <1>0, <1>3, <2>1, <2>2, LastGoodDef
<1>7. UpToFault' = UpToFault
  BY <1>0, <1>2, <1>3, <1>4, <1>5, <1>6, SameFiles DEF UpToFault
<1> QED BY <1>0, <1>3, <1>4, <1>5, <1>7

\* A step that returns nothing.
LEMMA SamePrefix ==
  ASSUME UNCHANGED <<input, emitted>>, PrefixOfMerge
  PROVE  PrefixOfMerge'
BY SameResults DEF PrefixOfMerge

LEMMA SameStop ==
  ASSUME UNCHANGED <<input, emitted, merr>>, StopsWhereTheInputSays, mpc' = "ended" => mpc = "ended"
  PROVE  StopsWhereTheInputSays'
BY SameResults DEF StopsWhereTheInputSays

-----------------------------------------------------------------------------
(***************************************************************************)
(* An event arrives at the caller.                                         *)
(***************************************************************************)

\* feed.next returns the event at n, or the end of the venue.
Arrives(v, n) ==
  /\ n \in Start(v) .. Size(v) + 1
  /\ Due(v)' \in Start(v) .. Size(v) + 1 /\ GoodTo(v, Due(v)' - 1) /\ CutAt(v, Due(v)')
  /\ inline => held'[v] # 0
  /\ n = Size(v) + 1 => Due(v)' = Size(v) + 1
  /\ n # Size(v) + 1 => /\ held'[v] # 0 /\ pos'[v] = n + 1 /\ n <= Due(v)' - 1
                        /\ batch'[v][held'[v]].last = Due(v)' - 1

KeyAt(v, n) == IF n = Size(v) + 1 THEN SentinelKey ELSE keyOf(v, n)
At(v, n) == IF n = Size(v) + 1 THEN 0 ELSE n

\* The step concerns v only.
Elsewhere(v) ==
  \A u \in Venues : u # v => /\ held'[u] = held[u] /\ pos'[u] = pos[u] /\ opos'[u] = opos[u]
                             /\ batch'[u] = batch[u]

LEMMA ArrivalOk ==
  ASSUME Running, UNCHANGED input, NEW v \in Venues, NEW n, Arrives(v, n), keys'[v - 1] = KeyAt(v, n),
         n # Size(v) + 1 => pending'[v] = n, Primed(v)'
  PROVE  CallerOk(v)'
<1> USE DEF Running
<1>0. Size(v) \in Nat /\ Start(v) \in 1 .. Size(v) + 1
  BY RecordsOf, StartIs
<1>1. Size(v)' = Size(v) /\ Start(v)' = Start(v) /\ inline' = inline
  BY SameFiles, SameInput
<1>2. CASE n = Size(v) + 1
  <2>1. AtEnd(v)'
    BY <1>1, <1>2 DEF AtEnd, Arrives, KeyAt
  <2> QED BY <1>1, <2>1, SameGood DEF CallerOk, Arrives
<1>3. CASE n # Size(v) + 1
  <2>1. n \in Start(v) .. Size(v)
    BY <1>0, <1>3 DEF Arrives
  <2>2. keyOf(v, n)' = keyOf(v, n) /\ pending'[v] = n
    BY <1>3, SameFiles
  <2>3. AtEvent(v)'
    BY <1>1, <1>3, <2>1, <2>2 DEF AtEvent, Arrives, KeyAt
  <2> QED BY <1>1, <2>3, SameGood DEF CallerOk, Arrives
<1> QED BY <1>2, <1>3

LEMMA OthersOk ==
  ASSUME Running, UNCHANGED input, NEW v, NEW u \in Venues, u # v, Elsewhere(v),
         pending'[u] = pending[u], keys'[u - 1] = keys[u - 1], Primed(u)' = Primed(u),
         mpc # "nextRecv" \/ ask # u, mpc # "new"
  PROVE  CallerOk(u)'
<1> USE DEF Running
<1>1. inline' = inline /\ Size(u)' = Size(u) /\ Start(u)' = Start(u)
  BY SameInput, SameFiles
<1>2. held'[u] = held[u] /\ pos'[u] = pos[u] /\ opos'[u] = opos[u] /\ batch'[u] = batch[u]
  BY DEF Elsewhere
<1>3. Due(u)' = Due(u) /\ CallerOk(u)
  BY <1>2, SameDue DEF RunInv
<1>4. AtEvent(u) => AtEvent(u)'
  BY <1>1, <1>2, <1>3, SameFiles DEF AtEvent
<1>5. AtEnd(u) => AtEnd(u)'
  BY <1>1, <1>3 DEF AtEnd
<1>6. Untouched(u) => Untouched(u)'
  BY <1>1, <1>2, <1>3 DEF Untouched
<1>7. GoodTo(u, Due(u) - 1)' /\ CutAt(u, Due(u))'
  BY <1>3, SameGood DEF CallerOk
<1> QED BY <1>1, <1>2, <1>3, <1>4, <1>5, <1>6, <1>7 DEF CallerOk

\* What Deliver writes.
LEMMA DeliverIs ==
  ASSUME Running, NEW v \in Venues, NEW n, n \in Start(v) .. Size(v) + 1, NEW sd \in BOOLEAN,
         Deliver(sd, v, At(v, n))
  PROVE  /\ keys' = [keys EXCEPT ![v - 1] = KeyAt(v, n)]
         /\ keys' \in [Cursors -> KeyType] /\ keys'[v - 1] = KeyAt(v, n) /\ KeyAt(v, n) \in KeyType
         /\ \A i \in Cursors : i # v - 1 => keys'[i] = keys[i]
         /\ \A u \in Venues : u # v => keys'[u - 1] = keys[u - 1] /\ pending'[u] = pending[u]
         /\ n # Size(v) + 1 => pending'[v] = n
         /\ \A i \in Cursors : i >= K => keys'[i] = SentinelKey
<1> USE DEF Running
<1>0. /\ Size(v) \in Nat /\ Start(v) \in 1 .. Size(v) + 1 /\ K \in Nat
      /\ \A p \in 1 .. Size(v) : keyOf(v, p) \in KeyType
  BY RecordsOf, StartIs DEF MergeInv, Shaped
<1>1. n # 0 /\ (n = Size(v) + 1 \/ n \in 1 .. Size(v))
  BY <1>0
<1>2. KeyAt(v, n) \in KeyType
  BY <1>0, <1>1, MergeAssumption DEF KeyAt
<1>3. keys' = [keys EXCEPT ![v - 1] = KeyAt(v, n)]
  <2>1. keys' = [keys EXCEPT ![v - 1] = IF At(v, n) = 0 THEN SentinelKey ELSE keyOf(v, At(v, n))]
    BY DEF Deliver
  <2> QED BY <1>1, <2>1 DEF At, KeyAt
<1>4. keys \in [Cursors -> KeyType] /\ \A i \in Cursors : i >= K => keys[i] = SentinelKey
  BY DEF RunInv, TreeOk
<1>5. \A u \in Venues : u - 1 \in Cursors /\ ~(u - 1 >= K) /\ u \in Int
  BY <1>0, TreeShape DEF Cursors, Venues
<1>6. keys' \in [Cursors -> KeyType] /\ keys'[v - 1] = KeyAt(v, n)
      /\ \A i \in Cursors : i # v - 1 => keys'[i] = keys[i]
  BY <1>2, <1>3, <1>4, <1>5
<1>7. \A u \in Venues : u # v => keys'[u - 1] = keys[u - 1]
  BY <1>5, <1>6
<1>8. \A i \in Cursors : i >= K => keys'[i] = SentinelKey
  BY <1>4, <1>5, <1>6
<1>9. pending' = IF At(v, n) = 0 THEN pending ELSE [pending EXCEPT ![v] = At(v, n)]
  BY DEF Deliver
<1>10. (\A u \in Venues : u # v => pending'[u] = pending[u]) /\ (n # Size(v) + 1 => pending'[v] = n)
  BY <1>1, <1>9 DEF At, Indexed
<1> QED BY <1>2, <1>3, <1>6, <1>7, <1>8, <1>10

\* The key of a venue, and the first position that was not returned.
LEMMA GotIs ==
  ASSUME Running, UNCHANGED input, NEW v \in Venues, NEW n, n \in Start(v) .. Size(v) + 1,
         keys'[v - 1] = KeyAt(v, n), n # Size(v) + 1 => pending'[v] = n
  PROVE  Got(v)' = n
<1> USE DEF Running
<1>1. Size(v)' = Size(v) /\ Size(v) \in Nat /\ Start(v) \in 1 .. Size(v) + 1
  BY SameFiles, RecordsOf, StartIs
<1>2. n # Size(v) + 1 => KeyAt(v, n) # SentinelKey
  <2> SUFFICES ASSUME n # Size(v) + 1 PROVE KeyAt(v, n) # SentinelKey
    OBVIOUS
  <2>1. n \in 1 .. Size(v)
    BY <1>1
  <2>2. keyOf(v, n) \in KeyType /\ Before(keyOf(v, n), SentinelKey)
    BY <2>1, RecordsOf
  <2>3. keyOf(v, n) # SentinelKey
    BY <2>2, KeyOrder
  <2> QED BY <2>3 DEF KeyAt
<1> QED BY <1>1, <1>2 DEF Got, KeyAt

LEMMA SeedArrives ==
  ASSUME Running, UNCHANGED <<input, abort>>, mpc \in {"seed", "seedRecv"}, NEW v \in Venues, ask = v,
         Elsewhere(v), NEW n, n = Start(v), Arrives(v, n), Deliver(TRUE, v, At(v, n)),
         ~inline => \A u \in Venues : OwnerOk(u)'
  PROVE  RunInv' /\ merr' = merr /\ emitted' = emitted /\ mpc' = "seed"
<1> USE DEF Running
<1>0. K \in Nat /\ Venues = 1 .. K /\ v \in 1 .. K
  BY DEF MergeInv, Shaped, Venues
<1>1. inline' = inline /\ Venues' = Venues /\ K' = K
  BY SameInput
<1>2. ask' = v + 1 /\ mpc' = "seed" /\ UNCHANGED <<tree, merr, emitted>>
  BY DEF Deliver
<1>3. /\ keys' \in [Cursors -> KeyType] /\ keys'[v - 1] = KeyAt(v, n)
      /\ \A u \in Venues : u # v => keys'[u - 1] = keys[u - 1] /\ pending'[u] = pending[u]
      /\ n # Size(v) + 1 => pending'[v] = n
      /\ \A i \in Cursors : i >= K => keys'[i] = SentinelKey
  <2>1. n \in Start(v) .. Size(v) + 1
    BY DEF Arrives
  <2> QED BY <2>1, DeliverIs
<1>4. \A u \in Venues : u # v => Primed(u)' = Primed(u)
  BY <1>0, <1>2 DEF Primed
<1>5. Primed(v)'
  BY <1>0, <1>2 DEF Primed
<1>6. CallerOk(v)'
  BY <1>3, <1>5, ArrivalOk
<1>7. \A u \in Venues : u # v => CallerOk(u)'
  BY <1>3, <1>4, OthersOk
<1>8. TreeOk'
  BY <1>0, <1>1, <1>2, <1>3, SameTree DEF TreeOk
<1>9. EmittedOk'
  <2>1. emitted = <<>> /\ emitted' = <<>> /\ ToSet(<<>>) = {}
    BY <1>2, EmptyOnce DEF RunInv, EmittedOk
  <2>2. \A u \in Venues : u # v /\ Primed(u)' => Returned(u)'
    <3> SUFFICES ASSUME NEW u \in Venues, u # v, Primed(u)' PROVE Returned(u)'
      OBVIOUS
    <3>1. Got(u)' = Got(u) /\ Start(u)' = Start(u)
      BY <1>3, SameFiles DEF Got
    <3>2. Returned(u)
      BY <1>4 DEF RunInv, EmittedOk
    <3> QED BY <1>2, <3>1, <3>2 DEF Returned
  <2>3. Returned(v)'
    <3>1. Got(v)' = n
      BY <1>3, GotIs DEF Arrives
    <3>2. Start(v)' = n /\ n \in Int
      BY SameFiles, RecordsOf, StartIs
    <3>3. \A p : p \notin n .. n - 1
      BY <3>2
    <3> QED BY <2>1, <3>1, <3>2, <3>3 DEF Returned
  <2> QED BY <1>1, <1>2, <2>1, <2>2, <2>3 DEF RunInv, EmittedOk
<1>10. Distinct' = Distinct
  BY <1>1 DEF Distinct, input
<1> QED BY <1>1, <1>2, <1>6, <1>7, <1>8, <1>9, <1>10 DEF RunInv

\* The next winner's key is past the last one's.
LEMMA NextKeyIsLater ==
  ASSUME Running, UNCHANGED input, mpc \in {"idle", "nextRecv"}, keys[tree[0]] # SentinelKey,
         NEW v \in Venues, v = Winner, NEW n, n = pending[v] + 1, Arrives(v, n), keys'[v - 1] = KeyAt(v, n),
         \A u \in Venues : u # v => keys'[u - 1] = keys[u - 1],
         NEW i \in Cursors, \A j \in Cursors : j >= K => keys'[j] = SentinelKey
  PROVE  Before(keys[v - 1], keys'[i]) /\ keys[v - 1] \in KeyType
<1> USE DEF Running
<1>0. /\ AtEvent(v) /\ keys[tree[0]] = keys[v - 1] /\ Distinct
      /\ keys[v - 1] \in KeyType /\ Before(keys[v - 1], SentinelKey)
      /\ keys[v - 1] = keyOf(v, pending[v]) /\ pending[v] \in Start(v) .. Due(v) - 1
      /\ pending[v] \in 1 .. Size(v) /\ keys[v - 1][2] = data.ids[v]
  BY WinnerIs, EventIs DEF RunInv
<1>1. Size(v) \in Nat /\ Start(v) \in 1 .. Size(v) + 1 /\ K \in Nat
  BY RecordsOf, StartIs DEF MergeInv, Shaped
<1>2. CASE keys'[i] = SentinelKey
  BY <1>0, <1>2
<1>3. CASE keys'[i] # SentinelKey
  <2>1. PICK u \in Venues : i = u - 1
    <3>1. i \in Nat /\ i < K
      BY <1>1, <1>3, TreeShape DEF Cursors
    <3>2. i + 1 \in Venues /\ i = (i + 1) - 1
      BY <1>1, <3>1 DEF Venues
    <3> QED BY <3>2
  <2>2. CASE u = v
    <3>1. n # Size(v) + 1 /\ keys'[i] = keyOf(v, n)
      BY <1>3, <2>1, <2>2 DEF KeyAt
    <3>2. n <= Due(v)' - 1 /\ Due(v)' \in Start(v) .. Size(v) + 1 /\ GoodTo(v, Due(v)' - 1)
      BY <3>1 DEF Arrives
    <3>3. PICK m : m = Due(v)' - 1
      OBVIOUS
    <3>4. m \in 0 .. Size(v) /\ pending[v] \in Start(v) .. m /\ n \in Start(v) .. m /\ pending[v] < n
          /\ GoodTo(v, m)
      BY <1>0, <1>1, <3>2, <3>3
    <3>5. Before(keyOf(v, pending[v]), keyOf(v, n))
      BY <3>4, GoodKeysAscend
    <3> QED BY <1>0, <3>1, <3>5
  <2>3. CASE u # v
    <3>1. keys'[i] = keys[u - 1] /\ AtEvent(u)
      BY <1>3, <2>1, <2>3, WinnerIs DEF AtEnd
    <3>2. keys[u - 1] \in KeyType /\ keys[u - 1][2] = data.ids[u]
      BY <3>1, EventIs
    <3>3. keys[u - 1] # keys[v - 1]
      BY <1>0, <2>3, <3>2 DEF Distinct
    <3>4. ~Before(keys[u - 1], keys[v - 1])
      BY <1>0, WinnerIs
    <3> QED BY <1>0, <3>1, <3>2, <3>3, <3>4, KeyOrder
  <2> QED BY <2>2, <2>3
<1> QED BY <1>0, <1>2, <1>3

\* Returning the winner extends the sorted merge.
LEMMA PrefixGrows ==
  ASSUME Running, PrefixOfMerge, UNCHANGED input, mpc \in {"idle", "nextRecv"},
         keys[tree[0]] # SentinelKey, NEW e, e = <<Winner, pending[Winner]>>,
         emitted' = Append(emitted, e)
  PROVE  /\ PrefixOfMerge'
         /\ emitted' \in Seq(ToSet(emitted')) /\ ToSet(emitted') = ToSet(emitted) \cup {e}
         /\ emitted' # <<>> /\ emitted'[Len(emitted')] = e
<1> USE DEF Running
<1>0. PICK v \in Venues : v = Winner
  BY WinnerIs
<1>1. /\ keys[tree[0]] = keys[v - 1] /\ keys[v - 1] = keyOf(v, pending[v])
      /\ pending[v] \in Start(v) .. Due(v) - 1 /\ Due(v) \in Start(v) .. Size(v) + 1
      /\ GoodTo(v, Due(v) - 1)
  BY <1>0, WinnerIs, EventIs
<1>2. EventKey(e) = keys[tree[0]]
  BY <1>0, <1>1 DEF EventKey
<1>3. e \in Valid
  <2>0. Size(v) \in Nat /\ Start(v) \in 1 .. Size(v) + 1
    BY RecordsOf, StartIs
  <2>1. pending[v] \in Start(v) .. Size(v)
    BY <1>1, <2>0
  <2>2. GoodTo(v, pending[v])
    <3>1. \A p \in Start(v) .. pending[v] : p \in Start(v) .. Due(v) - 1
      BY <1>1, <2>0
    <3> QED BY <1>1, <3>1 DEF GoodTo
  <2> QED BY <1>0, <2>1, <2>2, ValidIs
<1>4. PICK s, n, t : s = emitted /\ n = Len(s) /\ t = Append(s, e)
  OBVIOUS
<1>5. s \in Seq(ToSet(s))
  BY <1>4 DEF RunInv, EmittedOk
<1>6. /\ t \in Seq(ToSet(t)) /\ ToSet(t) = ToSet(s) \cup {e} /\ t # <<>>
      /\ n \in Nat /\ DOMAIN s = 1 .. n /\ Len(t) = n + 1 /\ DOMAIN t = 1 .. n + 1
      /\ t[n + 1] = e /\ \A i \in 1 .. n : t[i] = s[i] /\ s[i] \in ToSet(s)
  <2>1. Extends(t, s, e)
    BY <1>4, <1>5, AppendIs
  <2> QED BY <1>4, <2>1 DEF Extends
<1>7. \A i \in 1 .. n : Before(EventKey(t[i]), EventKey(t[i + 1]))
  <2>1. ASSUME NEW i \in 1 .. n PROVE Before(EventKey(t[i]), EventKey(t[i + 1]))
    <3>1. CASE i = n
      <4>1. Before(EventKey(s[n]), keys[tree[0]])
        BY <1>4, <1>6, <3>1, EarlierKeys
      <4> QED BY <1>2, <1>6, <3>1, <4>1
    <3>2. CASE i # n
      <4>1. i \in 1 .. n - 1 /\ i \in 1 .. n /\ i + 1 \in 1 .. n
        BY <1>6, <3>2
      <4>2. Before(EventKey(s[i]), EventKey(s[i + 1]))
        BY <1>4, <4>1 DEF PrefixOfMerge
      <4> QED BY <1>6, <4>1, <4>2
    <3> QED BY <3>1, <3>2
  <2> QED BY <2>1
<1>8. \A x \in ToSet(t) : x \in Valid
  BY <1>3, <1>4, <1>6 DEF PrefixOfMerge
<1>9. ASSUME NEW x \in Valid, NEW i \in 1 .. n + 1, Before(EventKey(x), EventKey(t[i]))
       PROVE  x \in ToSet(t)
  <2>1. CASE i = n + 1
    <3>1. Before(EventKey(x), keys[tree[0]])
      BY <1>2, <1>6, <1>9, <2>1
    <3> QED BY <1>4, <1>6, <3>1, AllBefore
  <2>2. CASE i # n + 1
    <3>1. i \in 1 .. n /\ i \in DOMAIN emitted /\ t[i] = emitted[i]
      BY <1>4, <1>6, <2>2
    <3>2. x \in ToSet(emitted)
      BY <1>9, <3>1 DEF PrefixOfMerge
    <3> QED BY <1>4, <1>6, <3>2
  <2> QED BY <2>1, <2>2
<1>10. PrefixOfMerge'
  <2>1. emitted' = t /\ Len(t) - 1 = n /\ \A x : EventKey(x)' = EventKey(x)
    BY <1>4, <1>6, SameResults
  <2>2. \A i \in 1 .. Len(emitted') - 1 : Before(EventKey(emitted[i])', EventKey(emitted[i + 1])')
    BY <1>7, <2>1
  <2>3. ToSet(emitted') \subseteq Valid'
    BY <1>8, <2>1, SameResults
  <2>4. \A x \in Valid' : \A i \in DOMAIN emitted' :
          Before(EventKey(x)', EventKey(emitted[i])') => x \in ToSet(emitted')
    BY <1>6, <1>9, <2>1, SameResults
  <2> QED BY <2>2, <2>3, <2>4 DEF PrefixOfMerge
<1> QED BY <1>4, <1>6, <1>10

\* Next returns its winner, and the tree has the next one.
LEMMA NextArrives ==
  ASSUME Running, PrefixOfMerge, UNCHANGED <<input, abort>>, mpc \in {"idle", "nextRecv"},
         keys[tree[0]] # SentinelKey, NEW v \in Venues, v = Winner, Elsewhere(v),
         NEW n, n = pending[v] + 1, Arrives(v, n), Deliver(FALSE, v, At(v, n)),
         ~inline => \A u \in Venues : OwnerOk(u)'
  PROVE  RunInv' /\ merr' = "ok" /\ PrefixOfMerge' /\ mpc' = "idle"
<1> USE DEF Running
<1>0. K \in Nat /\ Venues = 1 .. K /\ v \in 1 .. K
  BY DEF MergeInv, Shaped, Venues
<1>1. inline' = inline /\ Venues' = Venues /\ K' = K /\ Cursors' = Cursors
  BY SameInput, SameTree
<1>2. n \in Start(v) .. Size(v) + 1
  BY DEF Arrives
<1>3. /\ keys' = [keys EXCEPT ![v - 1] = KeyAt(v, n)]
      /\ keys' \in [Cursors -> KeyType] /\ keys'[v - 1] = KeyAt(v, n)
      /\ \A i \in Cursors : i # v - 1 => keys'[i] = keys[i]
      /\ \A u \in Venues : u # v => keys'[u - 1] = keys[u - 1] /\ pending'[u] = pending[u]
      /\ n # Size(v) + 1 => pending'[v] = n
      /\ \A i \in Cursors : i >= K => keys'[i] = SentinelKey
  BY <1>2, DeliverIs
<1>4. /\ tree[0] = v - 1 /\ v - 1 \in Cursors /\ AtEvent(v)
      /\ Sorted(tree, keys)
  <2>1. tree[0] \in Cursors /\ v - 1 \in Cursors /\ AtEvent(v)
    BY WinnerIs
  <2>2. tree[0] \in Int
    BY <1>0, <2>1, TreeShape DEF Cursors
  <2> QED BY <1>0, <2>1, <2>2 DEF Winner, RunInv, TreeOk
<1>5. PICK t : t = fix(tree, keys', v - 1)
  OBVIOUS
<1>6. Sorted(t, keys')
  <2>1. PICK ks, i : ks = keys' /\ i = v - 1
    OBVIOUS
  <2>2. i \in Cursors /\ ks \in [Cursors -> KeyType] /\ Sorted(tree, keys) /\ tree[0] = i
        /\ \A j \in Cursors : j # i => ks[j] = keys[j]
    BY <1>3, <1>4, <2>1
  <2>3. Sorted(fix(tree, ks, i), ks)
    BY <1>0, <2>2, FixSorts
  <2> QED BY <1>5, <2>1, <2>3
<1>7. t[0] \in Cursors
  BY <1>0, <1>3, <1>6, SmallestWins
<1>8. /\ ask' = 0 /\ mpc' = "idle" /\ tree' = t
      /\ merr' = IF keys'[t[0]] = SentinelKey THEN "ok" ELSE checkOrder(keys[v - 1], keys'[t[0]])
      /\ emitted' = IF merr' = "ok" THEN Append(emitted, <<v, pending[v]>>) ELSE emitted
  <2>1. PICK p : p = At(v, n)
    OBVIOUS
  <2>2. Deliver(FALSE, v, p)
    BY <2>1
  <2>3. keys' = [keys EXCEPT ![v - 1] = IF p = 0 THEN SentinelKey ELSE keyOf(v, p)]
    BY <2>2 DEF Deliver
  <2>4. PICK ks : ks = keys'
    OBVIOUS
  <2>5. /\ ask' = 0 /\ mpc' = "idle" /\ tree' = fix(tree, ks, v - 1)
        /\ merr' = IF ks[fix(tree, ks, v - 1)[0]] = SentinelKey THEN "ok"
                   ELSE checkOrder(keys[v - 1], ks[fix(tree, ks, v - 1)[0]])
        /\ emitted' = IF merr' = "ok" THEN Append(emitted, <<v, pending[v]>>) ELSE emitted
    BY <2>2, <2>3, <2>4 DEF Deliver
  <2> QED BY <1>5, <2>4, <2>5
<1>9. Before(keys[v - 1], keys'[t[0]]) /\ keys[v - 1] \in KeyType
  BY <1>3, <1>7, NextKeyIsLater
<1>10. merr' = "ok" /\ emitted' = Append(emitted, <<v, pending[v]>>)
  <2>1. keys'[t[0]] \in KeyType
    BY <1>3, <1>7
  <2>2. checkOrder(keys[v - 1], keys'[t[0]]) = "ok"
    BY <1>9, <2>1, OrderIs
  <2> QED BY <1>8, <2>2
<1>11. PICK e : e = <<v, pending[v]>>
  OBVIOUS
<1>12. /\ PrefixOfMerge'
       /\ emitted' \in Seq(ToSet(emitted')) /\ ToSet(emitted') = ToSet(emitted) \cup {e}
       /\ emitted' # <<>> /\ emitted'[Len(emitted')] = e
  <2>1. emitted' = Append(emitted, e) /\ e = <<Winner, pending[Winner]>>
    BY <1>10, <1>11
  <2> QED BY <2>1, PrefixGrows
<1>13. \A u \in Venues : Primed(u)' /\ Primed(u)
  BY <1>8 DEF Primed
<1>14. CallerOk(v)'
  BY <1>3, <1>13, ArrivalOk
<1>15. \A u \in Venues : u # v => CallerOk(u)'
  <2>1. mpc # "nextRecv" \/ ask = v
    BY DEF RunInv, TreeOk
  <2>2. mpc # "new" /\ \A u \in Venues : Primed(u)' = Primed(u)
    BY <1>8 DEF Primed
  <2>3. ASSUME NEW u \in Venues, u # v PROVE CallerOk(u)'
    <3>1. pending'[u] = pending[u] /\ keys'[u - 1] = keys[u - 1]
      BY <1>3, <2>3
    <3> QED BY <2>1, <2>2, <2>3, <3>1, OthersOk
  <2> QED BY <2>3
<1>16. TreeOk'
  <2>1. Sorted(tree, keys)'
    BY <1>6, <1>8, SameTree
  <2> QED BY <1>1, <1>3, <1>8, <2>1 DEF TreeOk
<1>17. \A u \in Venues : Returned(u)'
  <2>0. \A u \in Venues : Returned(u)
    BY <1>13 DEF RunInv, EmittedOk
  <2>1. ASSUME NEW u \in Venues, u # v PROVE Returned(u)'
    <3>1. Got(u)' = Got(u) /\ Start(u)' = Start(u)
      BY <1>3, <2>1, SameFiles DEF Got
    <3>2. \A p : <<u, p>> # e
      BY <1>11, <2>1
    <3>3. \A p : <<u, p>> \in ToSet(emitted') <=> <<u, p>> \in ToSet(emitted)
      BY <1>12, <3>2
    <3> QED BY <2>0, <3>1, <3>3 DEF Returned
  <2>2. Returned(v)'
    <3>1. Got(v)' = n /\ Start(v)' = Start(v)
      BY <1>2, <1>3, GotIs, SameFiles
    <3>2. Got(v) = pending[v] /\ pending[v] \in Start(v) .. Due(v) - 1 /\ pending[v] \in 1 .. Size(v)
      BY <1>4, EventIs
    <3>3. Start(v) \in Int /\ pending[v] \in Int /\ pending[v] >= Start(v)
      BY <3>2, RecordsOf, StartIs
    <3>4. \A p : p \in Start(v) .. n - 1 <=> p \in Start(v) .. pending[v] - 1 \/ p = pending[v]
      BY <3>3
    <3>5. \A p : <<v, p>> = e <=> p = pending[v]
      BY <1>11
    <3>6. \A p : <<v, p>> \in ToSet(emitted) <=> p \in Start(v) .. pending[v] - 1
      BY <2>0, <3>2 DEF Returned
    <3>7. \A p : <<v, p>> \in ToSet(emitted') <=> p \in Start(v) .. n - 1
      BY <1>12, <3>4, <3>5, <3>6
    <3> QED BY <3>1, <3>7 DEF Returned
  <2> QED BY <2>1, <2>2
<1>18. EmittedOk'
  <2>1. \A x \in ToSet(emitted') : x[1] \in Venues /\ x = <<x[1], x[2]>>
    BY <1>11, <1>12 DEF RunInv, EmittedOk
  <2>2. Before(EventKey(e)', keys'[tree'[0]])
    <3>1. EventKey(e) = keys[v - 1] /\ EventKey(e)' = EventKey(e)
      BY <1>4, <1>11, SameResults DEF EventKey, AtEvent
    <3> QED BY <1>8, <1>9, <3>1
  <2>3. Before(EventKey(emitted[Len(emitted)])', keys'[tree'[0]])
    <3>1. emitted'[Len(emitted')] = e
      BY <1>12
    <3>2. EventKey(emitted[Len(emitted)])' = EventKey(e)'
      BY <3>1 DEF EventKey
    <3> QED BY <2>2, <3>2
  <2> QED BY <1>1, <1>8, <1>12, <1>17, <2>1, <2>3 DEF EmittedOk
<1>19. Distinct'
  BY <1>1 DEF Distinct, input, RunInv
<1>20. ~abort'
  BY DEF RunInv
<1> QED BY <1>1, <1>8, <1>10, <1>12, <1>14, <1>15, <1>16, <1>18, <1>19, <1>20 DEF RunInv

-----------------------------------------------------------------------------
(***************************************************************************)
(* The caller's steps.                                                     *)
(***************************************************************************)

\* What holds of every state: while a run goes on its bookkeeping, and of what it
\* has returned the two properties.
Sound ==
  /\ mpc \in {"new", "seed", "seedRecv", "nextRecv"} => merr = "ok"
  /\ Going => RunInv
  /\ PrefixOfMerge /\ StopsWhereTheInputSays

LEMMA GoesOn ==
  ASSUME RunInv', merr' = "ok", PrefixOfMerge', mpc' # "ended"
  PROVE  Sound'
BY DEF Sound, StopsWhereTheInputSays

LEMMA Fails ==
  ASSUME PrefixOfMerge, UNCHANGED input, NEW sd \in BOOLEAN, NEW e, e # "ok", Fail(sd, e),
         ToSet(emitted) = UpToFault
  PROVE  Sound'
<1>1. emitted' = emitted /\ merr' = e /\ mpc' \in {"failed", "idle"}
  BY DEF Fail
<1>2. PrefixOfMerge'
  BY <1>1, SamePrefix
<1>3. UpToFault' = UpToFault
  BY SameResults
<1>4. ~Going'
  BY <1>1 DEF Going
<1>5. StopsWhereTheInputSays'
  BY <1>1, <1>3 DEF StopsWhereTheInputSays
<1> QED BY <1>1, <1>2, <1>4, <1>5 DEF Sound

\* An owner that a step of the caller leaves alone.
LEMMA OwnerStays ==
  ASSUME Running, UNCHANGED input, ~inline, NEW u \in Venues, Due(u)' = Due(u),
         opc'[u] = opc[u], opos'[u] = opos[u], hand'[u] = hand[u], inflight'[u] = inflight[u],
         olast'[u] = olast[u], batch'[u] = batch[u], Work' = Work
  PROVE  OwnerOk(u)'
<1>1. StandKept(u)
  BY SameStand DEF StandKept
<1>2. OwnerOk(u)
  BY DEF Running, RunInv
<1> QED BY <1>1, <1>2, SameOwner

\* No two venues share an id when there are as many ids as venues.
LEMMA DistinctIds ==
  ASSUME Input, K \in Nat, ~(Cardinality(ToSet(data.ids)) < K)
  PROVE  Distinct
<1>1. PICK s, S, T : s = data.ids /\ S = 1 .. K /\ T = ToSet(s)
  OBVIOUS
<1>2. s \in Seq(Nat) /\ Len(s) = K /\ DOMAIN s = S
  BY <1>1, LenProperties DEF Input, K
<1>3. IsFiniteSet(S) /\ Cardinality(S) = K
  <2>1. /\ IsFiniteSet(1 .. K) /\ Cardinality(1 .. K) = IF 1 > K THEN 0 ELSE K - 1 + 1
    <3>1. 1 \in Int /\ K \in Int
      OBVIOUS
    <3> QED BY <3>1, FS_Interval, Zenon
  <2> QED BY <1>1, <2>1
<1>4. s \in Surjection(S, T)
  <2>1. \A i \in S : s[i] \in T
    BY <1>1, <1>2 DEF ToSet
  <2>2. \A t \in T : \E i \in S : s[i] = t
    BY <1>1, <1>2 DEF ToSet
  <2>3. s \in [S -> T]
    BY <1>1, <1>2, <2>1
  <2> QED BY <2>2, <2>3 DEF Surjection
<1>5. /\ IsFiniteSet(T) /\ Cardinality(T) <= Cardinality(S)
      /\ Cardinality(T) = Cardinality(S) <=> s \in Injection(S, T)
  BY <1>3, <1>4, FS_Surjection
<1>6. Cardinality(T) \in Nat
  BY <1>5, FS_CardinalityType
<1>7. s \in Injection(S, T)
  BY <1>1, <1>3, <1>5, <1>6
<1>8. \A i, j \in S : s[i] = s[j] => i = j
  BY <1>7 DEF Injection, IsInjective
<1> QED BY <1>1, <1>8 DEF Distinct, Venues

\* The venue's event has not been asked for, before and after.
LEMMA StillUntouched ==
  ASSUME Running, UNCHANGED input, NEW u \in Venues, Untouched(u), Due(u)' = Due(u),
         keys'[u - 1] = keys[u - 1], pending'[u] = pending[u], inline \/ held'[u] = 0,
         inline => held'[u] # 0, ~Primed(u)'
  PROVE  CallerOk(u)'
<1>1. inline' = inline /\ Size(u)' = Size(u) /\ Start(u)' = Start(u)
  BY SameInput, SameFiles
<1>2. Untouched(u)'
  BY <1>1 DEF Untouched
<1>3. Due(u) \in Start(u) .. Size(u) + 1 /\ GoodTo(u, Due(u) - 1) /\ CutAt(u, Due(u))
  BY DEF Running, RunInv, CallerOk
<1>4. GoodTo(u, Due(u) - 1)' /\ CutAt(u, Due(u))'
  BY <1>3, SameGood
<1> QED BY <1>1, <1>2, <1>3, <1>4 DEF CallerOk

LEMMA RunNew ==
  ASSUME Running, Going, Sound, New
  PROVE  Sound'
<1> USE DEF Running
<1>0. /\ UNCHANGED <<input, opos, hand, inflight, olast, batch, pos, pending, keys, tree, merr, emitted, abort>>
      /\ Work' = Work /\ mpc = "new" /\ merr = "ok"
  BY DEF New, pool, merger, Work, Going
<1>1. PrefixOfMerge'
  BY <1>0, SamePrefix DEF Sound
<1>2. CASE mpc' = "refused"
  <2>1. StopsWhereTheInputSays'
    BY <1>0, <1>2 DEF StopsWhereTheInputSays
  <2> QED BY <1>1, <1>2, <2>1 DEF Sound, Going
<1>3. CASE mpc' # "refused"
  <2>1. K \in Nat /\ Venues = 1 .. K /\ Venues' = Venues /\ K' = K /\ inline' = inline
    BY <1>0, SameInput DEF MergeInv, Shaped, Venues
  <2>2. mpc' = "seed" /\ ask' = 1 /\ ~(Cardinality(ToSet(data.ids)) < K)
    BY <1>3 DEF New
  <2>3. IF inline THEN held' = [v \in Venues |-> 1] /\ UNCHANGED <<opc, free>>
        ELSE opc' = [v \in Venues |-> "issue"] /\ UNCHANGED held
    BY <1>3 DEF New
  <2>4. \A v \in Venues : ~Primed(v) /\ ~Primed(v)' /\ Untouched(v) /\ opc[v] = "none"
    <3>1. \A v \in Venues : ~Primed(v) /\ ~Primed(v)'
      BY <1>0, <2>1, <2>2 DEF Primed
    <3> QED BY <1>0, <3>1 DEF RunInv, CallerOk, MergeInv, Phase
  <2>5. \A v \in Venues : Due(v)' = Due(v)
    BY <1>0, <2>1, <2>3, SameFiles DEF Due
  <2>6. \A v \in Venues : CallerOk(v)'
    <3>1. ASSUME NEW v \in Venues PROVE CallerOk(v)'
      <4>1. (inline \/ held'[v] = 0) /\ (inline => held'[v] # 0)
        BY <2>3, <2>4 DEF Untouched
      <4> QED BY <1>0, <2>4, <2>5, <4>1, StillUntouched
    <3> QED BY <3>1
  <2>7. \A v \in Venues : ~inline => OwnerOk(v)'
    <3> SUFFICES ASSUME NEW v \in Venues, ~inline PROVE OwnerOk(v)'
      OBVIOUS
    <3>1. PICK d : d = Due(v)
      OBVIOUS
    <3>2. InFlight(v, d) /\ olast[v] = LastKey(v, d)
      BY <2>4, <3>1 DEF RunInv, OwnerOk
    <3>3. InFlight(v, d)'
      BY <1>0, <3>2, SameFlight, SameStand
    <3>4. olast'[v] = LastKey(v, d)'
      BY <1>0, <3>2, SameFiles DEF LastKey
    <3>5. opc'[v] = "issue" /\ Due(v)' = d
      BY <2>3, <2>5, <3>1
    <3> QED BY <3>3, <3>4, <3>5, OwnerIssues
  <2>8. TreeOk'
    BY <1>0, <2>1, <2>2, SameTree DEF RunInv, TreeOk
  <2>9. EmittedOk'
    BY <1>0, <2>1, <2>4 DEF RunInv, EmittedOk
  <2>10. Distinct'
    <3>1. Distinct
      BY <2>1, <2>2, DistinctIds
    <3> QED BY <1>0, <2>1, <3>1 DEF Distinct, input
  <2>11. RunInv'
    BY <1>0, <2>1, <2>6, <2>7, <2>8, <2>9, <2>10 DEF RunInv
  <2> QED BY <1>0, <1>1, <2>2, <2>11, GoesOn
<1> QED BY <1>2, <1>3

LEMMA RunSeeded ==
  ASSUME Running, Going, Sound, Seeded
  PROVE  Sound'
<1> USE DEF Running
<1>0. /\ UNCHANGED <<input, opc, opos, hand, inflight, olast, batch, held, pos, pending, keys, merr, emitted, abort>>
      /\ Work' = Work /\ mpc = "seed" /\ mpc' = "idle" /\ merr = "ok" /\ ask > K /\ tree' = treeInit(keys)
  BY DEF Seeded, pool, owners, Work, Going
<1>1. PrefixOfMerge'
  BY <1>0, SamePrefix DEF Sound
<1>2. K \in Nat /\ Venues = 1 .. K /\ Venues' = Venues /\ K' = K /\ inline' = inline
  BY <1>0, SameInput DEF MergeInv, Shaped, Venues
<1>3. \A v \in Venues : Primed(v) /\ Primed(v)'
  BY <1>0, <1>2 DEF Primed, RunInv, TreeOk
<1>4. \A v \in Venues : Due(v)' = Due(v)
  BY <1>0, SameDue
<1>5. \A v \in Venues : CallerOk(v)'
  <2>1. Elsewhere(0) /\ \A v \in Venues : v # 0 /\ Primed(v)' = Primed(v)
    BY <1>0, <1>2, <1>3 DEF Elsewhere, Primed
  <2> QED BY <1>0, <2>1, OthersOk
<1>6. \A v \in Venues : ~inline => OwnerOk(v)'
  BY <1>0, <1>4, OwnerStays
<1>7. TreeOk'
  <2>1. keys \in [Cursors -> KeyType] /\ \A i \in Cursors : i >= K => keys[i] = SentinelKey
    BY DEF RunInv, TreeOk
  <2>2. Sorted(treeInit(keys), keys)
    BY <1>2, <2>1, InitSorts
  <2>3. Sorted(tree, keys)'
    BY <1>0, <2>2, SameTree
  <2> QED BY <1>0, <1>2, <2>1, <2>3, SameTree DEF TreeOk
<1>8. EmittedOk'
  <2>1. emitted = <<>>
    BY <1>0 DEF RunInv, EmittedOk
  <2>2. \A v \in Venues : Returned(v)'
    BY <1>0, <1>3, SameFiles DEF RunInv, EmittedOk, Returned, Got
  <2> QED BY <1>0, <1>2, <2>1, <2>2 DEF RunInv, EmittedOk
<1>9. Distinct'
  BY <1>0, <1>2 DEF Distinct, input, RunInv
<1>10. RunInv'
  BY <1>0, <1>2, <1>5, <1>6, <1>7, <1>8, <1>9 DEF RunInv
<1> QED BY <1>0, <1>1, <1>10, GoesOn

LEMMA RunNextEnd ==
  ASSUME Running, Going, Sound, NextEnd
  PROVE  Sound'
<1>0. /\ UNCHANGED <<input, merr, emitted>> /\ mpc = "idle" /\ mpc' = "ended" /\ merr = "ok"
      /\ keys[tree[0]] = SentinelKey
  BY DEF NextEnd, merger, Going
<1>1. PrefixOfMerge' /\ PrefixOfMerge
  BY <1>0, SamePrefix DEF Sound
<1>2. (\A v \in Venues : Faults(v) = {}) /\ ToSet(emitted) = Valid
  BY <1>0, <1>1, CleanEnd
<1>3. StopsWhereTheInputSays'
  BY <1>0, <1>2, SameResults DEF StopsWhereTheInputSays
<1> QED BY <1>0, <1>1, <1>3 DEF Sound, Going

\* The winner between two calls of Next.
LEMMA IdleWinner ==
  ASSUME Running, mpc = "idle", keys[tree[0]] # SentinelKey
  PROVE  /\ Winner \in Venues /\ AtEvent(Winner) /\ held[Winner] # 0 /\ held[Winner] \in BatchIds
         /\ pending[Winner] \in Start(Winner) .. Due(Winner) - 1 /\ pos[Winner] = pending[Winner] + 1
         /\ pending[Winner] \in 1 .. Size(Winner)
         /\ batch[Winner][held[Winner]].last = Due(Winner) - 1
         /\ Due(Winner) \in Start(Winner) .. Size(Winner) + 1
         /\ GoodTo(Winner, Due(Winner) - 1) /\ CutAt(Winner, Due(Winner))
<1> USE DEF Running
<1>1. Winner \in Venues /\ AtEvent(Winner)
  BY WinnerIs
<1>2. /\ held[Winner] # 0 /\ pos[Winner] = pending[Winner] + 1
      /\ batch[Winner][held[Winner]].last = Due(Winner) - 1
  BY <1>1 DEF AtEvent
<1>3. held[Winner] \in BatchIds
  BY <1>1, <1>2 DEF MergeInv, Owned
<1>4. CallerOk(Winner)
  BY <1>1 DEF RunInv
<1>5. pending[Winner] \in Start(Winner) .. Due(Winner) - 1 /\ pending[Winner] \in 1 .. Size(Winner)
  BY <1>1, EventIs
<1> QED BY <1>1, <1>2, <1>3, <1>4, <1>5 DEF CallerOk

LEMMA RunNextInBatch ==
  ASSUME Running, Going, Sound, NextInBatch
  PROVE  Sound'
<1> USE DEF Running
<1>0. /\ UNCHANGED <<input, abort, opc, opos, hand, inflight, olast, batch, held>> /\ Work' = Work
      /\ mpc = "idle" /\ keys[tree[0]] # SentinelKey
  BY DEF NextInBatch, pool, owners, Work
<1>1. PICK v \in Venues : v = Winner
  BY <1>0, IdleWinner
<1>2. PICK n : n = pos[v]
  OBVIOUS
<1>3. /\ held[v] # 0 /\ pending[v] \in Start(v) .. Due(v) - 1 /\ n = pending[v] + 1
      /\ batch[v][held[v]].last = Due(v) - 1 /\ Due(v) \in Start(v) .. Size(v) + 1
      /\ GoodTo(v, Due(v) - 1) /\ CutAt(v, Due(v))
  BY <1>0, <1>1, <1>2, IdleWinner
<1>4. Size(v) \in Nat /\ Start(v) \in 1 .. Size(v) + 1
  BY RecordsOf, StartIs
<1>5. n <= Due(v) - 1 /\ pos' = [pos EXCEPT ![v] = @ + 1] /\ Deliver(FALSE, v, n)
  BY <1>1, <1>2, <1>3 DEF NextInBatch
<1>6. pos'[v] = n + 1 /\ \A u \in Venues : u # v => pos'[u] = pos[u]
  BY <1>2, <1>5 DEF Indexed
<1>7. n \in Start(v) .. Size(v) /\ n # Size(v) + 1
  BY <1>3, <1>4, <1>5
<1>8. Deliver(FALSE, v, At(v, n))
  BY <1>5, <1>7 DEF At
<1>9. /\ \A u \in Venues : u # v => pending'[u] = pending[u]
      /\ \A u \in Venues : Due(u)' = Due(u)
  <2>1. n \in Start(v) .. Size(v) + 1
    BY <1>4, <1>7
  <2>2. \A u \in Venues : u # v => pending'[u] = pending[u]
    BY <1>8, <2>1, DeliverIs
  <2>3. inline' = inline
    BY <1>0, SameInput
  <2>4. Due(v)' = Due(v)
    BY <1>0, <1>3, <2>3 DEF Due
  <2>5. \A u \in Venues : u # v => Due(u)' = Due(u)
    BY <1>0, <2>2, SameDue
  <2> QED BY <2>2, <2>4, <2>5
<1>10. Arrives(v, n)
  BY <1>0, <1>3, <1>4, <1>5, <1>6, <1>7, <1>9 DEF Arrives
<1>11. ~inline => \A u \in Venues : OwnerOk(u)'
  BY <1>0, <1>9, OwnerStays
<1>12. Elsewhere(v)
  BY <1>0, <1>6 DEF Elsewhere
<1>13. RunInv' /\ merr' = "ok" /\ PrefixOfMerge' /\ mpc' = "idle"
  <2>1. n = pending[v] + 1 /\ PrefixOfMerge
    BY <1>3 DEF Sound
  <2> QED BY <1>0, <1>1, <1>8, <1>10, <1>11, <1>12, <2>1, NextArrives
<1> QED BY <1>13, GoesOn

\* What a cursor decodes into the batch of a run without workers.
LEMMA CursorFill ==
  ASSUME Running, inline, NEW v \in Venues, NEW d, d = Due(v), NEW b, b = fillFromCursor(v)
  PROVE  /\ b.first = d
         /\ b.err = "ok" => /\ b.last + 1 \in Start(v) .. Size(v) + 1 /\ GoodTo(v, b.last)
                            /\ CutAt(v, b.last + 1) /\ b.last \in Int
                            /\ d = Size(v) + 1 => b.last = Size(v)
                            /\ d # Size(v) + 1 => d <= b.last
         /\ b.err # "ok" => FaultAhead(v)
<1> USE DEF Running
<1>0. /\ Size(v) \in Nat /\ Start(v) \in 1 .. Size(v) + 1 /\ shape.records \in Nat \ {0}
      /\ d = opos[v]
  BY RecordsOf, StartIs DEF Input, Due
<1>1. d \in Start(v) .. Size(v) + 1 /\ GoodTo(v, d - 1) /\ CutAt(v, d)
  BY DEF RunInv, CallerOk
<1>2. PICK to : to = Min({d + shape.records - 1, Size(v)})
  OBVIOUS
<1>3. to \in {d + shape.records - 1, Size(v)} /\ to <= d + shape.records - 1 /\ to <= Size(v)
  <2> DEFINE T == {d + shape.records - 1, Size(v)}
  <2>1. T \in SUBSET Nat /\ T # {}
    BY <1>0, <1>1
  <2>2. d + shape.records - 1 \in T /\ Size(v) \in T /\ T = {d + shape.records - 1, Size(v)}
    OBVIOUS
  <2> HIDE DEF T
  <2>3. to \in T /\ \A y \in T : to <= y
    BY <1>2, <2>1, <2>2, MinIs
  <2> QED BY <2>2, <2>3
<1>4. PICK c \in BOOLEAN : c = (d > Start(v)) /\ (c <=> d > Start(v))
  <2>1. (d > Start(v)) = TRUE \/ (d > Start(v)) = FALSE
    BY <1>0, <1>1
  <2> QED BY <2>1
<1>5. b = fill(v, d, to, c) /\ d \in Nat /\ to \in Nat
  BY <1>0, <1>1, <1>2, <1>3, <1>4 DEF fillFromCursor, Size
<1> DEFINE bad(p) == Fault(v, p, p > d \/ c) # "ok"
           f == fill(v, d, to, c)
<1>6. /\ b = [first |-> d, last |-> b.last, err |-> b.err, done |-> FALSE]
      /\ (\A p \in d .. to : ~bad(p)) => b.last = to /\ b.err = "ok"
      /\ (\E p \in d .. to : bad(p)) => b.err # "ok"
  <2>1. /\ f = [first |-> d, last |-> f.last, err |-> f.err, done |-> FALSE]
        /\ (\A p \in d .. to : ~bad(p)) => f.last = to /\ f.err = "ok"
        /\ (\E p \in d .. to : bad(p)) => f.err # "ok"
    BY <1>5, FillIs, Zenon
  <2>2. b = f
    BY <1>5
  <2> HIDE DEF f, bad
  <2> QED BY <2>1, <2>2
<1>7. \A p \in d .. to : bad(p) <=> ~Good(v, p)
  <2>1. \A p \in d .. to : (p > d \/ c) <=> (p > Start(v))
    BY <1>0, <1>1, <1>4
  <2> QED BY <2>1 DEF Good
<1> HIDE DEF bad
<1>8. b.first = d
  BY <1>6
<1>9. ASSUME b.err = "ok"
      PROVE  /\ b.last + 1 \in Start(v) .. Size(v) + 1 /\ GoodTo(v, b.last)
             /\ CutAt(v, b.last + 1) /\ b.last \in Int
             /\ d = Size(v) + 1 => b.last = Size(v)
             /\ d # Size(v) + 1 => d <= b.last
  <2>1. b.last = to /\ \A p \in d .. to : Good(v, p)
    BY <1>6, <1>7, <1>9
  <2>2. GoodTo(v, to)
    <3>1. \A p \in Start(v) .. to : p \in Start(v) .. d - 1 \/ p \in d .. to
      BY <1>0, <1>1, <1>5
    <3> QED BY <1>1, <2>1, <3>1 DEF GoodTo
  <2>3. (d = Size(v) + 1 => to = Size(v)) /\ (d # Size(v) + 1 => d <= to) /\ to + 1 \in Start(v) .. Size(v) + 1
    BY <1>0, <1>1, <1>3
  <2>4. CutAt(v, to + 1)
    <3>1. PICK q : q = to + 1
      OBVIOUS
    <3>2. CASE q \in 1 .. Size(v)
      <4>1. q = d + shape.records /\ d \in Start(v) .. Size(v) /\ q \in d .. Size(v)
        BY <1>0, <1>1, <1>3, <3>1, <3>2
      <4> QED BY <1>1, <3>1, <4>1, CutsAfterFull
    <3>3. CASE q \notin 1 .. Size(v)
      BY <3>1, <3>3 DEF CutAt
    <3> QED BY <3>2, <3>3
  <2> QED BY <1>5, <2>1, <2>2, <2>3, <2>4
<1>10. ASSUME b.err # "ok" PROVE FaultAhead(v)
  <2>1. PICK p \in d .. to : ~Good(v, p)
    BY <1>6, <1>7, <1>10
  <2>2. to \in d .. d + shape.records - 1 /\ p <= Size(v)
    BY <1>0, <1>1, <1>3, <1>5
  <2> QED BY <2>1, <2>2 DEF FaultAhead
<1> QED BY <1>8, <1>9, <1>10

\* A refill without workers brings the event that is due.
LEMMA CursorArrives ==
  ASSUME Running, UNCHANGED <<input, held>>, inline, NEW v \in Venues, held[v] # 0, NEW d, d = Due(v),
         NEW b, b = fillFromCursor(v), b.err = "ok", batch' = [batch EXCEPT ![v][held[v]] = b],
         opos' = [opos EXCEPT ![v] = b.last + 1], pos' = [pos EXCEPT ![v] = b.first + 1]
  PROVE  /\ Arrives(v, d) /\ Elsewhere(v) /\ d \in Start(v) .. Size(v) + 1
         /\ At(v, d) = IF b.last < b.first THEN 0 ELSE b.first
<1> USE DEF Running
<1>0. Size(v) \in Nat /\ Start(v) \in 1 .. Size(v) + 1 /\ d \in Start(v) .. Size(v) + 1
  BY RecordsOf, StartIs DEF RunInv, CallerOk
<1>1. /\ b.first = d /\ b.last + 1 \in Start(v) .. Size(v) + 1 /\ GoodTo(v, b.last)
      /\ CutAt(v, b.last + 1) /\ b.last \in Int
      /\ d = Size(v) + 1 => b.last = Size(v)
      /\ d # Size(v) + 1 => d <= b.last
  BY CursorFill
<1>2. held[v] \in BatchIds /\ DOMAIN batch = Venues /\ DOMAIN batch[v] = BatchIds
  BY DEF MergeInv, Owned, Shaped
<1>3. batch'[v][held'[v]] = b /\ \A u \in Venues : u # v => batch'[u] = batch[u]
  BY <1>2
<1>4. /\ opos'[v] = b.last + 1 /\ pos'[v] = d + 1
      /\ \A u \in Venues : u # v => opos'[u] = opos[u] /\ pos'[u] = pos[u]
  BY <1>1 DEF Indexed
<1>5. Due(v)' = b.last + 1
  <2>1. inline'
    BY SameInput
  <2> QED BY <1>4, <2>1 DEF Due
<1>6. (b.last + 1) - 1 = b.last
  BY <1>1
<1>7. Arrives(v, d)
  <2>1. /\ Due(v)' \in Start(v) .. Size(v) + 1 /\ GoodTo(v, Due(v)' - 1) /\ CutAt(v, Due(v)')
    BY <1>1, <1>5, <1>6
  <2>2. d = Size(v) + 1 => Due(v)' = Size(v) + 1
    BY <1>1, <1>5
  <2>3. d # Size(v) + 1 => d <= Due(v)' - 1 /\ batch'[v][held'[v]].last = Due(v)' - 1
    BY <1>1, <1>3, <1>5, <1>6
  <2> QED BY <1>0, <1>4, <2>1, <2>2, <2>3 DEF Arrives
<1>8. At(v, d) = IF b.last < b.first THEN 0 ELSE b.first
  BY <1>0, <1>1 DEF At
<1>9. Elsewhere(v)
  BY <1>3, <1>4 DEF Elsewhere
<1> QED BY <1>0, <1>7, <1>8, <1>9

\* The venue the constructor asks.
LEMMA SeedVenue ==
  ASSUME Running, mpc \in {"seed", "seedRecv"}, ask \in Venues
  PROVE  /\ Untouched(ask) /\ Due(ask) = Start(ask) /\ (inline => held[ask] # 0)
         /\ keys[ask - 1] = SentinelKey /\ pending[ask] = 0 /\ (inline \/ held[ask] = 0)
<1> USE DEF Running
<1>1. ask \in Int
  BY DEF MergeInv, Shaped, Venues
<1>2. ~Primed(ask)
  BY <1>1 DEF Primed
<1>3. Untouched(ask) /\ (inline => held[ask] # 0)
  BY <1>2 DEF RunInv, CallerOk
<1> QED BY <1>3 DEF Untouched

LEMMA SeedInline ==
  ASSUME Running, Going, Sound, Seed, inline
  PROVE  Sound'
<1> USE DEF Running
<1>0. mpc = "seed" /\ Refill(TRUE, ask) /\ UNCHANGED <<input, abort>> /\ merr = "ok" /\ PrefixOfMerge
  BY DEF Seed, Going, Sound
<1>1. PICK v \in Venues : v = ask
  BY DEF Seed
<1>2. Due(v) = Start(v) /\ held[v] # 0
  BY <1>0, <1>1, SeedVenue
<1>3. PICK b : b = fillFromCursor(v)
  OBVIOUS
<1>4. /\ batch' = [batch EXCEPT ![v][held[v]] = b] /\ opos' = [opos EXCEPT ![v] = b.last + 1]
      /\ UNCHANGED held
      /\ IF b.err # "ok" THEN Fail(TRUE, b.err)
         ELSE /\ pos' = [pos EXCEPT ![v] = b.first + 1]
              /\ Deliver(TRUE, v, IF b.last < b.first THEN 0 ELSE b.first)
  BY <1>0, <1>1, <1>3 DEF Refill
<1>5. CASE b.err # "ok"
  <2>1. FaultAhead(v)
    BY <1>3, <1>5, CursorFill
  <2>2. ToSet(emitted) = UpToFault
    BY <1>0, <1>2, <2>1, FailedSeed
  <2>3. PICK e : e = b.err
    OBVIOUS
  <2> QED BY <1>0, <1>4, <1>5, <2>2, <2>3, Fails
<1>6. CASE b.err = "ok"
  <2>1. PICK d : d = Start(v)
    OBVIOUS
  <2>2. /\ Arrives(v, d) /\ Elsewhere(v)
        /\ At(v, d) = IF b.last < b.first THEN 0 ELSE b.first
    BY <1>0, <1>2, <1>3, <1>4, <1>6, <2>1, CursorArrives
  <2>3. Deliver(TRUE, v, At(v, d))
    BY <1>4, <1>6, <2>2
  <2>4. RunInv' /\ merr' = merr /\ emitted' = emitted /\ mpc' = "seed"
    BY <1>0, <1>1, <2>1, <2>2, <2>3, SeedArrives
  <2>5. PrefixOfMerge'
    BY <1>0, <2>4, SamePrefix
  <2> QED BY <1>0, <2>4, <2>5, GoesOn
<1> QED BY <1>5, <1>6

LEMMA NextInline ==
  ASSUME Running, Going, Sound, NextRefill, inline
  PROVE  Sound'
<1> USE DEF Running
<1>0. /\ mpc = "idle" /\ keys[tree[0]] # SentinelKey /\ Refill(FALSE, Winner)
      /\ UNCHANGED <<input, abort>> /\ PrefixOfMerge
  BY DEF NextRefill, Sound
<1>1. PICK v \in Venues : v = Winner
  BY <1>0, IdleWinner
<1>2. Due(v) = pending[v] + 1 /\ held[v] # 0
  <2>1. /\ held[v] # 0 /\ pending[v] \in Start(v) .. Due(v) - 1 /\ pos[v] = pending[v] + 1
        /\ pending[v] \in 1 .. Size(v) /\ batch[v][held[v]].last = Due(v) - 1
        /\ Due(v) \in Start(v) .. Size(v) + 1
    BY <1>0, <1>1, IdleWinner
  <2>2. pos[v] > batch[v][held[v]].last
    BY <1>1 DEF NextRefill
  <2>3. Size(v) \in Nat /\ Start(v) \in 1 .. Size(v) + 1
    BY RecordsOf, StartIs
  <2> QED BY <2>1, <2>2, <2>3
<1>3. PICK b : b = fillFromCursor(v)
  OBVIOUS
<1>4. /\ batch' = [batch EXCEPT ![v][held[v]] = b] /\ opos' = [opos EXCEPT ![v] = b.last + 1]
      /\ UNCHANGED held
      /\ IF b.err # "ok" THEN Fail(FALSE, b.err)
         ELSE /\ pos' = [pos EXCEPT ![v] = b.first + 1]
              /\ Deliver(FALSE, v, IF b.last < b.first THEN 0 ELSE b.first)
  BY <1>0, <1>1, <1>3 DEF Refill
<1>5. CASE b.err # "ok"
  <2>1. FaultAhead(v)
    BY <1>3, <1>5, CursorFill
  <2>2. ToSet(emitted) = UpToFault
    BY <1>0, <1>1, <1>2, <2>1, FailedNext
  <2>3. PICK e : e = b.err
    OBVIOUS
  <2> QED BY <1>0, <1>4, <1>5, <2>2, <2>3, Fails
<1>6. CASE b.err = "ok"
  <2>1. PICK d : d = pending[v] + 1
    OBVIOUS
  <2>2. /\ Arrives(v, d) /\ Elsewhere(v)
        /\ At(v, d) = IF b.last < b.first THEN 0 ELSE b.first
    BY <1>0, <1>2, <1>3, <1>4, <1>6, <2>1, CursorArrives
  <2>3. Deliver(FALSE, v, At(v, d))
    BY <1>4, <1>6, <2>2
  <2>4. RunInv' /\ merr' = "ok" /\ PrefixOfMerge' /\ mpc' = "idle"
    BY <1>0, <1>1, <2>1, <2>2, <2>3, NextArrives
  <2> QED BY <2>4, GoesOn
<1> QED BY <1>5, <1>6

LEMMA SeedPool ==
  ASSUME Running, Going, Sound, Seed, ~inline
  PROVE  Sound'
<1> USE DEF Running
<1>0. /\ mpc = "seed" /\ UNCHANGED <<input, abort, opc, hand, inflight, olast>> /\ Work' = Work
      /\ Refill(TRUE, ask) /\ merr = "ok" /\ PrefixOfMerge
  BY DEF Seed, Going, Sound, pool, Work
<1>1. PICK v \in Venues : v = ask
  BY DEF Seed
<1>2. Untouched(v) /\ held[v] = 0
  BY <1>0, <1>1, SeedVenue
<1>3. /\ held' = [held EXCEPT ![v] = 0] /\ mpc' = "seedRecv" /\ ask' = v
      /\ UNCHANGED <<pending, keys, tree, merr, emitted, opos, batch, pos>>
  BY <1>0, <1>1 DEF Refill, merger
<1>4. \A u \in Venues : held'[u] = held[u]
  BY <1>2, <1>3 DEF MergeInv, Shaped
<1>5. Venues' = Venues /\ K' = K /\ inline' = inline
  BY <1>0, SameInput
<1>6. \A u \in Venues : Due(u)' = Due(u) /\ Primed(u)' = Primed(u)
  BY <1>0, <1>1, <1>3, <1>4, SameDue DEF Primed
<1>7. \A u \in Venues : CallerOk(u)'
  <2>1. ASSUME NEW u \in Venues, u # v PROVE CallerOk(u)'
    <3>1. Elsewhere(v)
      BY <1>3, <1>4 DEF Elsewhere
    <3> QED BY <1>0, <1>3, <1>6, <2>1, <3>1, OthersOk
  <2>2. CallerOk(v)'
    <3>1. ~Primed(v)'
      <4>1. v \in Int
        BY DEF MergeInv, Shaped, Venues
      <4> QED BY <1>3, <4>1 DEF Primed
    <3> QED BY <1>0, <1>2, <1>3, <1>4, <1>6, <3>1, StillUntouched
  <2> QED BY <2>1, <2>2
<1>8. \A u \in Venues : OwnerOk(u)'
  BY <1>0, <1>3, <1>6, OwnerStays
<1>9. TreeOk'
  BY <1>0, <1>3, <1>5, SameTree DEF RunInv, TreeOk
<1>10. EmittedOk'
  <2>1. \A u \in Venues : Primed(u)' => Returned(u)'
    BY <1>0, <1>3, <1>6, SameFiles DEF RunInv, EmittedOk, Returned, Got
  <2> QED BY <1>0, <1>3, <1>5, <2>1 DEF RunInv, EmittedOk
<1>11. Distinct'
  BY <1>0, <1>5 DEF Distinct, input, RunInv
<1>12. RunInv'
  BY <1>0, <1>5, <1>7, <1>8, <1>9, <1>10, <1>11 DEF RunInv
<1>13. PrefixOfMerge'
  BY <1>0, <1>3, SamePrefix
<1> QED BY <1>0, <1>3, <1>12, <1>13, GoesOn

LEMMA NextPool ==
  ASSUME Running, Going, Sound, NextRefill, ~inline
  PROVE  Sound'
<1> USE DEF Running
<1>0. /\ mpc = "idle" /\ keys[tree[0]] # SentinelKey /\ Refill(FALSE, Winner) /\ merr = "ok"
      /\ UNCHANGED <<input, abort, opc, hand, inflight, olast>> /\ Work' = Work /\ PrefixOfMerge
  BY DEF NextRefill, Sound, pool, Work
<1>1. PICK v \in Venues : v = Winner
  BY <1>0, IdleWinner
<1>2. /\ Due(v) = pending[v] + 1 /\ pending[v] # 0 /\ AtEvent(v)
      /\ Due(v) \in Start(v) .. Size(v) + 1 /\ GoodTo(v, Due(v) - 1) /\ CutAt(v, Due(v))
  <2>1. /\ held[v] # 0 /\ pending[v] \in Start(v) .. Due(v) - 1 /\ pos[v] = pending[v] + 1
        /\ pending[v] \in 1 .. Size(v) /\ batch[v][held[v]].last = Due(v) - 1
        /\ Due(v) \in Start(v) .. Size(v) + 1 /\ AtEvent(v)
        /\ GoodTo(v, Due(v) - 1) /\ CutAt(v, Due(v))
    BY <1>0, <1>1, IdleWinner
  <2>2. pos[v] > batch[v][held[v]].last
    BY <1>1 DEF NextRefill
  <2>3. Size(v) \in Nat /\ Start(v) \in 1 .. Size(v) + 1
    BY RecordsOf, StartIs
  <2> QED BY <2>1, <2>2, <2>3
<1>3. /\ held' = [held EXCEPT ![v] = 0] /\ mpc' = "nextRecv" /\ ask' = v
      /\ UNCHANGED <<pending, keys, tree, merr, emitted, opos, batch, pos>>
  BY <1>0, <1>1 DEF Refill, merger
<1>4. held'[v] = 0 /\ \A u \in Venues : u # v => held'[u] = held[u]
  BY <1>3 DEF MergeInv, Shaped
<1>5. Venues' = Venues /\ K' = K /\ inline' = inline
  BY <1>0, SameInput
<1>6. \A u \in Venues : Due(u)' = Due(u) /\ Primed(u)' = Primed(u)
  <2>1. \A u \in Venues : Primed(u)' = Primed(u)
    BY <1>0, <1>3 DEF Primed
  <2>2. \A u \in Venues : u # v => Due(u)' = Due(u)
    BY <1>0, <1>3, <1>4, SameDue
  <2>3. Due(v)' = Due(v)
    BY <1>2, <1>3, <1>4, <1>5 DEF Due
  <2> QED BY <2>1, <2>2, <2>3
<1>7. \A u \in Venues : CallerOk(u)'
  <2>1. ASSUME NEW u \in Venues, u # v PROVE CallerOk(u)'
    <3>1. Elsewhere(v)
      BY <1>3, <1>4 DEF Elsewhere
    <3> QED BY <1>0, <1>3, <1>6, <2>1, <3>1, OthersOk
  <2>2. CallerOk(v)'
    <3>1. Size(v)' = Size(v) /\ Start(v)' = Start(v) /\ keyOf(v, pending[v])' = keyOf(v, pending[v])
      BY <1>0, <1>3, SameFiles
    <3>2. AtEvent(v)'
      BY <1>2, <1>3, <1>4, <1>5, <3>1 DEF AtEvent
    <3>3. Primed(v)'
      BY <1>3 DEF Primed
    <3>4. GoodTo(v, Due(v) - 1)' /\ CutAt(v, Due(v))'
      BY <1>0, <1>2, <1>6, SameGood
    <3>5. Due(v)' = Due(v)
      BY <1>6
    <3> QED BY <1>2, <1>5, <3>1, <3>2, <3>3, <3>4, <3>5 DEF CallerOk
  <2> QED BY <2>1, <2>2
<1>8. \A u \in Venues : OwnerOk(u)'
  BY <1>0, <1>3, <1>6, OwnerStays
<1>9. TreeOk'
  <2>1. Sorted(tree, keys)'
    BY <1>0, <1>3, SameTree DEF RunInv, TreeOk
  <2>2. Winner' = Winner
    BY <1>3 DEF Winner
  <2> QED BY <1>0, <1>1, <1>3, <1>4, <1>5, <2>1, <2>2, SameTree DEF RunInv, TreeOk
<1>10. EmittedOk'
  <2>1. \A u \in Venues : Returned(u)'
    BY <1>0, <1>3, <1>6, SameFiles DEF RunInv, EmittedOk, Returned, Got, Primed
  <2>2. \A e : EventKey(e)' = EventKey(e)
    BY <1>0, SameResults
  <2> QED BY <1>0, <1>3, <1>5, <2>1, <2>2 DEF RunInv, EmittedOk
<1>11. Distinct'
  BY <1>0, <1>5 DEF Distinct, input, RunInv
<1>12. RunInv'
  BY <1>0, <1>5, <1>7, <1>8, <1>9, <1>10, <1>11 DEF RunInv
<1>13. PrefixOfMerge'
  BY <1>0, <1>3, SamePrefix
<1> QED BY <1>0, <1>3, <1>12, <1>13, GoesOn

\* The venue a receive waits for, and the position its next event has.
LEMMA Waiting ==
  ASSUME Running, mpc \in {"seedRecv", "nextRecv"}
  PROVE  /\ ~inline /\ ask \in Venues /\ held[ask] = 0
         /\ Due(ask) \in Start(ask) .. Size(ask) + 1 /\ GoodTo(ask, Due(ask) - 1) /\ CutAt(ask, Due(ask))
         /\ mpc = "seedRecv" => Due(ask) = Start(ask)
         /\ mpc = "nextRecv" => /\ ask = Winner /\ keys[tree[0]] # SentinelKey
                                /\ Due(ask) = pending[ask] + 1
<1> USE DEF Running
<1>1. ~inline /\ ask \in Venues
  BY DEF RunInv, TreeOk
<1>2. CallerOk(ask)
  BY <1>1 DEF RunInv
<1>3. mpc = "seedRecv" => held[ask] = 0 /\ Due(ask) = Start(ask)
  BY <1>1, SeedVenue
<1>4. ASSUME mpc = "nextRecv"
      PROVE  ask = Winner /\ keys[tree[0]] # SentinelKey /\ Due(ask) = pending[ask] + 1 /\ held[ask] = 0
  <2>1. ask = Winner /\ keys[tree[0]] # SentinelKey /\ held[ask] = 0
    BY <1>4 DEF RunInv, TreeOk
  <2>2. pending[ask] # 0
    <3>1. AtEvent(ask)
      BY <1>4, <2>1, WinnerIs
    <3>2. pending[ask] \in 1 .. Size(ask)
      BY <1>1, <3>1, EventIs
    <3> QED BY <3>2
  <2> QED BY <1>1, <2>1, <2>2 DEF Due
<1> QED BY <1>1, <1>2, <1>3, <1>4 DEF CallerOk

\* What a receive brings.
LEMMA ReceiveArrives ==
  ASSUME Running, Sound, mpc \in {"seedRecv", "nextRecv"}, merr = "ok", UNCHANGED <<input, abort>>,
         NEW v \in Venues, v = ask, Elsewhere(v), NEW n, n = Due(v), Arrives(v, n),
         Deliver(mpc = "seedRecv", v, At(v, n)), \A u \in Venues : OwnerOk(u)'
  PROVE  Sound'
<1>0. PrefixOfMerge
  BY DEF Sound
<1>1. CASE mpc = "seedRecv"
  <2>1. Deliver(TRUE, v, At(v, n))
    BY <1>1, Zenon
  <2>2. n = Start(v)
    BY <1>1, Waiting
  <2>3. RunInv' /\ merr' = merr /\ emitted' = emitted /\ mpc' = "seed"
    BY <1>1, <2>1, <2>2, SeedArrives
  <2>4. PrefixOfMerge'
    BY <1>0, <2>3, SamePrefix
  <2> QED BY <2>3, <2>4, GoesOn
<1>2. CASE mpc = "nextRecv"
  <2>1. (mpc = "seedRecv") = FALSE
    BY <1>2
  <2>2. Deliver(FALSE, v, At(v, n))
    BY <2>1, Zenon
  <2>3. n = pending[v] + 1 /\ v = Winner /\ keys[tree[0]] # SentinelKey
    BY <1>2, Waiting
  <2>4. RunInv' /\ merr' = "ok" /\ PrefixOfMerge' /\ mpc' = "idle"
    BY <1>0, <1>2, <2>2, <2>3, NextArrives
  <2> QED BY <2>4, GoesOn
<1> QED BY <1>1, <1>2

LEMMA RunReceiveClosed ==
  ASSUME Running, Going, Sound, ReceiveClosed
  PROVE  Sound'
<1> USE DEF Running
<1>0. /\ UNCHANGED <<input, abort, opc, opos, hand, inflight, olast, batch, held, pos>> /\ Work' = Work
      /\ mpc \in {"seedRecv", "nextRecv"} /\ merr = "ok" /\ opc[ask] = "closed"
      /\ Deliver(mpc = "seedRecv", ask, 0)
  BY DEF ReceiveClosed, owners, pool, Work, Going
<1>1. PICK v \in Venues : v = ask
  BY <1>0, Waiting
<1>2. PICK n : n = Due(v)
  OBVIOUS
<1>3. /\ ~inline /\ held[v] = 0 /\ n \in Start(v) .. Size(v) + 1 /\ GoodTo(v, n - 1) /\ CutAt(v, n)
  BY <1>0, <1>1, <1>2, Waiting
<1>4. n = Size(v) + 1
  BY <1>0, <1>1, <1>2, <1>3 DEF RunInv, OwnerOk
<1>5. At(v, n) = 0
  BY <1>4 DEF At
<1>6. pending' = pending
  BY <1>0 DEF Deliver
<1>7. \A u \in Venues : Due(u)' = Due(u)
  BY <1>0, <1>6, SameDue
<1>8. Arrives(v, n)
  BY <1>2, <1>3, <1>4, <1>7 DEF Arrives
<1>9. \A u \in Venues : OwnerOk(u)'
  BY <1>0, <1>3, <1>7, OwnerStays
<1>10. Elsewhere(v)
  BY <1>0 DEF Elsewhere
<1>11. Deliver(mpc = "seedRecv", v, At(v, n))
  BY <1>0, <1>1, <1>5
<1> QED BY <1>0, <1>1, <1>2, <1>8, <1>9, <1>10, <1>11, ReceiveArrives

LEMMA RunReceive ==
  ASSUME Running, Going, Sound, Receive
  PROVE  Sound'
<1> USE DEF Running
<1>0. /\ UNCHANGED <<input, abort, opos, inflight, olast, batch>> /\ Work' = Work
      /\ mpc \in {"seedRecv", "nextRecv"} /\ merr = "ok" /\ opc[ask] = "send" /\ PrefixOfMerge
  BY DEF Receive, pool, Work, Going, Sound
<1>1. PICK v \in Venues : v = ask
  BY <1>0, Waiting
<1>2. PICK n : n = Due(v)
  OBVIOUS
<1>3. /\ ~inline /\ held[v] = 0 /\ n \in Start(v) .. Size(v) + 1 /\ GoodTo(v, n - 1) /\ CutAt(v, n)
  BY <1>0, <1>1, <1>2, Waiting
<1>4. PICK b : b = batch[v][hand[v]]
  OBVIOUS
<1>5. /\ held' = [held EXCEPT ![v] = hand[v]] /\ hand' = [hand EXCEPT ![v] = 0]
      /\ opc' = [opc EXCEPT ![v] = "issue"]
      /\ IF b.err # "ok" THEN Fail(mpc = "seedRecv", b.err)
         ELSE /\ pos' = [pos EXCEPT ![v] = b.first + 1]
              /\ Deliver(mpc = "seedRecv", v, IF b.last < b.first THEN 0 ELSE b.first)
  BY <1>1, <1>4 DEF Receive
<1>6. n \in 1 .. Size(v) /\ (Whole(v, b, n) \/ Faulty(v, b, n))
  BY <1>0, <1>1, <1>2, <1>3, <1>4 DEF RunInv, OwnerOk
<1>7. /\ Size(v) \in Nat /\ Start(v) \in 1 .. Size(v) + 1 /\ n \in Start(v) .. Size(v)
      /\ nextRange(v, n) \in n .. Size(v)
      /\ nextRange(v, n) <= n + shape.records - 1 /\ nextRange(v, n) <= FileEnd(v, n)
      /\ shape.records \in Nat
  <2>1. Size(v) \in Nat /\ Start(v) \in 1 .. Size(v) + 1 /\ shape.records \in Nat
    BY RecordsOf, StartIs DEF Input
  <2> QED BY <1>3, <1>6, <2>1, RangeIs
<1>8. CASE b.err # "ok"
  <2>1. PICK to : to = nextRange(v, n)
    OBVIOUS
  <2>2. PICK p \in n .. to : ~Good(v, p)
    BY <1>6, <1>8, <2>1 DEF Whole, Faulty
  <2>3. to \in n .. n + shape.records - 1 /\ to <= FileEnd(v, n) /\ p <= Size(v)
    BY <1>7, <2>1
  <2>4. FaultAhead(v)
    BY <1>2, <2>2, <2>3 DEF FaultAhead
  <2>5. ToSet(emitted) = UpToFault
    <3>1. CASE mpc = "seedRecv"
      <4>1. Due(v) = Start(v)
        BY <1>1, <3>1, Waiting
      <4> QED BY <2>4, <3>1, <4>1, FailedSeed
    <3>2. CASE mpc = "nextRecv"
      <4>1. v = Winner /\ keys[tree[0]] # SentinelKey /\ Due(v) = pending[v] + 1
        BY <1>1, <3>2, Waiting
      <4> QED BY <1>0, <2>4, <3>2, <4>1, FailedNext
    <3> QED BY <1>0, <3>1, <3>2
  <2>6. PICK e, sd : e = b.err /\ sd = (mpc = "seedRecv")
    OBVIOUS
  <2>7. sd \in BOOLEAN
    BY <2>6
  <2>8. Fail(sd, e)
    BY <1>5, <1>8, <2>6
  <2> QED BY <1>0, <1>8, <2>5, <2>6, <2>7, <2>8, Fails
<1>9. CASE b.err = "ok"
  <2>1. /\ b.first = n /\ b.last = nextRange(v, n) /\ GoodTo(v, b.last)
        /\ InFlight(v, b.last + 1) /\ olast[v] = b.last
    BY <1>6, <1>9 DEF Whole, Faulty
  <2>2. /\ held'[v] = hand[v] /\ opc'[v] = "issue" /\ pos'[v] = n + 1
        /\ \A u \in Venues : u # v => /\ held'[u] = held[u] /\ opc'[u] = opc[u]
                                      /\ hand'[u] = hand[u] /\ pos'[u] = pos[u]
    BY <1>5, <1>9, <2>1 DEF Indexed, MergeInv, Shaped
  <2>3. hand[v] # 0
    BY <1>0, <1>1 DEF MergeInv, Owned
  <2>4. PICK m : m = b.last + 1
    OBVIOUS
  <2>5. m \in Start(v) .. Size(v) + 1 /\ n <= m - 1 /\ m - 1 = b.last /\ m > Start(v)
    BY <1>7, <2>1, <2>4
  <2>6. batch'[v][held'[v]].last = m - 1 /\ Due(v)' = m
    <3>1. ~inline' /\ batch'[v][held'[v]] = b
      BY <1>0, <1>3, <1>4, <2>2, SameInput
    <3> QED BY <2>2, <2>3, <2>4, <2>5, <3>1 DEF Due
  <2>7. CutAt(v, m)
    BY <1>3, <1>7, <2>1, <2>4, CutsAfterRange
  <2>8. At(v, n) = IF b.last < b.first THEN 0 ELSE b.first
    BY <1>7, <2>1 DEF At
  <2>9. Arrives(v, n)
    BY <1>3, <1>7, <2>1, <2>2, <2>3, <2>5, <2>6, <2>7 DEF Arrives
  <2>10. Deliver(mpc = "seedRecv", v, At(v, n))
    BY <1>5, <1>9, <2>8
  <2>11. \A u \in Venues : u # v => pending'[u] = pending[u]
    <3>1. pending' = pending \/ \E x : pending' = [pending EXCEPT ![v] = x]
      BY <2>10 DEF Deliver
    <3> QED BY <3>1 DEF Indexed
  <2>12. \A u \in Venues : u # v => Due(u)' = Due(u)
    BY <1>0, <2>2, <2>11, SameDue
  <2>13. \A u \in Venues : u # v => OwnerOk(u)'
    BY <1>0, <1>3, <2>2, <2>12, OwnerStays
  <2>14. OwnerOk(v)'
    <3>1. InFlight(v, m)'
      BY <1>0, <2>1, <2>4, SameFlight, SameStand
    <3>2. olast'[v] = LastKey(v, m)'
      <4>1. LastKey(v, m)' = m - 1
        BY <1>0, <1>7, <2>5, SameFiles DEF LastKey
      <4> QED BY <1>0, <2>1, <2>5, <4>1
    <3> QED BY <2>2, <2>6, <3>1, <3>2, OwnerIssues
  <2>15. Elsewhere(v)
    BY <1>0, <2>2 DEF Elsewhere
  <2>16. \A u \in Venues : OwnerOk(u)'
    BY <2>13, <2>14
  <2> QED BY <1>0, <1>1, <1>2, <2>9, <2>10, <2>15, <2>16, ReceiveArrives
<1> QED BY <1>8, <1>9

-----------------------------------------------------------------------------
(***************************************************************************)
(* The invariant of what is returned, and the two properties.              *)
(***************************************************************************)

MergeSound == MergeInv /\ Input /\ Indexed /\ Sound

LEMMA RunInitial == Init => MergeSound
<1> SUFFICES ASSUME Init PROVE MergeSound
  OBVIOUS
<1>0. MergeInv /\ Input
  BY MergeInitial, InputInitial
<1>1. Indexed
  BY DEF Init, Indexed
<1>2. K \in Nat /\ emitted = <<>> /\ merr = "ok" /\ mpc = "new" /\ ~abort
  BY <1>0 DEF Init, MergeInv, Shaped
<1>3. ToSet(emitted) = {} /\ Len(emitted) = 0 /\ DOMAIN emitted = {} /\ emitted \in Seq({})
  BY <1>2, EmptyOnce, EmptySeq
<1>4. TreeOk
  <2>1. keys \in [Cursors -> KeyType] /\ \A i \in Cursors : keys[i] = SentinelKey
    BY MergeAssumption DEF Init, Cursors
  <2> QED BY <1>2, <2>1 DEF TreeOk
<1>5. \A v \in Venues : ~Primed(v)
  BY <1>2 DEF Primed
<1>6. EmittedOk
  BY <1>2, <1>3, <1>5 DEF EmittedOk
<1>7. ASSUME NEW v \in Venues PROVE CallerOk(v) /\ OwnerOk(v)
  <2>0. /\ opos[v] = Start(v) /\ held[v] = 0 /\ pending[v] = 0 /\ opc[v] = "none" /\ inflight[v] = <<>>
        /\ olast[v] = 0
    BY DEF Init
  <2>1. Due(v) = Start(v)
    BY <2>0 DEF Due
  <2>2. Size(v) \in Nat /\ Start(v) \in 1 .. Size(v) + 1
    BY <1>0, RecordsOf, StartIs
  <2>3. GoodTo(v, Start(v) - 1)
    BY <2>2 DEF GoodTo
  <2>4. CutAt(v, Start(v))
    BY <1>0, CutsAtStart
  <2>5. keys[v - 1] = SentinelKey
    <3>1. v - 1 \in Cursors
      BY <1>2, TreeShape DEF Venues, Cursors
    <3> QED BY <3>1 DEF Init, Cursors
  <2>6. Untouched(v)
    BY <2>0, <2>1, <2>5 DEF Untouched
  <2>7. CallerOk(v)
    BY <1>2, <1>5, <2>1, <2>2, <2>3, <2>4, <2>6 DEF CallerOk
  <2>8. InFlight(v, Start(v))
    <3>1. PICK cut : cut = <<Start(v)>>
      OBVIOUS
    <3>2. Len(inflight[v]) = 0 /\ cut[1] = Start(v) /\ cut[0 + 1] = opos[v]
      BY <2>0, <3>1
    <3>3. Covers(v, cut, Start(v))
      BY <3>2 DEF Covers
    <3> QED BY <3>3 DEF InFlight
  <2>9. OwnerOk(v)
    BY <2>0, <2>1, <2>8 DEF OwnerOk, LastKey
  <2> QED BY <2>7, <2>9
<1>8. RunInv
  BY <1>2, <1>4, <1>6, <1>7 DEF RunInv
<1>9. PrefixOfMerge
  BY <1>3 DEF PrefixOfMerge
<1>10. StopsWhereTheInputSays
  BY <1>2 DEF StopsWhereTheInputSays
<1> QED BY <1>0, <1>1, <1>2, <1>8, <1>9, <1>10 DEF MergeSound, Sound

LEMMA IndexedStep == Indexed /\ [Next]_vars => Indexed'
<1> SUFFICES ASSUME Indexed, [Next]_vars PROVE Indexed'
  OBVIOUS
<1>1. UNCHANGED input
  BY DEF Next, Owner, Worker, Merging, Closing, vars, Issue, TakeFree, PutWork, AwaitDone, TakeWork,
         FinishWork, New, Seed, Seeded, NextInBatch, NextRefill, NextEnd, Receive, ReceiveClosed,
         Close, Drain, StopPool
<1>2. Venues' = Venues
  BY <1>1, SameInput
<1>3. DOMAIN opos' = DOMAIN opos /\ DOMAIN olast' = DOMAIN olast
  BY DEF Next, Owner, Worker, Merging, Closing, vars, Issue, TakeFree, PutWork, AwaitDone, TakeWork,
         FinishWork, New, Seed, Seeded, NextInBatch, NextRefill, NextEnd, Receive, ReceiveClosed,
         Close, Drain, StopPool, Refill, owners
<1>4. \A sd, v, p : Deliver(sd, v, p) => DOMAIN pending' = DOMAIN pending
  BY DEF Deliver
<1>5. \A sd, e : Fail(sd, e) => DOMAIN pending' = DOMAIN pending
  BY DEF Fail
<1>6. DOMAIN pos' = DOMAIN pos /\ DOMAIN pending' = DOMAIN pending
  BY <1>4, <1>5 DEF Next, Owner, Worker, Merging, Closing, vars, Issue, TakeFree, PutWork, AwaitDone,
         TakeWork, FinishWork, New, Seed, Seeded, NextInBatch, NextRefill, NextEnd, Receive,
         ReceiveClosed, Close, Drain, StopPool, Refill, merger
<1> QED BY <1>2, <1>3, <1>6 DEF Indexed

\* A step that is not the caller's, or comes after the run has stopped.
LEMMA StaysStopped ==
  ASSUME Sound, UNCHANGED <<input, merr, emitted>>, Going' => RunInv',
         mpc' \in {"new", "seed", "seedRecv", "nextRecv"} => mpc' = mpc,
         mpc' = "ended" => mpc = "ended"
  PROVE  Sound'
<1>1. PrefixOfMerge' /\ StopsWhereTheInputSays'
  BY SamePrefix, SameStop DEF Sound
<1> QED BY <1>1 DEF Sound

LEMMA OwnersSound ==
  ASSUME MergeSound, (\E v \in Venues : Owner(v)) \/ Worker
  PROVE  Sound'
<1>1. UNCHANGED <<input, mpc, merr, emitted>>
  BY DEF Owner, Worker, Issue, TakeFree, PutWork, AwaitDone, TakeWork, FinishWork, merger
<1>2. Going' = Going
  BY <1>1 DEF Going
<1>3. Going => RunInv'
  <2> SUFFICES ASSUME Going PROVE RunInv'
    OBVIOUS
  <2>1. Running
    BY DEF MergeSound, Sound, Running
  <2> QED BY <2>1, RunIssue, RunTakeFree, RunPutWork, RunAwaitDone, RunTakeWork, RunFinishWork
          DEF Owner, Worker
<1> QED BY <1>1, <1>2, <1>3, StaysStopped DEF MergeSound

LEMMA MergingSound ==
  ASSUME MergeSound, Merging
  PROVE  Sound'
<1>1. Going
  BY DEF Merging, New, Seed, Seeded, NextInBatch, NextRefill, NextEnd, Receive, ReceiveClosed,
         Going, MergeSound, Sound
<1>2. Running /\ Sound
  BY <1>1 DEF MergeSound, Sound, Running
<1> QED BY <1>1, <1>2, RunNew, SeedInline, SeedPool, RunSeeded, RunNextInBatch, NextInline, NextPool,
           RunNextEnd, RunReceive, RunReceiveClosed DEF Merging

LEMMA ClosingSound ==
  ASSUME MergeSound, Closing
  PROVE  Sound'
<1>1. UNCHANGED <<input, merr, emitted>> /\ mpc' \in {"closed", "drain"}
  BY DEF Closing, Close, Drain, StopPool, merger
<1>2. ~Going'
  BY <1>1 DEF Going
<1> QED BY <1>1, <1>2, StaysStopped DEF MergeSound

LEMMA SoundStep == MergeSound /\ [Next]_vars => MergeSound'
<1> SUFFICES ASSUME MergeSound, [Next]_vars PROVE MergeSound'
  OBVIOUS
<1>1. MergeInv' /\ Input' /\ Indexed'
  BY MergeStep, InputStep, IndexedStep DEF MergeSound
<1>2. CASE UNCHANGED vars
  <2>1. UNCHANGED <<input, mpc, merr, emitted, ask, held, pos, merger, abort, opos, batch>>
        /\ UNCHANGED <<opc, hand, inflight, olast, pending>> /\ Work' = Work
    BY <1>2 DEF vars, merger, owners, pool, Work
  <2>2. Going' = Going
    BY <2>1 DEF Going
  <2>3. Going => RunInv'
    <3> SUFFICES ASSUME Going PROVE RunInv'
      OBVIOUS
    <3>1. Running
      BY DEF MergeSound, Sound, Running
    <3>2. \A v \in Venues : Due(v)' = Due(v)
      BY <2>1, SameDue
    <3>3. \A v \in Venues : ~inline => OwnerOk(v)'
      BY <2>1, <3>1, <3>2, OwnerStays
    <3>4. RunInv
      BY <3>1 DEF Running
    <3> QED BY <2>1, <3>3, <3>4, OwnersMove
  <2>4. Sound'
    BY <2>1, <2>2, <2>3, StaysStopped DEF MergeSound
  <2> QED BY <1>1, <2>4 DEF MergeSound
<1>3. CASE Next
  <2>1. Sound'
    BY <1>3, OwnersSound, MergingSound, ClosingSound DEF Next
  <2> QED BY <1>1, <2>1 DEF MergeSound
<1> QED BY <1>2, <1>3

LEMMA MergeSoundness == Spec => []MergeSound
BY RunInitial, SoundStep, PTL DEF Spec

\* Whatever the inputs, the batch shape, the number of venues and the size of the
\* pool, and however the owners and the workers interleave with the caller, the
\* events Next has returned are a prefix of the one sorted merge of the records
\* that decode (Merger.Next, LoserTree, venueFeed).
THEOREM MergeIsSorted == Spec => []PrefixOfMerge
<1>1. MergeSound => PrefixOfMerge
  BY DEF MergeSound, Sound
<1> QED BY <1>1, MergeSoundness, PTL

\* A clean end means that every record of every venue was returned and none had a
\* fault, and an error comes after exactly the records that the input and the batch
\* shape put before it, with or without workers (Merger.Next, refill, checkSeam).
THEOREM StopsExactly == Spec => []StopsWhereTheInputSays
<1>1. MergeSound => StopsWhereTheInputSays
  BY DEF MergeSound, Sound
<1> QED BY <1>1, MergeSoundness, PTL

=============================================================================
