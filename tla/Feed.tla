-------------------------------- MODULE Feed --------------------------------
(***************************************************************************)
(* What the fan-out promises its subscribers, without slots, words or      *)
(* queues: records are published one index after another; a subscriber is  *)
(* handed whole records at growing indexes out of the last Capacity        *)
(* published, and is told where it skipped; a subscriber under guarantee   *)
(* skips nothing, and publication never runs a full ring ahead of it.      *)
(***************************************************************************)
EXTENDS Integers

CONSTANTS
  Capacity,    \* how many records are held
  Subs,        \* the subscribers
  Indexes      \* the emit indexes, a set of naturals

VARIABLES
  published,   \* how many records have been published
  ended,       \* publication is over
  members,     \* the subscribers that have joined
  guaranteed,  \* the members that are promised no loss
  pos,         \* the next index each subscriber wants
  got          \* the last delivery: its index and the first index it skipped

vars == <<published, ended, members, guaranteed, pos, got>>

Nothing == [index |-> 0, first |-> 0]

Init ==
  /\ published = 0
  /\ ended = FALSE
  /\ members = {}
  /\ guaranteed = {}
  /\ pos = [s \in Subs |-> 0]
  /\ got = [s \in Subs |-> Nothing]

\* Publication waits for a guaranteed subscriber a full ring behind.
Publish ==
  /\ ~ended
  /\ \A s \in guaranteed : published - pos[s] < Capacity
  /\ published' = published + 1
  /\ UNCHANGED <<ended, members, guaranteed, pos, got>>

End ==
  /\ ended' = TRUE
  /\ UNCHANGED <<published, members, guaranteed, pos, got>>

\* A guarantee is given only where the record to start from is still held.
Join(s, p) ==
  /\ s \notin members
  /\ members' = members \cup {s}
  /\ pos' = [pos EXCEPT ![s] = p]
  /\ \/ guaranteed' = guaranteed
     \/ published - p <= Capacity /\ guaranteed' = guaranteed \cup {s}
  /\ UNCHANGED <<published, ended, got>>

\* A guarantee ends by leaving or by eviction.
Release(s) ==
  /\ s \in guaranteed
  /\ guaranteed' = guaranteed \ {s}
  /\ UNCHANGED <<published, ended, members, pos, got>>

\* The record handed over is published and still held; only a subscriber
\* without guarantee that was lapped skips, and never by less than a lap.
Deliver(s, t) ==
  /\ s \in members
  /\ t < published
  /\ published - t <= Capacity
  /\ \/ t = pos[s]
     \/ s \notin guaranteed /\ t - pos[s] >= Capacity
  /\ pos' = [pos EXCEPT ![s] = t + 1]
  /\ got' = [got EXCEPT ![s] = [index |-> t, first |-> pos[s]]]
  /\ UNCHANGED <<published, ended, members, guaranteed>>

Next ==
  \/ Publish
  \/ End
  \/ \E s \in Subs :
       \/ \E p \in Indexes : Join(s, p)
       \/ Release(s)
       \/ \E t \in Indexes : Deliver(s, t)

Spec == Init /\ [][Next]_vars

=============================================================================
