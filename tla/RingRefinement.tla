--------------------------- MODULE RingRefinement ---------------------------
(***************************************************************************)
(* The ring implements the feed: a record counts as published from the     *)
(* odd store of its slot's seq, one step before writeSeq moves.            *)
(***************************************************************************)
EXTENDS Ring

CONSTANT Indexes   \* the emit indexes the feed speaks of

Published == IF wpc = "advance" THEN writeSeq + 1 ELSE writeSeq

Over == endPlusOne # 0

Members == {s \in Subs : joiner[s] = "joined"}

Got == [s \in Subs |-> [index |-> out[s].index, first |-> out[s].first]]

FeedOf == INSTANCE Feed WITH
  published  <- Published,
  ended      <- Over,
  members    <- Members,
  guaranteed <- blocking,
  pos        <- cursor,
  got        <- Got

\* Every step of the ring is a step of the feed or changes nothing the feed
\* speaks of: no delivery outside the published, held window, no skip for a
\* registered Block subscriber, no skip shorter than a lap for any other, no
\* publication past a registered subscriber's last unread record.
ImplementsFeed == FeedOf!Spec

=============================================================================
