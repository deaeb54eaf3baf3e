------------------------------- MODULE MCPacer -------------------------------
(***************************************************************************)
(* Instances of Pacer for TLC.                                             *)
(***************************************************************************)
EXTENDS Pacer

\* Close together, a gap of several slices, and a span that saturates.
MCStreams == {<<3, 4, 7>>, <<0, 15>>}

\* Terms that are refused by themselves, and the same speed written twice.
MCTerms == {-1, 0, 1, 2, 4}
=============================================================================
