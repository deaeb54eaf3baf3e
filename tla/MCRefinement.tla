---------------------------- MODULE MCRefinement ----------------------------
(***************************************************************************)
(* Instances of RingRefinement for TLC.                                    *)
(***************************************************************************)
EXTENDS RingRefinement

\* Two records share each exchange timestamp.
MCTs == [n \in 0 .. (Total - 1) |-> n \div 2]

MCStarts == [kind : {"beginning", "live"}, arg : {0}]
                \cup [kind : {"emitIndex", "exchangeTs"}, arg : {1, 3}]

\* Every index a cursor or a delivery can reach in these instances.
MCIndexes == 0 .. (Total + 3)
=============================================================================
