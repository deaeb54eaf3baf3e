------------------------------- MODULE MCRing -------------------------------
(***************************************************************************)
(* Instances of Ring for TLC.                                              *)
(***************************************************************************)
EXTENDS Ring, TLC

\* Two records share each exchange timestamp.
MCTs == [n \in 0 .. (Total - 1) |-> n \div 2]

At(k, a) == [kind |-> k, arg |-> a]

\* Every kind of start, an index already overwritten and a future one.
MCAllStarts == {At("beginning", 0), At("exchangeTs", 1), At("emitIndex", 1),
                At("emitIndex", 3), At("live", 0)}
=============================================================================
