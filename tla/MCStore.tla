------------------------------- MODULE MCStore -------------------------------
(* One file of at most four records in blocks of two, two writers in turn. *)
EXTENDS Store

MCKeys == {<<1, 1>>, <<2, 1>>, <<2, 2>>, <<2, 3>>, <<3, 1>>}
MCLevels == {[bids |-> <<>>, asks |-> <<>>], [bids |-> <<1>>, asks |-> <<2>>],
             [bids |-> <<1, 2>>, asks |-> <<3>>]}
==============================================================================
