------------------------------- MODULE MCMerge -------------------------------
(***************************************************************************)
(* Instances of Merge for TLC: small inputs, one per kind of fault.        *)
(***************************************************************************)
EXTENDS Merge

Key(ts, venue, seq) == <<ts, venue, seq, 0>>
File(keyseq) == [keys |-> keyseq, badBlocks |-> {}, badBlobs |-> {}]

A(keyseq) == File([i \in DOMAIN keyseq |-> Key(keyseq[i][1], 1, keyseq[i][2])])
B(keyseq) == File([i \in DOMAIN keyseq |-> Key(keyseq[i][1], 2, keyseq[i][2])])

LongA == A(<<<<1, 1>>, <<2, 2>>, <<2, 3>>, <<4, 4>>>>)

\* Three venues, one of them empty, one with two files and one with an empty file.
Clean == [ids |-> <<1, 2, 3>>,
          files |-> <<<<A(<<<<1, 1>>, <<1, 2>>, <<2, 3>>>>), A(<<<<3, 4>>>>)>>, <<>>,
                      <<File(<<>>), File(<<Key(1, 3, 1), Key(2, 3, 2)>>)>>>>]

\* A key repeated inside a batch, at a seam, and at a file boundary.
InBatch == [ids |-> <<1, 2>>,
            files |-> <<<<A(<<<<1, 1>>, <<2, 2>>, <<3, 3>>, <<3, 3>>>>)>>,
                        <<B(<<<<1, 1>>, <<2, 2>>>>)>>>>]
AtSeam == [ids |-> <<1, 2>>,
           files |-> <<<<A(<<<<1, 1>>, <<2, 3>>, <<2, 2>>>>)>>, <<B(<<<<3, 1>>>>)>>>>]
AtBoundary == [ids |-> <<2, 1>>,
               files |-> <<<<B(<<<<1, 1>>>>)>>,
                           <<A(<<<<1, 1>>>>), A(<<<<1, 1>>, <<2, 2>>>>)>>>>]

\* A corrupt block, a missing payload, a foreign record, two cursors of a venue.
Corrupt == [ids |-> <<1, 2>>,
            files |-> <<<<[LongA EXCEPT !.badBlocks = {1}]>>, <<B(<<<<1, 1>>>>)>>>>]
NoBlob == [ids |-> <<1>>, files |-> <<<<[LongA EXCEPT !.badBlobs = {4}]>>>>]
Foreign == [ids |-> <<1>>, files |-> <<<<File(<<Key(1, 9, 1)>>)>>>>]
Twice == [ids |-> <<1, 1>>, files |-> <<<<LongA>>, <<>>>>]

MCDatasets == {Clean, InBatch, AtSeam, AtBoundary, Corrupt, NoBlob, Foreign, Twice}
MCShapes == {[records |-> 2, batches |-> 3], [records |-> 1, batches |-> 2]}
MCSentinel == <<9, 9, 9, 9>>
=============================================================================
