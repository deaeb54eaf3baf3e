------------------------------ MODULE MCArchive ------------------------------
(* Days of two ticks, an epoch every two records, two venues and two       *)
(* instruments; rows that convert and rows that do not.                    *)
EXTENDS Archive

Row(ts, seq, body) == [ts |-> ts, seq |-> seq] @@ body
Body(v, i, type, side, price, size, levels) ==
  [venue |-> v, instrument |-> i, type |-> type, side |-> side, price |-> price,
   size |-> size, levels |-> levels]
Level(side, price, size) == [side |-> side, price |-> price, size |-> size]

Keys == {<<-1, 1>>, <<0, 1>>, <<0, 4>>, <<1, 2>>}
Bodies == {
  Body(1, 1, Delta, SideBid, 1, 5, <<>>),
  Body(1, 1, Delta, SideBid, 1, 0, <<>>),
  Body(1, 1, Delta, SideBid, 2, 4, <<>>),
  Body(1, 2, Delta, SideAsk, 1, 5, <<>>),
  Body(1, 2, Trade, SideAsk, 1, 5, <<>>),
  Body(1, 1, SnapshotPointer, 0, 0, 0, <<Level(0, 1, 7), Level(1, 3, 1), Level(0, 2, 2)>>)}
Others == {
  Row(1, 2, Body(1, 2, SnapshotPointer, 0, 0, 0, <<Level(1, 2, 3)>>)),
  Row(0, 1, Body(2, 1, Delta, SideBid, 1, 5, <<>>)),
  Row(0, 1, Body(9, 1, Delta, SideBid, 1, 5, <<>>)),
  Row(0, 1, Body(1, 1, 3, SideBid, 1, 5, <<>>)),
  Row(0, 1, Body(1, 1, Trade, 2, 1, 5, <<>>)),
  Row(0, 1, Body(1, 1, Trade, SideBid, 1, 5, <<Level(0, 1, 1)>>)),
  Row(0, 1, Body(1, 1, SnapshotPointer, 0, 1, 0, <<>>)),
  Row(0, 1, Body(1, 1, SnapshotPointer, 0, 0, 0, <<Level(2, 1, 1)>>)),
  Row(0, 2, Body(1, 1, SnapshotPointer, 0, 0, 0, <<Level(1, 1, 1), Level(1, 1, 2)>>))}
MCRows == {Row(k[1], k[2], b) : k \in Keys, b \in Bodies} \cup Others
\* The rows of one day.
MCDayRows == {r \in MCRows : r.ts >= 0}
==============================================================================
