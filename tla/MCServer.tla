------------------------------ MODULE MCServer -------------------------------
(* Two Block clients from the beginning, watched or not; and one of them with a *)
(* Drop client that starts live, at the same speed or at another one, where     *)
(* everything may fail.                                                         *)
EXTENDS Server

CONSTANTS c, d

With(block, slow, live) ==
  [k \in {c, d} |-> IF k = c THEN [block |-> TRUE, slow |-> FALSE, live |-> FALSE]
                    ELSE [block |-> block, slow |-> slow, live |-> live]]

Watched == [req |-> With(TRUE, FALSE, FALSE), leavers |-> {d}, watchdog |-> TRUE,
            manifest |-> FALSE, mayFail |-> FALSE]
Unwatched == [Watched EXCEPT !.watchdog = FALSE, !.manifest = TRUE]
SameSpeed == [req |-> With(FALSE, FALSE, TRUE), leavers |-> {}, watchdog |-> FALSE,
              manifest |-> TRUE, mayFail |-> TRUE]
OtherSpeed == [SameSpeed EXCEPT !.req = With(FALSE, TRUE, TRUE), !.leavers = {d}]

MCSetups == {Watched, Unwatched, SameSpeed, OtherSpeed}
MCUnwatched == {Unwatched}
==============================================================================
