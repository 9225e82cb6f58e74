---------------------------- MODULE MCIspEvents -----------------------------
(***************************************************************************)
(* The events of a pipe checked by TLC.                                    *)
(***************************************************************************)
EXTENDS IspEvents

\* The handler in the top half, callers without a timeout, frames for ever.
Waiting ==
  [bothalf |-> FALSE, kinds |-> {"start", "end"}, untimed |-> TRUE,
   writes |-> FALSE, maxExit |-> 0]

\* The handler in the bottom half, timed callers, and the pipe is shut down
\* and perhaps started again.
Restarting ==
  [bothalf |-> TRUE, kinds |-> {"start", "beEnd"}, untimed |-> FALSE,
   writes |-> FALSE, maxExit |-> 1]

\* The firmware writes kernel configurations.
Writing == [Waiting EXCEPT !.kinds = {"start"}, !.untimed = FALSE, !.writes = TRUE]

MCEnvironment == {Waiting, Restarting, Writing}
=============================================================================
