---------------------------- MODULE MCIspStitch -----------------------------
(***************************************************************************)
(* A group of stitched pipes checked by TLC.                               *)
(***************************************************************************)
EXTENDS IspStitch

CONSTANTS p1, p2

TwoPipes == <<p1, p2>>

\* One thread starts the pipes, and none before all have been stopped.
OneThread == [serial |-> TRUE, together |-> TRUE, smp |-> FALSE, brief |-> TRUE]

\* Every pipe is initialised by a thread of its own.
Parallel == [OneThread EXCEPT !.serial = FALSE]

MCEnvironment == {OneThread, Parallel}
=============================================================================
