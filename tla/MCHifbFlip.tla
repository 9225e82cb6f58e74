----------------------------- MODULE MCHifbFlip -----------------------------
(***************************************************************************)
(* The double-buffered refresh checked by TLC.                             *)
(***************************************************************************)
EXTENDS HifbFlip

\* The sample of the repository: it sleeps between its refreshes.
Sample == [paced |-> TRUE, calm |-> FALSE, quick |-> FALSE, fails |-> FALSE]

\* A small region, drawn before the call that queued it has returned.
SmallRegion == [Sample EXCEPT !.quick = TRUE]

\* The blitter's queue may be full.
Refused == [Sample EXCEPT !.fails = TRUE]

\* Refreshes at any moment: lucky ones, and with everything that may happen.
Lucky  == [Sample EXCEPT !.paced = FALSE, !.calm = TRUE]
Hectic == [paced |-> FALSE, calm |-> FALSE, quick |-> TRUE, fails |-> TRUE]

MCEnvironment == {Sample, SmallRegion, Refused, Lucky, Hectic}
=============================================================================
