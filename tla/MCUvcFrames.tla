---------------------------- MODULE MCUvcFrames -----------------------------
(***************************************************************************)
(* The frames of the UVC sample checked by TLC, with no more nodes than    *)
(* there are buffers.                                                      *)
(***************************************************************************)
EXTENDS UvcFrames

\* The stream starts and stops with the host's events.
Isochronous ==
  [bulk |-> FALSE, formats |-> Format, replug |-> FALSE, fails |-> FALSE]

\* It starts again with every commit.
Bulk == [Isochronous EXCEPT !.bulk = TRUE]

\* The host goes and comes back without having stopped the stream.
Replug == [Isochronous EXCEPT !.formats = {"mjpeg"}, !.replug = TRUE]

\* Bulk mode, in which the conversion of a frame may fail.
Failing == [Bulk EXCEPT !.formats = {"yuv"}, !.fails = TRUE]

MCEnvironment == {Isochronous, Bulk, Replug, Failing}
=============================================================================
