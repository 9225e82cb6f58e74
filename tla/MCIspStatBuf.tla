---------------------------- MODULE MCIspStatBuf ----------------------------
(***************************************************************************)
(* The statistics buffers checked by TLC: two buffers, as in the code,     *)
(* sessions and runs that end early, with fairness.                        *)
(***************************************************************************)
EXTENDS IspStatBuf
=============================================================================
