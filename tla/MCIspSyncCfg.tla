---------------------------- MODULE MCIspSyncCfg ----------------------------
(***************************************************************************)
(* The sensor configurations checked by TLC.                               *)
(*   MCIspSyncCfgDelay  one processor, changes of mode, every register     *)
(*   MCIspSyncCfgSkip   two processors: a skipped configuration            *)
(***************************************************************************)
EXTENDS IspSyncCfg, TLC

\* The values of the register are interchangeable.
Perms == Permutations(Value)
=============================================================================
