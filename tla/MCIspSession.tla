---------------------------- MODULE MCIspSession ----------------------------
(***************************************************************************)
(* The life cycle checked by TLC.                                          *)
(*   MCIspSession       one Run thread and two crashes, or two Run threads *)
(*                      and one crash; an application that tries again     *)
(*   MCIspSessionTwice  two threads call Run at the same time              *)
(***************************************************************************)
EXTENDS IspSession

OneRunner ==
  {[runners |-> {t}, maxCrash |-> 2, exitTimeout |-> TRUE] :
     t \in {CHOOSE t \in Thread : TRUE}}

TwoRunners == {[runners |-> Thread, maxCrash |-> 1, exitTimeout |-> TRUE]}

RetryEnvironment == OneRunner \cup TwoRunners

TwiceEnvironment ==
  {[runners |-> Thread, maxCrash |-> 0, exitTimeout |-> FALSE]}
=============================================================================
