----------------------------- MODULE MCIspBeBuf -----------------------------
(***************************************************************************)
(* The BE configuration buffers checked by TLC, in these environments.     *)
(***************************************************************************)
EXTENDS IspBeBuf

\* No mode switch, VI in order: the pool refinement.
InOrder ==
  [smp |-> TRUE, modeSwitch |-> FALSE, viHold |-> FALSE, viInOrder |-> TRUE,
   runOnce |-> TRUE, maxRef |-> 3]

\* No mode switch, VI in any order and with extra holds.
AnyOrder == [InOrder EXCEPT !.viInOrder = FALSE, !.viHold = TRUE]

\* Mode switches, the handler on another processor.
Switching == [InOrder EXCEPT !.modeSwitch = TRUE, !.maxRef = 2]

\* Mode switches, the handler on the same processor, one VI reference.
SwitchingOneRef == [Switching EXCEPT !.smp = FALSE, !.maxRef = 1]

\* No run-once: the liveness of the loop, with and without mode switches.
Looping == [AnyOrder EXCEPT !.viHold = FALSE, !.runOnce = FALSE]
LoopingSwitching == [Looping EXCEPT !.modeSwitch = TRUE, !.smp = FALSE]

MCEnvironment ==
  {InOrder, AnyOrder, Switching, SwitchingOneRef, Looping,
   LoopingSwitching}
=============================================================================
