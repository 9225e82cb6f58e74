------------------------------ MODULE MCPiris -------------------------------
(***************************************************************************)
(* The P-iris motor checked by TLC.                                        *)
(***************************************************************************)
EXTENDS Piris

\* Callers that wait for the idle status, and no automatic exposure.
Manual == [polite |-> TRUE, handler |-> FALSE, smp |-> TRUE, exits |-> FALSE]

\* Callers that do not wait, while the handler sets targets.
Automatic == [polite |-> FALSE, handler |-> TRUE, smp |-> TRUE, exits |-> FALSE]

\* The module is unloaded, perhaps while the motor moves.
Unloading == [polite |-> FALSE, handler |-> FALSE, smp |-> FALSE, exits |-> TRUE]

MCEnvironment == {Manual, Automatic, Unloading}
=============================================================================
