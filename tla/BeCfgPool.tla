----------------------------- MODULE BeCfgPool ------------------------------
(***************************************************************************)
(* What the kernel's BE configuration buffers promise to the firmware that *)
(* fills them in and to VI that programs the hardware from them: a buffer  *)
(* is handed to the writer only while nobody reads it, a reader always     *)
(* gets the configuration published last, and the memory is given back     *)
(* only when no reader is left.                                            *)
(***************************************************************************)
EXTENDS Integers

CONSTANTS
  Buffer,    \* the buffers
  NoBuffer   \* none of them, not in Buffer

VARIABLES
  open,    \* the buffers exist
  writer,  \* the buffer being filled in
  latest,  \* the buffer published last
  pins     \* how many readers each buffer has

vars == <<open, writer, latest, pins>>

NobodyReads == \A b \in Buffer : pins[b] = 0

Init ==
  /\ open = FALSE
  /\ writer = NoBuffer
  /\ latest = NoBuffer
  /\ pins = [b \in Buffer |-> 0]

Open ==
  /\ ~open
  /\ NobodyReads
  /\ open' = TRUE
  /\ UNCHANGED <<writer, latest, pins>>

\* A buffer that is neither read nor the one the next reader will get.
Claim(b) ==
  /\ open
  /\ writer = NoBuffer
  /\ b # latest
  /\ pins[b] = 0
  /\ writer' = b
  /\ UNCHANGED <<open, latest, pins>>

Publish ==
  /\ writer # NoBuffer
  /\ latest' = writer
  /\ writer' = NoBuffer
  /\ UNCHANGED <<open, pins>>

Pin ==
  /\ latest # NoBuffer
  /\ pins' = [pins EXCEPT ![latest] = @ + 1]
  /\ UNCHANGED <<open, writer, latest>>

Unpin(b) ==
  /\ pins[b] > 0
  /\ pins' = [pins EXCEPT ![b] = @ - 1]
  /\ UNCHANGED <<open, writer, latest>>

Close ==
  /\ open
  /\ NobodyReads
  /\ open' = FALSE
  /\ writer' = NoBuffer
  /\ latest' = NoBuffer
  /\ UNCHANGED pins

Next ==
  \/ Open \/ Publish \/ Pin \/ Close
  \/ \E b \in Buffer : Claim(b) \/ Unpin(b)

Spec == Init /\ [][Next]_vars
=============================================================================
