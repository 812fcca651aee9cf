-------------------------------- MODULE MCTurns --------------------------------
(* A prompt for one message, one for two fragments of three and two          *)
(* characters, and one with a byte too many.                                *)
EXTENDS TurnProperties

Prompts == {[chars |-> 4, bytes |-> 4], [chars |-> 5, bytes |-> 6],
            [chars |-> 5, bytes |-> 7]}
=============================================================================
