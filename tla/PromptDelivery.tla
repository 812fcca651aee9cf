----------------------------- MODULE PromptDelivery -----------------------------
(***************************************************************************)
(* What a review promises of its prompt, however it is delivered: the       *)
(* reviewer is told it from the beginning and without a gap, and is asked   *)
(* for no verdict before the end of it.                                     *)
(***************************************************************************)
EXTENDS Naturals, Sequences

CONSTANT Length     \* lengths a prompt may have

VARIABLES
    length,
    told,       \* the pieces told, by their first and last character
    outcome

vars == <<length, told, outcome>>

\* The last character that was told.
reached == IF told = <<>> THEN 0 ELSE told[Len(told)].to

Init ==
    /\ length \in Length
    /\ told = <<>> /\ outcome = "open"

\* One more piece of the prompt, all of it at the most.
Tell(last) ==
    /\ outcome = "open" /\ reached < last
    /\ told' = Append(told, [from |-> reached + 1, to |-> last])
    /\ UNCHANGED <<length, outcome>>

Conclude ==
    /\ outcome = "open"
    /\ outcome' \in {"failure"} \cup (IF reached = length THEN {"success"} ELSE {})
    /\ UNCHANGED <<length, told>>

Next == (\E last \in 1 .. length : Tell(last)) \/ Conclude

Spec == Init /\ [][Next]_vars
=============================================================================
