---------------------------- MODULE MCPublication ----------------------------
(* One pull request: its first head concerns every reviewer, its second all *)
(* but one.                                                                 *)
EXTENDS PublicationProperties

CONSTANTS h1, h2, v1, v2, r1, r2

RoutedByHead ==
    [x \in Revision |-> IF x.head = h1 THEN Reviewer ELSE Reviewer \ {v1}]
=============================================================================
