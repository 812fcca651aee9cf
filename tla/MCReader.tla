------------------------------- MODULE MCReader -------------------------------
(* Lists of no, one and two pages, one of them short, that contain, reorder  *)
(* or repeat parts of each other.                                            *)
EXTENDS ReaderProperties

CONSTANTS a1, a2, a3

SomeLists == {<<>>, <<a1>>, <<a2, a1>>, <<a1, a2, a3>>, <<a2, a3, a1>>}
=============================================================================
