------------------------------ MODULE MCSpool ------------------------------
(* Values of the constants of Spool for model checking. *)
EXTENDS Spool, TLC

ThirdCitesFirst == [c \in Captures |-> IF c = 3 THEN 1 ELSE NoCapture]
CitesNothing == [c \in Captures |-> NoCapture]
CatalogToo == {Archived, Catalog}
(* Two long pages, which are reckoned shorter by their decoded bodies than *)
(* they are, and a short confirmation.                                     *)
LongPages == <<7, 8, 1>>
TheirBodies == <<1, 7, 1>>
(* Pages that were sent compressed, longer when decoded. *)
Compressed == <<2, 2>>
Decoded == <<3, 3>>
=============================================================================
