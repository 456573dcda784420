--------------------------- MODULE MCHelixNode ---------------------------
(* Two documents of one bundle version, one of another, and one that pauses *)
(* the node.                                                                *)
EXTENDS HelixNode

CONSTANTS d1, d2, d3, d4

MCDocuments == {d1, d2, d3, d4}

MCBundle == [d \in MCDocuments |-> IF d \in {d1, d2} THEN "v1" ELSE "v2"]
==========================================================================
