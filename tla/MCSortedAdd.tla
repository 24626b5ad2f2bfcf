---------------------------- MODULE MCSortedAdd ----------------------------
(* Instance of SortedAdd for TLC: every vector of up to MaxItems values. *)
EXTENDS SortedAdd

CONSTANTS Values, MaxItems

Vectors == BoundedSeq(Values, MaxItems) \ {<<>>}
=============================================================================
