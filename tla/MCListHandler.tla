--------------------------- MODULE MCListHandler ---------------------------
(* Instances of ListHandler for TLC. *)
EXTENDS ListHandler, TLC

NameSymmetry == Permutations(Names)

Between(starts, stops) ==
  [start : starts, stop : stops, hasStop : {TRUE}] \cup [start : starts, stop : {0}, hasStop : {FALSE}]

\* Positions on both sides of the ends of a list of up to three nodes.
EdgePositions == {-5, -1, 2}
EdgeRanges == Between({-4, -2, 0, 2}, {-5, -1, 0, 4})
                \cup {[start |-> -1, stop |-> -3, hasStop |-> TRUE]}
WholeList == Between({0}, {})
PastRanges == WholeList \cup {[start |-> 2, stop |-> 0, hasStop |-> TRUE]}
FewRanges == PastRanges \cup {[start |-> 1, stop |-> -1, hasStop |-> TRUE]}
=============================================================================
