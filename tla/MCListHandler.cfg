\* Two lists of two types, positions at and past both ends.
SPECIFICATION Spec
CONSTANTS
  Names = {a, b}
  Types = {Int, String}
  Values = {1, 2}
  Positions <- EdgePositions
  Ranges <- EdgeRanges
  IntersectRanges <- FewRanges
  MaxItems = 2
  MaxLen = 3
  NoList = NoList
  None = None
SYMMETRY NameSymmetry
INVARIANTS TypeOK SortedListsAscend AnsweredSizeIsListSize SameSignRemovesAreDefined
PROPERTIES RefusalChangesNothing OnlyTargetsChange KindIsFixed
