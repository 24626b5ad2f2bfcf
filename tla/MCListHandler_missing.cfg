\* A missing list is answered Ok.
SPECIFICATION Spec
CONSTANTS
  Names = {a, b}
  Types = {Int, String}
  Values = {1, 2}
  Positions = {0}
  Ranges <- PastRanges
  IntersectRanges <- WholeList
  MaxItems = 1
  MaxLen = 2
  NoList = NoList
  None = None
INVARIANT OkMeansListExists
