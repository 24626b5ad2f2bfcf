\* Lists of up to four nodes, positions past both ends.
SPECIFICATION Spec
CONSTANTS
  None = None
  Values = {1, 2, 3}
  Reach = 5
  MaxItems = 2
  MaxLen = 4
INVARIANTS ReadsAreSlices RangesMeanTheSameEverywhere SortedAddMerges
  RemoveIfFormsAgree InsertKeepsOrder SetOverwritesInPlace
