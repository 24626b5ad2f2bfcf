\* A set outside the list.
SPECIFICATION Spec
CONSTANTS
  None = None
  Values = {1, 2, 3}
  Reach = 5
  MaxItems = 2
  MaxLen = 4
INVARIANT SetOutOfBoundsChangesNothing
