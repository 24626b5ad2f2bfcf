\* Requests of up to three items out of four values on a list of up to five nodes.
SPECIFICATION Spec
CONSTANTS
  Values = {1, 2, 3, 4}
  MaxItems = 3
  MaxLen = 5
  ItemVectors <- Vectors
INVARIANTS TypeOK ListAscends AddKeepsEverything LoopIsSortedAdd IInv
