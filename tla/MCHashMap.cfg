SPECIFICATION Spec
CONSTANTS
  Keys = {1, 2, 3, 4, 5}
  BucketLength = 4
  Seeds = {0, 1}
  Hash <- MCHash
  KeyLen <- MCKeyLen
  MaxCopies = 4
  BlockMin = 2
  BlockMax = 4
INVARIANTS MapConsistent ProbesEnd KeysKept
PROPERTIES ImplementsOrderedMap ResizesAreApart
