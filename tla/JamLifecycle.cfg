SPECIFICATION Spec
CONSTANTS
  h1 = h1
  h2 = h2
  Handles = {h1, h2}
  Users <- TwoUsers
  Marks = {1, 2}
  AtRecords = TRUE
  MaxWords = 8
SYMMETRY Symmetry
INVARIANTS OpenableIsWhole DeletedIsGone LastReadKept LifecycleInv
